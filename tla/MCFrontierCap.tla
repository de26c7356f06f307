--------------------------- MODULE MCFrontierCap ----------------------------
(***************************************************************************)
(* FrontierCap for TLC: three concurrent checks, a cap of one third that   *)
(* bites after two checks instead of 0.08 after twenty, three minutes so   *)
(* that the first bucket can expire under a check that is still running.   *)
(***************************************************************************)
EXTENDS FrontierCap, TLC

CONSTANTS c1, c2, c3

MCCallers == {c1, c2, c3}
Symmetry == Permutations(MCCallers)

=============================================================================
