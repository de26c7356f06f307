--------------------------- MODULE MCVectorStore ----------------------------
(***************************************************************************)
(* VectorStore for TLC: one record that lives for one second and one       *)
(* without a time to live, as semantic cache and case memory write them.   *)
(* Three clock units per second let a TTL reply round up and down.         *)
(***************************************************************************)
EXTENDS VectorStore, TLC

CONSTANTS k1, k2, none

MCKeys == {k1, k2}
MCLifetime == (k1 :> 3) @@ (k2 :> Never)

=============================================================================
