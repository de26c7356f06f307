----------------------------- MODULE MCCascade ------------------------------
(***************************************************************************)
(* Instances of Cascade for TLC: one frontier model, and three models in   *)
(* the other tiers so that aggregation has its two candidates.  One time   *)
(* unit stands for 30 s (budget 270 s, SLOs 30/15/240 s, default timeout   *)
(* 90 s; the pauses of up to 4 s are rounded up to a unit).                *)
(***************************************************************************)
EXTENDS Cascade, TLC

CONSTANTS q, qv, qx, g1, g2, g3, f, old, big

MCModels == {q, qv, qx, g1, g2, g3, f, old, big}
MCCatalog == {q, qv, g1, g2, f, old, big}
MCPool == <<{f}, {g1, g2, g3}, {q, qv, qx}>>
MCDefaultTier == q :> 3 @@ qv :> 3 @@ g1 :> 2 @@ g2 :> 2 @@ f :> 1 @@ old :> 1
  @@ big :> 2
MCSupports ==
  q :> {"json", "tools"} @@ qv :> {"json", "vision"} @@ g1 :> {"json", "tools"}
  @@ g2 :> {"tools"} @@ f :> {"json", "tools", "vision"} @@ old :> {"vision"}
  @@ big :> {"json"}

MCSlo == <<1, 1, 8>>
MCDurations == {1, 4, 10, 25}
MCWaits == {0, 2, 10}

(* A plain request starting at tier 3, and how the others differ from it. *)
Plain ==
  [start |-> 3, maxTier |-> 1, declared |-> {}, learned |-> {}, avoid |-> {},
   bandit |-> NoModel, maxEscalations |-> 99]

MCRequests ==
  {Plain,
   [Plain EXCEPT !.start = 1],                                  \* tier floor
   [Plain EXCEPT !.start = 2, !.learned = {"json"}, !.maxEscalations = 0],
   [Plain EXCEPT !.maxTier = 2, !.avoid = {g1}],
   [Plain EXCEPT !.declared = {"vision"}],
   [Plain EXCEPT !.declared = {"vision"}, !.maxTier = 2],
   [Plain EXCEPT !.declared = {"video"}],
   [Plain EXCEPT !.bandit = g2, !.maxEscalations = 1],
   [Plain EXCEPT !.bandit = big],
   [Plain EXCEPT !.start = 2, !.bandit = old, !.declared = {"vision"}]}

=============================================================================
