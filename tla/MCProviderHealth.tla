-------------------------- MODULE MCProviderHealth --------------------------
(***************************************************************************)
(* ProviderHealth for TLC: two providers with a model each, and two        *)
(* requests at a time.  The windows are one minute and two instead of      *)
(* sixty, the percentile is the median, so that a slow call after two fast *)
(* ones stands out, and both providers have fast calls behind them.  What   *)
(* was learned says nothing, or that groq's model is to be avoided.        *)
(***************************************************************************)
EXTENDS ProviderHealth, TLC

CONSTANTS c1, c2

MCModels == {"bedrock/a", "groq/b"}
MCCandidates == MCModels
MCProviderOf == [m \in MCModels |-> IF m = "bedrock/a" THEN "bedrock" ELSE "groq"]
MCLatencyRank == [m \in MCModels |-> 1]
MCPrice == [m \in MCModels |-> 1]
MCFilePosition ==
  [m \in MCModels |-> IF m = "bedrock/a" THEN 1 ELSE 2]

Known(samples, quality) ==
  [samples |-> samples, success |-> 90, quality |-> quality, cost |-> 1]

(* Equal profiles, one better than the other, and none. *)
MCProfilings ==
  {[m \in MCModels |-> Known(5, 50)],
   [m \in MCModels |-> Known(5, IF m = "groq/b" THEN 80 ELSE 50)],
   [m \in MCModels |-> NoProfile]}

(* Signals that decide nothing, and that overturn the better profile. *)
MCSignalTables ==
  {[m \in MCModels |-> 5],
   [m \in MCModels |-> IF m = "groq/b" THEN -65 ELSE 5]}

MCLatencies == {1, 3}
MCHistories ==
  {[p \in {"bedrock", "groq"} |-> [m \in 0..2 |-> [l \in MCLatencies |->
      IF m = 0 /\ l = 1 THEN 2 ELSE 0]]]}

Symmetry == Permutations({c1, c2})

=============================================================================
