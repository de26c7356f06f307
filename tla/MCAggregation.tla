---------------------------- MODULE MCAggregation ---------------------------
(***************************************************************************)
(* Aggregation for TLC: a tier of none to four models, with profiles that  *)
(* are missing, thin, unreliable, good, or dear and poor in two degrees.   *)
(***************************************************************************)
EXTENDS Aggregation, TLC

CONSTANTS m1, m2, m3, m4

MCModels == {m1, m2, m3, m4}
MCLatencyRank == (m1 :> 0) @@ (m2 :> 0) @@ (m3 :> 1) @@ (m4 :> 1)
MCPrice == (m1 :> 2) @@ (m2 :> 1) @@ (m3 :> 1) @@ (m4 :> 1)
MCFilePosition == (m1 :> 1) @@ (m2 :> 2) @@ (m3 :> 4) @@ (m4 :> 3)
MCCatalogs == {{}, {m1}, {m1, m3}, {m1, m2, m3}, {m1, m2, m3, m4}}
MCCapableSets == {MCModels, {m1, m4}, {}}
MCOverrides == {NoModel, m4}

Profile(n, s, q, c) == [samples |-> n, success |-> s, quality |-> q, cost |-> c]
Thin == Profile(4, 90, 90, 1)
Unreliable == Profile(9, 40, 90, 1)
Cheap == Profile(5, 90, 60, 1)
Good == Profile(9, 90, 90, 5)
CheapShaky == Profile(9, 60, 60, 1)
DearPoor == Profile(9, 90, 60, 5)
DearPoorer == Profile(9, 60, 60, 5)

Table(p1, p2, p3, p4) == (m1 :> p1) @@ (m2 :> p2) @@ (m3 :> p3) @@ (m4 :> p4)
MCProfileTables ==
  {Table(NoProfile, NoProfile, NoProfile, NoProfile),
   Table(Unreliable, Thin, Unreliable, Unreliable),
   Table(NoProfile, Good, Thin, Unreliable),
   Table(Cheap, CheapShaky, DearPoor, Unreliable),
   Table(Cheap, Thin, NoProfile, Good),
   Table(Cheap, DearPoor, DearPoorer, Good),
   Table(Good, DearPoor, Cheap, DearPoorer)}

MCSignalTables == {Table(5, 5, 5, 5), Table(-10, 5, 24, 5)}

Request(x, w, j, p) ==
  [complexity |-> x, minWords |-> w, vec |-> TRUE, json |-> j, media |-> p]
MCRequests == {Request(1, 30, FALSE, FALSE), Request(9, 0, FALSE, TRUE),
               Request(5, 0, TRUE, FALSE)}

Answer(w, f, h, j, c) ==
  [words |-> w, finish |-> f, hedges |-> h, json |-> j, close |-> c]
MCAnswers == {Answer(0, "stop", FALSE, FALSE, TRUE), Answer(120, "length", FALSE, TRUE, TRUE),
              Answer(120, "stop", TRUE, FALSE, TRUE), Answer(20, "stop", FALSE, TRUE, FALSE),
              Answer(120, "stop", FALSE, FALSE, FALSE),
              Answer(50, "stop", FALSE, FALSE, TRUE)}

(* The order by counting is that of the library's sort, and the selection by
   places that of its filter. *)
ASSUME ArrangedSorts ==
  \A S \in SUBSET MCModels : ColdStartRank(S) = SetToSortSeq(S, RanksBefore)
ASSUME AtPlacesSelects ==
  \A list \in SeqOf(1..3, 4), T \in SUBSET (1..3) :
    AtPlaces(list, {i \in DOMAIN list : list[i] \in T}) = SelectSeq(list, LAMBDA x : x \in T)

=============================================================================
