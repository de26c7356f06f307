----------------------------- MODULE MCService ------------------------------
(***************************************************************************)
(* Service for TLC: four requests that ask nearly the same.  first and     *)
(* again have tasks of different thresholds, photo is a request with an    *)
(* image whose text part is the same, and the task of maths is not cached. *)
(* One in two orders of asking is near enough for a hit only under the     *)
(* lower threshold.                                                        *)
(***************************************************************************)
EXTENDS Service, TLC

CONSTANTS first, again, photo, maths, k1, k2, pending, failed, noKey

MCRequests == {first, again, photo, maths}
MCTasks == {"conversation", "qa", "math"}
MCUncacheable == {"math"}
MCTaskOf == (first :> "conversation") @@ (again :> "qa") @@ (photo :> "conversation") @@ (maths :> "math")
MCThreshold == ("conversation" :> 75) @@ ("qa" :> 90) @@ ("math" :> 90)
MCSimilarity ==
  [r \in MCRequests |-> [s \in MCRequests |->
     IF r = s \/ {r, s} = {first, photo} THEN 100 ELSE 80]]
MCMedia == {photo}
MCGrades ==
  {[tier |-> 3, verdict |-> "passed", complete |-> TRUE],
   [tier |-> 3, verdict |-> "failed", complete |-> TRUE],
   [tier |-> 1, verdict |-> "unchecked", complete |-> FALSE]}

=============================================================================
