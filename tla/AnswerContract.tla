--------------------------- MODULE AnswerContract ---------------------------
(***************************************************************************)
(* What one call of the cascade promises its caller, and nothing of how it *)
(* is done: responses arrive one after the other and are judged, and when  *)
(* the call ends it either hands out the newest response it was given, or  *)
(* fails because it was given none, or breaks because judging the newest   *)
(* one raised.                                                             *)
(***************************************************************************)

CONSTANTS
  Responses,    \* what a provider can answer
  None          \* "no response yet"

VARIABLES
  latest,       \* the newest response, or None
  judged,       \* it has been judged, good or poor
  outcome       \* "pending", "answered", "failed" or "broken"

vars == <<latest, judged, outcome>>

Init ==
  /\ latest = None
  /\ judged = FALSE
  /\ outcome = "pending"

(* A provider answered: its response replaces an earlier one. *)
Receive ==
  /\ outcome = "pending"
  /\ latest' \in Responses
  /\ judged' = FALSE
  /\ UNCHANGED outcome

(* The newest response is judged, and poor: another one is sought. *)
Judge ==
  /\ outcome = "pending"
  /\ latest # None
  /\ judged' = TRUE
  /\ UNCHANGED <<latest, outcome>>

(* The newest response, which may be arriving or judged just now, is handed to
   the caller. *)
Answer ==
  /\ outcome = "pending"
  /\ latest' \in {latest} \cup Responses
  /\ latest' # None
  /\ judged' = TRUE
  /\ outcome' = "answered"

(* The call fails, which it may do only empty-handed, *)
Fail ==
  /\ outcome = "pending"
  /\ latest = None
  /\ outcome' = "failed"
  /\ UNCHANGED <<latest, judged>>

(* unless judging the newest response raises. *)
Break ==
  /\ outcome = "pending"
  /\ latest # None
  /\ ~judged
  /\ outcome' = "broken"
  /\ UNCHANGED <<latest, judged>>

Next == Receive \/ Judge \/ Answer \/ Fail \/ Break

Spec == Init /\ [][Next]_vars

=============================================================================
