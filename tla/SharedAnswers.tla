--------------------------- MODULE SharedAnswers ----------------------------
(***************************************************************************)
(* What the completion service promises about answers given more than      *)
(* once.  A request gets an answer of its own, or the answer another       *)
(* request got of its own, and that only when the answer may be shared and *)
(* both requests allow it; or it fails.  An answer never passes through a  *)
(* second hand, and a reply never changes once given.  What this process   *)
(* answered it hands on as it was; an answer left by an earlier process    *)
(* may come out unreadable.                                                *)
(***************************************************************************)

CONSTANTS
  Requests,
  Grades,         \* what can be said of an answer
  Pending,        \* the reply of a request not yet answered
  Failed,         \* the reply of a request that ended without an answer
  Sharing,        \* requests that take and leave shared answers
  Worthy(_, _),   \* Worthy(s, g): s's answer, of grade g, may be shared
  Close(_, _)     \* Close(r, s): r is near enough to s for s's answer

VARIABLES
  reply,          \* request -> Pending, Failed or its answer
  old             \* requests whose answers an earlier process left

(* clear: its text can be read. *)
Answer == [from : Requests, grade : Grades, clear : BOOLEAN]

Answered(r) == reply[r] \notin {Pending, Failed}

Init == reply = [r \in Requests |-> Pending]

(* r gets an answer of its own. *)
Produce(r) ==
  /\ reply[r] = Pending
  /\ \E g \in Grades :
       reply' = [reply EXCEPT ![r] = [from |-> r, grade |-> g, clear |-> TRUE]]

(* r may be given the answer s produced. *)
MayReuse(r, s) ==
  /\ reply[r] = Pending
  /\ {r, s} \subseteq Sharing
  /\ Answered(s)
  /\ reply[s].from = s
  /\ Worthy(s, reply[s].grade)
  /\ Close(r, s)

(* r gets the answer s produced, as s was given it. *)
Reuse(r, s) ==
  /\ MayReuse(r, s)
  /\ reply' = [reply EXCEPT ![r] = reply[s]]

(* r gets the answer s produced, which an earlier process left unreadable. *)
ReuseSealed(r, s) ==
  /\ MayReuse(r, s)
  /\ s \in old
  /\ reply' = [reply EXCEPT ![r] = [reply[s] EXCEPT !.clear = FALSE]]

(* Pending requests fail, all at once when the process ends. *)
Fail(F) ==
  /\ \A r \in F : reply[r] = Pending
  /\ reply' = [r \in Requests |-> IF r \in F THEN Failed ELSE reply[r]]

Next ==
  \/ \E r \in Requests : Produce(r)
  \/ \E r, s \in Requests : Reuse(r, s) \/ ReuseSealed(r, s)
  \/ \E F \in SUBSET Requests : Fail(F)

Spec == Init /\ [][Next]_reply

=============================================================================
