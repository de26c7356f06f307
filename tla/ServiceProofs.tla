--------------------------- MODULE ServiceProofs ----------------------------
(***************************************************************************)
(* Proofs about Service for any requests, tasks, similarities and keys.    *)
(* The invariants hold together: what is scheduled for writing is sound    *)
(* (WritesSound), so what is kept is, so what a hit hands on is.           *)
(***************************************************************************)
EXTENDS Service, TLAPS

(* r's own answer is one that others may be given. *)
OwnAndSound(r) ==
  /\ r \in Sharing
  /\ reply[r] \in Answer
  /\ reply[r].from = r
  /\ reply[r].clear
  /\ reply[r].grade.verdict # "failed"

WritesSound == \A r \in writing : OwnAndSound(r)

IInv == TypeOK /\ KeptAnswersSound /\ OwnEntriesReadable /\ WritesSound

(* A reply is an answer when it is neither of the two constants. *)
LEMMA AnswerIsNoConstant == \A a \in Answer : a \notin {Pending, Failed}
  BY ReplyAssumption

(* The text of an answer may come out readable or not. *)
LEMMA AnswerReread ==
  ASSUME NEW a \in Answer, NEW clear \in BOOLEAN
  PROVE  [a EXCEPT !.clear = clear] \in Answer
  BY DEF Answer

LEMMA InitIInv == Init => IInv
  <1> SUFFICES ASSUME Init PROVE IInv
    OBVIOUS
  <1> USE DEF Init
  <1>1. TypeOK
    BY DEF TypeOK
  <1>2. KeptAnswersSound
    BY DEF KeptAnswersSound
  <1>3. OwnEntriesReadable
    BY DEF OwnEntriesReadable
  <1>4. WritesSound
    BY DEF WritesSound
  <1> QED
    BY <1>1, <1>2, <1>3, <1>4 DEF IInv

(* Answers already given are not touched by a step that answers r alone. *)
LEMMA StepIInv == IInv /\ [Next]_vars => IInv'
  <1> SUFFICES ASSUME IInv, [Next]_vars PROVE IInv'
    OBVIOUS
  <1> USE DEF IInv
  <1>1. CASE Start
    <2>1. TypeOK'
      BY <1>1 DEF Start, store, TypeOK
    <2>2. KeptAnswersSound'
      BY <1>1 DEF Start, store, KeptAnswersSound
    <2>3. OwnEntriesReadable'
      BY <1>1 DEF Start, store, OwnEntriesReadable, TypeOK
    <2>4. WritesSound'
      BY <1>1 DEF Start, WritesSound, OwnAndSound
    <2> QED
      BY <2>1, <2>2, <2>3, <2>4
  <1>2. CASE Crash
    <2>1. TypeOK'
      BY <1>2, ReplyAssumption DEF Crash, Store!Forget, TypeOK
    <2>2. KeptAnswersSound'
      <3>1. \A s \in sending \cup disk : reply'[s] = reply[s]
        BY <1>2 DEF Crash, KeptAnswersSound, TypeOK
      <3> QED
        BY <1>2, <3>1 DEF Crash, Store!Forget, KeptAnswersSound
    <2>3. OwnEntriesReadable'
      BY <1>2 DEF Crash, Store!Forget, OwnEntriesReadable
    <2>4. WritesSound'
      BY <1>2 DEF Crash, WritesSound
    <2> QED
      BY <2>1, <2>2, <2>3, <2>4
  <1>3. ASSUME NEW r \in Requests, Ask(r) \/ GoOn(r) PROVE IInv'
    <2>1. TypeOK'
      BY <1>3 DEF Ask, GoOn, store, TypeOK
    <2>2. KeptAnswersSound'
      BY <1>3 DEF Ask, GoOn, store, KeptAnswersSound
    <2>3. OwnEntriesReadable'
      BY <1>3 DEF Ask, GoOn, store, OwnEntriesReadable, Readable
    <2>4. WritesSound'
      BY <1>3 DEF Ask, GoOn, store, WritesSound, OwnAndSound
    <2> QED
      BY <2>1, <2>2, <2>3, <2>4
  <1>4. ASSUME NEW r \in Requests, CascadeRaises(r) PROVE IInv'
    <2>1. TypeOK'
      BY <1>4, ReplyAssumption, AnswerIsNoConstant DEF CascadeRaises, store, TypeOK
    <2>2. r \notin index \cup sending \cup disk \cup writing
      BY <1>4, AnswerIsNoConstant
      DEF CascadeRaises, KeptAnswersSound, TypeOK
    <2>3. KeptAnswersSound'
      BY <1>4, <2>2 DEF CascadeRaises, store, KeptAnswersSound, TypeOK
    <2>4. OwnEntriesReadable'
      BY <1>4 DEF CascadeRaises, store, OwnEntriesReadable, Readable
    <2>5. WritesSound'
      BY <1>4, <2>2 DEF CascadeRaises, store, WritesSound, OwnAndSound, TypeOK
    <2> QED
      BY <2>1, <2>3, <2>4, <2>5
  <1>5. ASSUME NEW r \in Requests, NEW g \in Grades, CascadeReturns(r, g) PROVE IInv'
    <2>1. [from |-> r, grade |-> g, clear |-> TRUE] \in Answer
      BY DEF Answer
    <2>2. r \notin index \cup sending \cup disk \cup writing
      BY <1>5, AnswerIsNoConstant
      DEF CascadeReturns, KeptAnswersSound, TypeOK
    <2>3. TypeOK'
      <3>1. reply' \in [Requests -> {Pending, Failed} \cup Answer]
        BY <1>5, <2>1 DEF CascadeReturns, TypeOK
      <3>2. /\ reply'[r] \in Answer
            /\ \A q \in Requests \ {r} : reply'[q] = reply[q]
        BY <1>5, <2>1 DEF CascadeReturns, TypeOK
      <3>3. /\ stage' \in [Requests -> {"new", "lookup", "cascade", "done"}]
            /\ \A q \in Requests : stage'[q] = "done" <=> reply'[q] # Pending
        BY <1>5, <3>2, AnswerIsNoConstant DEF CascadeReturns, TypeOK
      <3>4. /\ writing' \subseteq writing \cup {r}
            /\ up
        BY <1>5 DEF CascadeReturns, TypeOK
      <3>5. \A q \in writing' : reply'[q] \in Answer
        BY <3>2, <3>4 DEF TypeOK
      <3>6. writing' \subseteq Requests /\ UNCHANGED <<up, key, store>>
        BY <1>5, <3>4 DEF CascadeReturns, TypeOK
      <3> QED
        BY <3>1, <3>3, <3>4, <3>5, <3>6 DEF store, TypeOK
    <2>4. KeptAnswersSound'
      BY <1>5, <2>2 DEF CascadeReturns, store, KeptAnswersSound, TypeOK
    <2>5. OwnEntriesReadable'
      BY <1>5 DEF CascadeReturns, store, OwnEntriesReadable, Readable
    <2>6. WritesSound'
      <3>1. \A w \in writing : reply'[w] = reply[w]
        BY <1>5, <2>2 DEF CascadeReturns, TypeOK
      <3>2. r \in writing' => OwnAndSound(r)'
        BY <1>5, <2>1, <2>2
        DEF CascadeReturns, OwnAndSound, SkipCache, Scheduled, Sharing, TypeOK
      <3> QED
        BY <1>5, <3>1, <3>2 DEF CascadeReturns, WritesSound, OwnAndSound
    <2> QED
      BY <2>3, <2>4, <2>5, <2>6
  <1>6. ASSUME NEW r \in Requests, NEW s \in Requests, Hit(r, s) PROVE IInv'
    <2>1. reply[s] \in Answer
      BY <1>6 DEF Hit, Nearest, KeptAnswersSound, TypeOK
    <2>2. [reply[s] EXCEPT !.clear = Readable(s)] \in Answer
      <3>1. Readable(s) \in BOOLEAN
        BY DEF Readable
      <3> QED
        BY <2>1, <3>1, AnswerReread
    <2>3. r \notin index \cup sending \cup disk \cup writing
      BY <1>6, AnswerIsNoConstant DEF Hit, KeptAnswersSound, TypeOK
    <2>4. TypeOK'
      BY <1>6, <2>2, AnswerIsNoConstant DEF Hit, store, TypeOK
    <2>5. KeptAnswersSound'
      BY <1>6, <2>3 DEF Hit, store, KeptAnswersSound, TypeOK
    <2>6. OwnEntriesReadable'
      BY <1>6 DEF Hit, store, OwnEntriesReadable, Readable
    <2>7. WritesSound'
      BY <1>6, <2>3 DEF Hit, WritesSound, OwnAndSound, TypeOK
    <2> QED
      BY <2>4, <2>5, <2>6, <2>7
  <1>7. ASSUME NEW r \in Requests, Write(r) PROVE IInv'
    <2>1. OwnAndSound(r) /\ Worthy(r, reply[r].grade)
      BY <1>7 DEF Write, WritesSound, OwnAndSound, IsCacheable, Worthy
    <2>2. TypeOK'
      BY <1>7 DEF Write, Store!Add, SealingKey, TypeOK
    <2>3. KeptAnswersSound'
      BY <1>7, <2>1, AnswerIsNoConstant
      DEF Write, Store!Add, OwnAndSound, KeptAnswersSound
    <2>4. OwnEntriesReadable'
      BY <1>7 DEF Write, Store!Add, SealingKey, OwnEntriesReadable, Readable, TypeOK
    <2>5. WritesSound'
      BY <1>7 DEF Write, WritesSound, OwnAndSound
    <2> QED
      BY <2>2, <2>3, <2>4, <2>5
  <1>8. ASSUME NEW r \in Requests, DropWrite(r) PROVE IInv'
    BY <1>8
    DEF DropWrite, store, TypeOK, KeptAnswersSound, OwnEntriesReadable, Readable,
        WritesSound, OwnAndSound
  <1>9. ASSUME NEW r \in Requests, Persist(r) \/ Expire(r) \/ Load(r) PROVE IInv'
    <2> USE DEF Persist, Expire, Load, Store!Arrive, Store!Lose, Store!Forget, Store!Read
    <2>1. TypeOK'
      BY <1>9 DEF TypeOK
    <2>2. KeptAnswersSound'
      BY <1>9 DEF KeptAnswersSound
    <2>3. OwnEntriesReadable'
      BY <1>9 DEF OwnEntriesReadable, Readable
    <2>4. WritesSound'
      BY <1>9 DEF WritesSound, OwnAndSound
    <2> QED
      BY <2>1, <2>2, <2>3, <2>4
  <1>10. CASE UNCHANGED vars
    BY <1>10
    DEF vars, store, TypeOK, KeptAnswersSound, OwnEntriesReadable, Readable,
        WritesSound, OwnAndSound
  <1>11. CASE LoadFails
    <2> USE DEF LoadFails, Store!Forget
    <2>1. TypeOK'
      BY <1>11 DEF TypeOK
    <2>2. KeptAnswersSound'
      BY <1>11 DEF KeptAnswersSound
    <2>3. OwnEntriesReadable'
      BY <1>11 DEF OwnEntriesReadable
    <2>4. WritesSound'
      BY <1>11 DEF WritesSound, OwnAndSound
    <2> QED
      BY <2>1, <2>2, <2>3, <2>4
  <1> QED
    BY <1>1, <1>2, <1>3, <1>4, <1>5, <1>6, <1>7, <1>8, <1>9, <1>10, <1>11
    DEF Next

LEMMA Invariance == Spec => []IInv
  BY InitIInv, StepIInv, PTL DEF Spec

(* Every variable keeps its type, and a request is done exactly when it has
   its reply. *)
THEOREM TypeCorrect == Spec => []TypeOK
  BY Invariance, PTL DEF IInv

(* What index, Redis or a SET on its way holds is the own answer of a request
   that shares, fit to be given to others: the cache writes of service.py and
   the checks of semantic_cache.py let nothing else through. *)
THEOREM KeptAnswersSoundCorrect == Spec => []KeptAnswersSound
  BY Invariance, PTL DEF IInv

(* A process can decrypt what it wrote itself: only a restart with another key
   makes decrypt() hand out a ciphertext. *)
THEOREM OwnEntriesReadableCorrect == Spec => []OwnEntriesReadable
  BY Invariance, PTL DEF IInv

-----------------------------------------------------------------------------
LEMMA ContractStep == IInv /\ [Next]_vars => [Contract!Next]_reply
  <1> SUFFICES ASSUME IInv, [Next]_vars PROVE [Contract!Next]_reply
    OBVIOUS
  <1> USE DEF IInv
  <1>1. CASE Start \/ LoadFails \/ UNCHANGED vars
    BY <1>1 DEF Start, LoadFails, vars
  <1>2. CASE Crash
    <2> DEFINE running == {r \in Requests : stage[r] \in {"lookup", "cascade"}}
    <2>1. \A r \in running : reply[r] = Pending
      BY DEF TypeOK
    <2>2. reply' = [r \in Requests |-> IF r \in running THEN Failed ELSE reply[r]]
      BY <1>2 DEF Crash
    <2>3. Contract!Fail(running)
      BY <2>1, <2>2 DEF Contract!Fail
    <2> QED
      BY <2>3 DEF Contract!Next
  <1>3. ASSUME NEW r \in Requests,
               \/ Load(r) \/ Ask(r) \/ GoOn(r)
               \/ Write(r) \/ DropWrite(r) \/ Persist(r) \/ Expire(r)
        PROVE UNCHANGED reply
    BY <1>3 DEF Load, Ask, GoOn, Write, DropWrite, Persist, Expire
  <1>4. ASSUME NEW r \in Requests, CascadeRaises(r) PROVE Contract!Next
    <2>1. reply[r] = Pending
      BY <1>4 DEF CascadeRaises, TypeOK
    <2>2. reply' = [q \in Requests |-> IF q \in {r} THEN Failed ELSE reply[q]]
      BY <1>4 DEF CascadeRaises, TypeOK
    <2>3. Contract!Fail({r})
      BY <2>1, <2>2 DEF Contract!Fail
    <2> QED
      BY <2>3 DEF Contract!Next
  <1>5. ASSUME NEW r \in Requests, NEW g \in Grades, CascadeReturns(r, g)
        PROVE Contract!Next
    <2>1. reply[r] = Pending
      BY <1>5 DEF CascadeReturns, TypeOK
    <2>2. Contract!Produce(r)
      BY <1>5, <2>1 DEF CascadeReturns, Contract!Produce
    <2> QED
      BY <2>2 DEF Contract!Next
  <1>6. ASSUME NEW r \in Requests, NEW s \in Requests, Hit(r, s) PROVE Contract!Next
    <2>1. /\ reply[r] = Pending
          /\ s \in Sharing
          /\ reply[s] \notin {Pending, Failed}
          /\ reply[s].from = s
          /\ Worthy(s, reply[s].grade)
      BY <1>6 DEF Hit, Nearest, KeptAnswersSound, TypeOK
    <2>2. r \in Sharing /\ Close(r, s)
      BY <1>6 DEF Hit, SkipCache, Sharing
    <2>3. Contract!MayReuse(r, s)
      BY <2>1, <2>2 DEF Contract!MayReuse, Contract!Answered
    <2>4. /\ reply[s] \in Answer
          /\ reply[s].clear = TRUE
      BY <1>6 DEF Hit, Nearest, KeptAnswersSound, TypeOK, Answer
    <2>5. CASE Readable(s)
      <3>1. reply[s] = [reply[s] EXCEPT !.clear = Readable(s)]
        BY <2>4, <2>5 DEF Answer
      <3>2. Contract!Reuse(r, s)
        BY <1>6, <2>3, <3>1 DEF Hit, Contract!Reuse
      <3> QED
        BY <3>2 DEF Contract!Next
    <2>6. CASE ~Readable(s)
      <3>1. s \in loaded
        BY <1>6, <2>6 DEF Hit, Nearest, OwnEntriesReadable
      <3>2. Readable(s) = FALSE
        BY <2>6 DEF Readable
      <3>3. reply' = [reply EXCEPT ![r] = [reply[s] EXCEPT !.clear = FALSE]]
        BY <1>6, <3>2 DEF Hit
      <3>4. Contract!ReuseSealed(r, s)
        BY <2>3, <3>1, <3>3 DEF Contract!ReuseSealed
      <3> QED
        BY <3>4 DEF Contract!Next
    <2> QED
      BY <2>5, <2>6
  <1> QED
    BY <1>1, <1>2, <1>3, <1>4, <1>5, <1>6 DEF Next

(* The service implements SharedAnswers: each request is answered once, by its
   own cascade or with the own answer of a near enough request. *)
THEOREM ContractCorrect == Spec => ContractSpec
  <1>1. Init => Contract!Init
    BY DEF Init, Contract!Init
  <1>2. Spec => Contract!Init /\ [][Contract!Next]_reply
    BY <1>1, ContractStep, Invariance, PTL DEF Spec
  <1> QED
    BY <1>2 DEF ContractSpec, Contract!Spec

-----------------------------------------------------------------------------
(* The request is over, and its entry is nowhere and will not be written. *)
Gone(s) == stage[s] = "done" /\ s \notin writing \cup index \cup sending \cup disk

LEMMA GoneStep ==
  ASSUME [Next]_vars, TypeOK, NEW s \in Requests, Gone(s)
  PROVE  Gone(s)'
  <1> USE DEF Gone, store
  <1>1. CASE Start \/ LoadFails \/ UNCHANGED vars
    BY <1>1 DEF Start, LoadFails, Store!Forget, vars
  <1>2. CASE Crash
    BY <1>2 DEF Crash, Store!Forget, TypeOK
  <1>3. ASSUME NEW r \in Requests, Ask(r) \/ GoOn(r) \/ CascadeRaises(r) PROVE Gone(s)'
    BY <1>3 DEF Ask, GoOn, CascadeRaises, TypeOK
  <1>4. ASSUME NEW r \in Requests, NEW g \in Grades, CascadeReturns(r, g) PROVE Gone(s)'
    BY <1>4 DEF CascadeReturns, TypeOK
  <1>5. ASSUME NEW r \in Requests, NEW q \in Requests, Hit(r, q) PROVE Gone(s)'
    BY <1>5 DEF Hit, TypeOK
  <1>6. ASSUME NEW r \in Requests, Write(r) \/ DropWrite(r) PROVE Gone(s)'
    BY <1>6 DEF Write, DropWrite, Store!Add
  <1>7. ASSUME NEW r \in Requests, Load(r) \/ Persist(r) \/ Expire(r) PROVE Gone(s)'
    BY <1>7 DEF Load, Persist, Expire, Store!Read, Store!Arrive, Store!Lose, Store!Forget
  <1> QED
    BY <1>1, <1>2, <1>3, <1>4, <1>5, <1>6, <1>7 DEF Next

(* An entry that has expired, or was lost, on both sides does not come back:
   no late SET, restart or failing load serves it again. *)
THEOREM GoneForGoodCorrect == Spec => [][\A s \in Requests : Gone(s) => Gone(s)']_vars
  <1>1. TypeOK /\ [Next]_vars => [\A s \in Requests : Gone(s) => Gone(s)']_vars
    BY GoneStep
  <1> QED
    BY <1>1, TypeCorrect, PTL DEF Spec

(* The service reaches its store only through the operations EntryStore has, so
   what VectorStore adds to these does not concern it. *)
THEOREM StoreOnlyCorrect == Spec => Store!Spec
  <1>1. Init => Store!Init
    BY DEF Init, Store!Init
  <1>2. ASSUME TypeOK, [Next]_vars PROVE [Store!Next]_(Store!sides)
    <2> USE DEF Store!sides, store
    <2>1. CASE Start \/ UNCHANGED vars
      BY <2>1 DEF Start, vars
    <2>2. CASE LoadFails \/ Crash
      <3>1. Store!Forget(index, {}) /\ index \in SUBSET Requests
        BY <1>2, <2>2 DEF LoadFails, Crash, TypeOK
      <3> QED
        BY <3>1 DEF Store!Next
    <2>3. ASSUME NEW r \in Requests,
                 \/ Ask(r) \/ GoOn(r) \/ CascadeRaises(r) \/ DropWrite(r)
                 \/ \E g \in Grades : CascadeReturns(r, g)
                 \/ \E s \in Requests : Hit(r, s)
          PROVE UNCHANGED <<index, sending, disk>>
      BY <2>3 DEF Ask, GoOn, CascadeRaises, DropWrite, CascadeReturns, Hit
    <2>4. ASSUME NEW r \in Requests, Load(r) \/ Write(r) \/ Persist(r) PROVE Store!Next
      BY <2>4 DEF Load, Write, Persist, Store!Next
    <2>5. ASSUME NEW r \in Requests, Expire(r) PROVE Store!Next
      <3>1. Store!Forget({r}, {}) \/ Store!Forget({}, {r})
        BY <2>5 DEF Expire
      <3> QED
        BY <3>1 DEF Store!Next
    <2> QED
      BY <1>2, <2>1, <2>2, <2>3, <2>4, <2>5 DEF Next
  <1>3. TypeOK /\ [Next]_vars => [Store!Next]_(Store!sides)
    BY <1>2
  <1> QED
    BY <1>1, <1>3, TypeCorrect, PTL DEF Spec, Store!Spec

=============================================================================
