------------------------- MODULE VectorStoreProofs --------------------------
(***************************************************************************)
(* What TLAPS proves of VectorStore, for any keys, lifetimes and unit of   *)
(* the clock: a record with an expiry outlives its deadline by a bounded   *)
(* time, and a load that does not fail misses nothing Redis keeps.         *)
(***************************************************************************)
EXTENDS VectorStore, TLAPS

-----------------------------------------------------------------------------
(* Types. *)

LEMMA ScaledReply == ASSUME NEW n \in Nat PROVE Second * n \in Nat
BY TimeAssumption

LEMMA ExpiryFromType ==
  ASSUME NEW now \in Nat, NEW k \in Keys
  PROVE  ExpiryFrom(now, k) \in Nat \cup {Never}
BY TimeAssumption DEF ExpiryFrom, Never

LEMMA TypeInit == Init => TypeOK
BY TimeAssumption DEF Init, TypeOK, Ticks, Never, Absent, Gone

LEMMA TypeStep == TypeOK /\ [Next]_vars => TypeOK'
<1> SUFFICES ASSUME TypeOK, [Next]_vars PROVE TypeOK'
  OBVIOUS
<1> USE TimeAssumption, KeyAssumption
    DEF TypeOK, Ticks, Record, outside, cursor, load, history
<1>1. ASSUME NEW k \in Keys, Add(k) PROVE TypeOK'
  BY <1>1, ExpiryFromType DEF Add
<1>2. ASSUME NEW k \in Keys, SetArrives(k) PROVE TypeOK'
  BY <1>2, ExpiryFromType DEF SetArrives
<1>3. ASSUME NEW k \in Keys, SetLost(k) PROVE TypeOK'
  BY <1>3 DEF SetLost
<1>4. ASSUME NEW k \in Keys, LoadGet(k) PROVE TypeOK'
  BY <1>4 DEF LoadGet, RestAfterGone
<1>5. CASE LoadBegins
  BY <1>5 DEF LoadBegins
<1>6. CASE LoadTtl
  BY <1>6 DEF LoadTtl
<1>7. CASE LoadRecord
  <2>1. LoadedExpiry \in Nat \cup {Never}
    BY ScaledReply DEF LoadedExpiry, Never, Gone
  <2>2. lateness' \in Nat
    BY <1>7 DEF LoadRecord, LaterOf
  <2> QED
    BY <1>7, <2>1, <2>2 DEF LoadRecord, NoCursor
<1>8. CASE LoadEnds
  BY <1>8 DEF LoadEnds
<1>9. CASE LoadFails
  BY <1>9 DEF LoadFails, NoCursor
<1>10. CASE Crash
  BY <1>10 DEF Crash, NoCursor
<1>11. CASE Tick
  BY <1>11 DEF Tick
<1>12. CASE UNCHANGED vars
  BY <1>12 DEF vars
<1> QED
  BY <1>1, <1>2, <1>3, <1>4, <1>5, <1>6, <1>7, <1>8, <1>9, <1>10, <1>11, <1>12
  DEF Next

(* Every record is a key with an expiry or none, and a key is being read
   exactly between its GET and its append. *)
THEOREM TypeCorrect == Spec => []TypeOK
BY TypeInit, TypeStep, PTL DEF Spec

-----------------------------------------------------------------------------
(* What connects a key in Redis with its add(), and a TTL reply with the
   deadline it was computed from. *)
KeyInv ==
  \A k \in Keys :
    /\ k \in sending => redis[k] = Absent
    /\ k \in sending \/ redis[k] # Absent => added[k] # Never
    /\ redis[k] \in Nat => Lifetime[k] # Never

ReplyInv ==
  phase = "timed" /\ reply \in Nat
    => /\ redis[at] \in Nat
       /\ 2 * (Second * reply) <= 2 * (redis[at] - repliedAt) + Second
       /\ 2 * (redis[at] - repliedAt) < 2 * (Second * reply) + Second

ReadInv == TypeOK /\ KeyInv /\ ReplyInv

LEMMA ReadInit == Init => ReadInv
BY TypeInit DEF Init, ReadInv, KeyInv, ReplyInv, Never, Absent

LEMMA ReadStep == ReadInv /\ [Next]_vars => ReadInv'
<1> SUFFICES ASSUME ReadInv, [Next]_vars PROVE ReadInv'
  OBVIOUS
<1>t. TypeOK /\ TypeOK'
  BY TypeStep DEF ReadInv
<1>k. KeyInv /\ ReplyInv
  BY DEF ReadInv
<1> SUFFICES KeyInv' /\ ReplyInv'
  BY <1>t DEF ReadInv
<1> USE TimeAssumption, KeyAssumption, <1>t, <1>k
    DEF TypeOK, Ticks, outside, cursor, load, history, Never, Absent, Gone
<1>1. ASSUME NEW k \in Keys, Add(k) PROVE KeyInv' /\ ReplyInv'
  <2>1. redis[k] = Absent /\ k \notin sending
    BY <1>1 DEF Add, KeyInv
  <2>2. KeyInv'
    BY <1>1, <2>1 DEF Add, KeyInv
  <2> QED
    BY <1>1, <2>2 DEF Add, ReplyInv
<1>2. ASSUME NEW k \in Keys, SetArrives(k) PROVE KeyInv' /\ ReplyInv'
  <2>1. redis[k] = Absent /\ added[k] # Never
    BY <1>2 DEF SetArrives, KeyInv
  <2>2. \A j \in Keys : j # k => redis'[j] = redis[j]
    BY <1>2 DEF SetArrives
  <2>3. redis'[k] = ExpiryFrom(clock, k) /\ k \notin sending'
    BY <1>2 DEF SetArrives
  <2>4. redis'[k] \in Nat => Lifetime[k] # Never
    BY <2>3 DEF ExpiryFrom
  <2>5. KeyInv'
    BY <1>2, <2>1, <2>2, <2>3, <2>4 DEF SetArrives, KeyInv
  <2>6. ReplyInv'
    BY <1>2, <2>1, <2>2 DEF SetArrives, ReplyInv
  <2> QED
    BY <2>5, <2>6
<1>3. ASSUME NEW k \in Keys, SetLost(k) PROVE KeyInv' /\ ReplyInv'
  BY <1>3 DEF SetLost, KeyInv, ReplyInv
<1>4. ASSUME NEW k \in Keys, LoadGet(k) PROVE KeyInv' /\ ReplyInv'
  BY <1>4 DEF LoadGet, KeyInv, ReplyInv
<1>5. CASE LoadBegins
  BY <1>5 DEF LoadBegins, KeyInv, ReplyInv
<1>6. CASE LoadTtl
  <2>1. ReplyInv'
    BY <1>6 DEF LoadTtl, ReplyInv, SecondsLeft
  <2> QED
    BY <1>6, <2>1 DEF LoadTtl, KeyInv
<1>7. CASE LoadRecord
  BY <1>7 DEF LoadRecord, KeyInv, ReplyInv
<1>8. CASE LoadEnds
  BY <1>8 DEF LoadEnds, KeyInv, ReplyInv
<1>9. CASE LoadFails
  BY <1>9 DEF LoadFails, KeyInv, ReplyInv
<1>10. CASE Crash
  BY <1>10 DEF Crash, KeyInv, ReplyInv
<1>11. CASE Tick
  BY <1>11 DEF Tick, KeyInv, ReplyInv
<1>12. CASE UNCHANGED vars
  BY <1>12 DEF vars, KeyInv, ReplyInv
<1> QED
  BY <1>1, <1>2, <1>3, <1>4, <1>5, <1>6, <1>7, <1>8, <1>9, <1>10, <1>11, <1>12
  DEF Next

-----------------------------------------------------------------------------
(* A record's deadline only moves when its SET arrives, and then forward. *)
LEMMA DeadlineMonotone ==
  ASSUME ReadInv, [Next]_vars, NEW k \in Keys, Lifetime[k] # Never
  PROVE  /\ Deadline(k) \in Int /\ Deadline(k)' \in Int
         /\ Deadline(k) <= Deadline(k)'
<1>t. TypeOK /\ TypeOK'
  BY TypeStep DEF ReadInv
<1>1. added[k] <= added'[k]
  <2>1. ASSUME NEW j \in Keys, Add(j) PROVE added[k] <= added'[k]
    BY <1>t, <2>1 DEF Add, TypeOK, Ticks, Never
  <2>2. added' = added \/ \E j \in Keys : Add(j)
    BY DEF Next, vars, outside, SetArrives, SetLost, LoadGet, LoadBegins,
           LoadTtl, LoadRecord, LoadEnds, LoadFails, Crash, Tick
  <2> QED
    BY <1>t, <2>1, <2>2 DEF TypeOK, Never
<1>2. redis[k] <= redis'[k]
  <2>1. ASSUME NEW j \in Keys, SetArrives(j) PROVE redis[k] <= redis'[k]
    BY <1>t, <2>1, TimeAssumption
    DEF SetArrives, ReadInv, KeyInv, ExpiryFrom, TypeOK, Ticks, Never, Absent
  <2>2. redis' = redis \/ \E j \in Keys : SetArrives(j)
    BY DEF Next, vars, outside, Add, SetLost, LoadGet, LoadBegins,
           LoadTtl, LoadRecord, LoadEnds, LoadFails, Crash, Tick
  <2> QED
    BY <1>t, <2>1, <2>2 DEF TypeOK, Never, Absent
<1> QED
  BY <1>t, <1>1, <1>2, TimeAssumption
  DEF Deadline, LaterOf, TypeOK, Never, Absent

LEMMA LatenessMonotone ==
  ASSUME ReadInv, [Next]_vars
  PROVE  lateness \in Nat /\ lateness' \in Nat /\ lateness <= lateness'
<1>t. TypeOK /\ TypeOK'
  BY TypeStep DEF ReadInv
<1>1. CASE LoadRecord
  BY <1>t, <1>1 DEF LoadRecord, LaterOf, TypeOK, Ticks
<1>2. lateness' = lateness \/ LoadRecord
  BY DEF Next, vars, history, Add, SetArrives, SetLost, LoadGet, LoadBegins,
         LoadTtl, LoadEnds, LoadFails, Crash, Tick
<1> QED
  BY <1>t, <1>1, <1>2 DEF TypeOK

(* A record within the bound: BoundedLateness says that all of them are. *)
InTime(r) ==
  r.expires # Never
    => /\ Lifetime[r.key] # Never
       /\ 2 * r.expires <= 2 * (Deadline(r.key) + lateness) + Second

LEMMA InTimeStep ==
  ASSUME ReadInv, [Next]_vars, NEW r \in Record, InTime(r)
  PROVE  InTime(r)'
<1>1. CASE r.expires = Never
  BY <1>1 DEF InTime
<1>2. CASE r.expires # Never
  <2>1. r.key \in Keys /\ Lifetime[r.key] # Never /\ r.expires \in Nat
    BY <1>2 DEF InTime, Record
  <2>2. /\ Deadline(r.key) \in Int /\ Deadline(r.key)' \in Int
        /\ Deadline(r.key) <= Deadline(r.key)'
    BY <2>1, DeadlineMonotone
  <2>3. 2 * r.expires <= 2 * (Deadline(r.key)' + lateness') + Second
    BY <1>2, <2>1, <2>2, LatenessMonotone, TimeAssumption DEF InTime
  <2> QED
    BY <2>1, <2>3 DEF InTime
<1> QED
  BY <1>1, <1>2

(* The record add() appends. *)
LEMMA AddedInTime ==
  ASSUME ReadInv, [Next]_vars, NEW k \in Keys, Add(k),
         NEW r, r = [key |-> k, expires |-> ExpiryFrom(clock, k)]
  PROVE  InTime(r)'
<1>t. TypeOK /\ TypeOK'
  BY TypeStep DEF ReadInv
<1>1. CASE Lifetime[k] = Never
  BY <1>1 DEF InTime, ExpiryFrom
<1>2. CASE Lifetime[k] # Never
  <2>1. added'[k] = clock /\ clock \in Nat /\ Lifetime[k] \in Nat
    BY <1>t, <1>2, TimeAssumption DEF Add, TypeOK, Ticks
  <2>2. clock + Lifetime[k] <= Deadline(k)' /\ Deadline(k)' \in Int
    BY <1>t, <2>1 DEF Deadline, LaterOf, TypeOK, Never, Absent
  <2>3. 2 * (clock + Lifetime[k]) <= 2 * (Deadline(k)' + lateness') + Second
    BY <2>1, <2>2, LatenessMonotone, TimeAssumption
  <2> QED
    BY <1>2, <2>3 DEF InTime, ExpiryFrom
<1> QED
  BY <1>1, <1>2

(* The record load() appends: it expires with the key, give or take the
   rounding, counted from the reply and not from the append. *)
LEMMA LoadedInTime ==
  ASSUME ReadInv, [Next]_vars, LoadRecord,
         NEW k \in Keys, at = k,
         NEW r, r = [key |-> k, expires |-> LoadedExpiry]
  PROVE  InTime(r)'
<1>t. TypeOK /\ TypeOK'
  BY TypeStep DEF ReadInv
<1>1. phase = "timed"
  BY DEF LoadRecord
<1>2. CASE ~(reply > 0)
  BY <1>2 DEF InTime, LoadedExpiry
<1>3. CASE reply > 0
  <2>1. reply \in Nat /\ Second * reply \in Nat
    BY <1>t, <1>3, ScaledReply DEF TypeOK, Never, Gone
  <2>2. /\ redis[k] \in Nat
        /\ 2 * (Second * reply) <= 2 * (redis[k] - repliedAt) + Second
    BY <1>1, <2>1 DEF ReadInv, ReplyInv
  <2>3. Lifetime[k] # Never
    BY <1>1, <2>2 DEF ReadInv, KeyInv
  <2>4. clock - repliedAt <= lateness' /\ lateness' \in Nat
    BY <1>t DEF LoadRecord, LaterOf, TypeOK, Ticks
  <2>5. redis[k] <= Deadline(k)' /\ Deadline(k)' \in Int
    <3>1. redis' = redis /\ added' = added
      BY DEF LoadRecord, outside
    <3> QED
      BY <1>t, <1>1, <2>2, <2>3, <3>1, TimeAssumption
      DEF Deadline, LaterOf, TypeOK, Never
  <2>6. 2 * (clock + Second * reply) <= 2 * (Deadline(k)' + lateness') + Second
    <3>1. clock \in Nat /\ repliedAt \in Nat
      BY <1>t DEF TypeOK, Ticks
    <3> QED
      BY <2>1, <2>2, <2>4, <2>5, <3>1, TimeAssumption
  <2>7. LoadedExpiry = clock + Second * reply
    BY <1>3 DEF LoadedExpiry
  <2> QED
    BY <2>3, <2>6, <2>7 DEF InTime
<1> QED
  BY <1>2, <1>3

LEMMA LatenessStep ==
  ASSUME ReadInv, BoundedLateness, [Next]_vars
  PROVE  BoundedLateness'
<1>t. TypeOK
  BY DEF ReadInv
<1>1. \A r \in memory \cup records : r \in Record /\ InTime(r)
  BY <1>t DEF BoundedLateness, InTime, TypeOK
<1>2. \A r \in memory \cup records : InTime(r)'
  BY <1>1, InTimeStep
<1>3. ASSUME NEW r \in (memory \cup records)', r \notin memory \cup records
      PROVE  InTime(r)'
  <2>1. CASE \E k \in Keys : Add(k)
    <3>1. PICK k \in Keys : Add(k)
      BY <2>1
    <3>2. r = [key |-> k, expires |-> ExpiryFrom(clock, k)]
      BY <1>3, <3>1 DEF Add, load
    <3> QED
      BY <3>1, <3>2, AddedInTime
  <2>2. CASE LoadRecord
    <3>1. at \in Keys /\ r = [key |-> at, expires |-> LoadedExpiry]
      BY <1>3, <1>t, <2>2 DEF LoadRecord, TypeOK
    <3> QED
      BY <2>2, <3>1, LoadedInTime
  <2>3. (\E k \in Keys : Add(k)) \/ LoadRecord
    BY <1>3 DEF Next, vars, load, SetArrives, SetLost, LoadGet, LoadBegins,
                LoadTtl, LoadEnds, LoadFails, Crash, Tick
  <2> QED
    BY <2>1, <2>2, <2>3
<1> QED
  BY <1>2, <1>3 DEF BoundedLateness, InTime

(* A record with an expiry outlives the deadlines it had by half a second and
   the longest wait for a TTL reply at most. *)
THEOREM BoundedLatenessCorrect == Spec => []BoundedLateness
<1>1. Init => ReadInv /\ BoundedLateness
  BY ReadInit DEF Init, BoundedLateness
<1>2. ReadInv /\ BoundedLateness /\ [Next]_vars => (ReadInv /\ BoundedLateness)'
  BY ReadStep, LatenessStep
<1> QED
  BY <1>1, <1>2, PTL DEF Spec

-----------------------------------------------------------------------------
(* Redis keeps the key for more than the rounding of a TTL reply. *)
Lasting(k) == redis[k] = Never \/ 2 * (redis[k] - clock) > Second

(* The record covers what Redis keeps of its key, up to the rounding. *)
Covers(r, k) ==
  /\ r.key = k
  /\ \/ r.expires = Never
     \/ redis[k] # Never /\ 2 * r.expires + Second > 2 * redis[k]

(* A durable key is still to be read, being read, or covered by a record. *)
FoundInv ==
  /\ phase = "down" => durable = {}
  /\ \A k \in durable :
       /\ redis[k] # Absent
       /\ Lasting(k) =>
            IF phase = "serving"
            THEN \E r \in memory : Covers(r, k)
            ELSE k \in pending \/ k = at \/ \E r \in records : Covers(r, k)

LEMMA FoundInit == Init => FoundInv
BY DEF Init, FoundInv

(* Durable keys keep their deadline in Redis, and a lasting one lasted before. *)
LEMMA DurableStable ==
  ASSUME ReadInv, FoundInv, [Next]_vars, NEW k \in durable
  PROVE  /\ k \in Keys
         /\ redis'[k] = redis[k]
         /\ Lasting(k)' => Lasting(k)
         /\ Lasting(k) => Live(k)
<1>t. TypeOK /\ TypeOK'
  BY TypeStep DEF ReadInv
<1>1. k \in Keys /\ k \notin sending
  BY <1>t DEF ReadInv, KeyInv, FoundInv, TypeOK
<1>2. redis'[k] = redis[k]
  <2>1. ASSUME NEW j \in Keys, SetArrives(j) PROVE redis'[k] = redis[k]
    BY <1>t, <1>1, <2>1 DEF SetArrives, TypeOK
  <2>2. redis' = redis \/ \E j \in Keys : SetArrives(j)
    BY DEF Next, vars, outside, Add, SetLost, LoadGet, LoadBegins,
           LoadTtl, LoadRecord, LoadEnds, LoadFails, Crash, Tick
  <2> QED
    BY <2>1, <2>2
<1>3. clock <= clock'
  <2>1. clock' = clock \/ Tick
    BY DEF Next, vars, outside, Add, SetArrives, SetLost, LoadGet, LoadBegins,
           LoadTtl, LoadRecord, LoadEnds, LoadFails, Crash
  <2> QED
    BY <1>t, <2>1 DEF Tick, TypeOK, Ticks
<1>4. clock \in Nat /\ clock' \in Nat /\ redis[k] \in Int
  BY <1>t, <1>1 DEF TypeOK, Ticks, Never, Absent
<1> QED
  BY <1>1, <1>2, <1>3, <1>4, TimeAssumption DEF Lasting, Live

(* The record load() appends covers its key. *)
LEMMA LoadedCovers ==
  ASSUME ReadInv, NEW k \in Keys, at = k, phase = "timed"
  PROVE  Covers([key |-> k, expires |-> LoadedExpiry], k)
<1>t. TypeOK
  BY DEF ReadInv
<1>1. CASE ~(reply > 0)
  BY <1>1 DEF Covers, LoadedExpiry
<1>2. CASE reply > 0
  <2>1. reply \in Nat /\ Second * reply \in Nat
    BY <1>t, <1>2, ScaledReply DEF TypeOK, Never, Gone
  <2>2. /\ redis[k] \in Nat
        /\ 2 * (redis[k] - repliedAt) < 2 * (Second * reply) + Second
    BY <2>1 DEF ReadInv, ReplyInv
  <2>3. clock \in Nat /\ repliedAt \in Nat /\ repliedAt <= clock
    BY <1>t DEF TypeOK, Ticks
  <2>4. 2 * (clock + Second * reply) + Second > 2 * redis[k]
    BY <2>1, <2>2, <2>3, TimeAssumption
  <2> QED
    BY <1>2, <2>2, <2>4 DEF Covers, LoadedExpiry, Never
<1> QED
  BY <1>1, <1>2

LEMMA FoundStep == ReadInv /\ FoundInv /\ [Next]_vars => FoundInv'
<1> SUFFICES ASSUME ReadInv, FoundInv, [Next]_vars PROVE FoundInv'
  OBVIOUS
<1>t. TypeOK
  BY DEF ReadInv
<1>d. /\ \A k \in durable : redis'[k] # Absent
      /\ \A k \in durable : Lasting(k)' => Lasting(k) /\ Live(k)
      /\ \A k \in durable : \A r : Covers(r, k) => Covers(r, k)'
  BY DurableStable DEF FoundInv, Covers
<1> USE <1>d DEF FoundInv, outside, cursor, load, history
<1>1. ASSUME NEW k \in Keys, Add(k) PROVE FoundInv'
  BY <1>1 DEF Add
<1>2. ASSUME NEW k \in Keys, SetArrives(k) PROVE FoundInv'
  BY <1>2 DEF SetArrives
<1>3. ASSUME NEW k \in Keys, SetLost(k) PROVE FoundInv'
  BY <1>3 DEF SetLost
<1>4. ASSUME NEW k \in Keys, LoadGet(k) PROVE FoundInv'
  <2>1. at = NoKey
    BY <1>4, <1>t DEF LoadGet, TypeOK
  <2>2. \A j \in durable : j \in Keys /\ j # NoKey
    BY <1>t, KeyAssumption DEF TypeOK
  <2>3. CASE Live(k)
    BY <1>4, <2>1, <2>2, <2>3 DEF LoadGet
  <2>4. CASE ~Live(k)
    BY <1>4, <2>1, <2>2, <2>4 DEF LoadGet, RestAfterGone
  <2> QED
    BY <2>3, <2>4
<1>5. CASE LoadBegins
  <2>1. ASSUME NEW k \in durable' PROVE redis'[k] # Absent /\ k \in pending'
    BY <1>5, <1>t, <2>1 DEF LoadBegins, Live, TypeOK, Ticks, Never, Absent
  <2> QED
    BY <1>5, <2>1 DEF LoadBegins
<1>6. CASE LoadTtl
  BY <1>6 DEF LoadTtl
<1>7. CASE LoadRecord
  <2>1. at \in Keys /\ phase = "timed" /\ phase' = "scan"
    BY <1>7, <1>t DEF LoadRecord, TypeOK
  <2>2. /\ Covers([key |-> at, expires |-> LoadedExpiry], at)
        /\ [key |-> at, expires |-> LoadedExpiry] \in records'
    BY <1>7, <2>1, LoadedCovers DEF LoadRecord
  <2>3. records \subseteq records' /\ pending' = pending /\ durable' = durable
    BY <1>7 DEF LoadRecord
  <2>4. ASSUME NEW k \in durable, Lasting(k)'
        PROVE  k \in pending' \/ \E r \in records' : Covers(r, k)'
    BY <2>1, <2>2, <2>3, <2>4
  <2> QED
    BY <2>1, <2>3, <2>4
<1>8. CASE LoadEnds
  <2>1. at = NoKey /\ \A k \in durable : k # NoKey
    BY <1>8, <1>t, KeyAssumption DEF LoadEnds, TypeOK
  <2> QED
    BY <1>8, <2>1 DEF LoadEnds
<1>9. CASE LoadFails
  BY <1>9 DEF LoadFails
<1>10. CASE Crash
  BY <1>10 DEF Crash
<1>11. CASE Tick
  BY <1>11 DEF Tick
<1>12. CASE UNCHANGED vars
  BY <1>12 DEF vars
<1> QED
  BY <1>1, <1>2, <1>3, <1>4, <1>5, <1>6, <1>7, <1>8, <1>9, <1>10, <1>11, <1>12
  DEF Next

LEMMA FoundServed == ReadInv /\ FoundInv => RestartFindsAll
<1> SUFFICES ASSUME ReadInv, FoundInv, phase = "serving",
                    NEW k \in durable, Lasting(k)
             PROVE  \E r \in Served : r.key = k
  BY DEF RestartFindsAll, Lasting
<1>t. TypeOK /\ k \in Keys
  BY DEF ReadInv, TypeOK
<1>1. PICK r \in memory : Covers(r, k)
  BY DEF FoundInv
<1>2. r \in Record /\ redis[k] \in Nat \cup {Never} /\ clock \in Nat
  BY <1>t DEF TypeOK, Ticks, FoundInv
<1>3. r.expires = Never \/ r.expires > clock
  <2>1. CASE redis[k] = Never
    BY <1>1, <2>1 DEF Covers
  <2>2. CASE redis[k] # Never
    <3>1. redis[k] \in Nat /\ 2 * (redis[k] - clock) > Second
      BY <1>2, <2>2 DEF Lasting
    <3>2. r.expires = Never \/ 2 * r.expires + Second > 2 * redis[k]
      BY <1>1 DEF Covers
    <3>3. r.expires \in Nat \cup {Never}
      BY <1>2 DEF Record
    <3> QED
      BY <1>2, <3>1, <3>2, <3>3, TimeAssumption
  <2> QED
    BY <2>1, <2>2
<1> QED
  BY <1>1, <1>3 DEF Served, Covers

(* What was in Redis when a load began that did not fail is served for as long
   as Redis keeps it, up to the rounding of its TTL reply. *)
THEOREM RestartFindsAllCorrect == Spec => []RestartFindsAll
<1>1. Init => ReadInv /\ FoundInv
  BY ReadInit, FoundInit
<1>2. ReadInv /\ FoundInv /\ [Next]_vars => (ReadInv /\ FoundInv)'
  BY ReadStep, FoundStep
<1> QED
  BY <1>1, <1>2, FoundServed, PTL DEF Spec

-----------------------------------------------------------------------------
(* The store as its user sees it.  Only a serving process has an index, and only
   a loading one has records that are not in it. *)
PhaseInv ==
  /\ phase # "serving" => memory = {}
  /\ ~Loading => records = {}

LEMMA PhaseStep == PhaseInv /\ [Next]_vars => PhaseInv'
<1> USE DEF PhaseInv, Loading, outside, cursor, load, history
<1>1. ASSUME PhaseInv, NEW k \in Keys, Add(k) \/ SetArrives(k) \/ SetLost(k) \/ LoadGet(k)
      PROVE PhaseInv'
  BY <1>1 DEF Add, SetArrives, SetLost, LoadGet
<1>2. PhaseInv /\ (LoadBegins \/ LoadTtl \/ LoadRecord \/ LoadEnds \/ LoadFails) => PhaseInv'
  BY DEF LoadBegins, LoadTtl, LoadRecord, LoadEnds, LoadFails
<1>3. PhaseInv /\ (Crash \/ Tick \/ UNCHANGED vars) => PhaseInv'
  BY DEF Crash, Tick, vars
<1> QED
  BY <1>1, <1>2, <1>3 DEF Next

OnDisk == {k \in Keys : Live(k)}

(* A record of key k that is not over. *)
Valid(r, k) == r.key = k /\ (r.expires = Never \/ r.expires > clock)

LEMMA IndexedKey ==
  /\ \A k : k \in Indexed <=> k \in Keys /\ (k = at \/ \E r \in memory \cup records : Valid(r, k))
  /\ \A k : k \in Indexed' <=> k \in Keys /\ (k = at' \/ \E r \in memory' \cup records' : Valid(r, k)')
BY DEF Indexed, Valid

(* The record add() or load() makes of a key is not over yet. *)
LEMMA NewRecordValid ==
  ASSUME TypeOK, NEW k \in Keys
  PROVE  /\ Valid([key |-> k, expires |-> ExpiryFrom(clock, k)], k)
         /\ Valid([key |-> k, expires |-> LoadedExpiry], k)
<1>1. clock \in Nat /\ reply \in Nat \cup {Never, Gone}
  BY DEF TypeOK, Ticks
<1>2. Valid([key |-> k, expires |-> ExpiryFrom(clock, k)], k)
  BY <1>1, TimeAssumption DEF Valid, ExpiryFrom, Never
<1>3. reply > 0 => Second * reply > 0 /\ Second * reply \in Nat
  <2>1. ASSUME NEW n \in Nat \ {0} PROVE Second * n > 0
    BY TimeAssumption
  <2> QED
    BY <1>1, <2>1, ScaledReply DEF Never, Gone
<1>4. Valid([key |-> k, expires |-> LoadedExpiry], k)
  BY <1>1, <1>3 DEF Valid, LoadedExpiry
<1> QED
  BY <1>2, <1>4

(* As time goes by, records and keys in Redis are only ever over. *)
LEMMA TimePasses ==
  ASSUME TypeOK, Tick
  PROVE  Indexed' \subseteq Indexed /\ OnDisk' \subseteq OnDisk
<1>1. /\ clock \in Nat /\ clock' = clock + 1
      /\ UNCHANGED <<memory, records, redis, at>>
  BY DEF Tick, TypeOK, Ticks, load, cursor
<1>2. \A r \in memory \cup records : r.expires \in Nat \cup {Never}
  BY DEF TypeOK, Record
<1>3. \A r \in memory \cup records : \A k : Valid(r, k)' => Valid(r, k)
  BY <1>1, <1>2 DEF Valid, Never
<1>4. \A k \in Keys : redis[k] \in Nat \cup {Never, Absent}
  BY DEF TypeOK
<1>5. OnDisk' \subseteq OnDisk
  BY <1>1, <1>4 DEF OnDisk, Live, Never, Absent
<1> QED
  BY <1>1, <1>3, <1>5, IndexedKey

LEMMA StoreStep ==
  ASSUME TypeOK, PhaseInv, [Next]_vars
  PROVE  [Store!Next]_<<Indexed, sending, OnDisk>>
<1> USE DEF outside, cursor, load, history
<1>o. /\ UNCHANGED <<clock, redis>> => OnDisk' = OnDisk
      /\ UNCHANGED <<clock, memory, records, at>> => Indexed' = Indexed
  BY DEF OnDisk, Live, Indexed
<1>f. ASSUME Indexed' \subseteq Indexed, OnDisk' \subseteq OnDisk, sending' = sending
      PROVE  Store!Next
  <2>1. Indexed \ Indexed' \in SUBSET Keys /\ OnDisk \ OnDisk' \in SUBSET Keys
    BY DEF Indexed, OnDisk
  <2>2. Store!Forget(Indexed \ Indexed', OnDisk \ OnDisk')
    BY <1>f DEF Store!Forget, OnDisk
  <2> QED
    BY <2>1, <2>2 DEF Store!Next
<1>1. ASSUME NEW k \in Keys, Add(k) PROVE Store!Next
  <2> DEFINE new == [key |-> k, expires |-> ExpiryFrom(clock, k)]
  <2>1. /\ memory' = memory \cup {new} /\ sending' = sending \cup {k}
        /\ UNCHANGED <<clock, redis, records, at>>
    BY <1>1 DEF Add
  <2>2. Valid(new, k) /\ new.key = k
    BY NewRecordValid
  <2>3. \A r, j : Valid(r, j)' = Valid(r, j)
    BY <2>1 DEF Valid
  <2> HIDE DEF new
  <2>4. \A j : Valid(new, j) => j = k
    BY <2>2 DEF Valid
  <2>5. Indexed' = Indexed \cup {k}
    BY <2>1, <2>2, <2>3, <2>4, IndexedKey
  <2>6. Store!Add(k)
    BY <1>o, <2>1, <2>5 DEF Store!Add, OnDisk
  <2> QED
    BY <2>6 DEF Store!Next
<1>2. ASSUME NEW k \in Keys, SetArrives(k) PROVE Store!Next
  <2>1. /\ k \in sending /\ sending' = sending \ {k}
        /\ redis' = [redis EXCEPT ![k] = ExpiryFrom(clock, k)]
        /\ UNCHANGED <<clock, memory, records, at>>
    BY <1>2 DEF SetArrives
  <2>2. redis'[k] = ExpiryFrom(clock, k) /\ \A j \in Keys \ {k} : redis'[j] = redis[j]
    BY <2>1 DEF TypeOK
  <2>3. redis'[k] = Never \/ redis'[k] > clock'
    <3>1. clock \in Nat /\ (Lifetime[k] = Never \/ Lifetime[k] \in Nat \ {0})
      BY TimeAssumption DEF TypeOK, Ticks
    <3> QED
      BY <2>1, <2>2, <3>1 DEF ExpiryFrom
  <2>4. OnDisk' = OnDisk \cup {k}
    BY <2>1, <2>2, <2>3 DEF OnDisk, Live
  <2>5. Store!Arrive(k)
    BY <1>o, <2>1, <2>4 DEF Store!Arrive, OnDisk
  <2> QED
    BY <2>5 DEF Store!Next
<1>3. ASSUME NEW k \in Keys, SetLost(k) PROVE Store!Next
  <2>1. Store!Lose(k)
    BY <1>3, <1>o DEF SetLost, Store!Lose, OnDisk
  <2> QED
    BY <2>1 DEF Store!Next
<1>4. ASSUME NEW k \in Keys, LoadGet(k) PROVE [Store!Next]_<<Indexed, sending, OnDisk>>
  <2>1. UNCHANGED <<clock, redis, sending, memory, records>> /\ at = NoKey /\ NoKey \notin Keys
    BY <1>4, KeyAssumption DEF LoadGet, TypeOK
  <2>2. CASE Live(k) /\ at' = k
    <3>1. \A r, j : Valid(r, j)' = Valid(r, j)
      BY <2>1 DEF Valid
    <3>2. Indexed' = Indexed \cup {k}
      BY <2>1, <2>2, <3>1, IndexedKey
    <3>3. Store!Read(k)
      BY <1>o, <2>1, <2>2, <3>2 DEF Store!Read, OnDisk
    <3> QED
      BY <3>3 DEF Store!Next
  <2>3. CASE UNCHANGED at
    BY <1>o, <2>1, <2>3
  <2> QED
    BY <1>4, <2>2, <2>3 DEF LoadGet
<1>5. CASE LoadBegins \/ LoadTtl \/ LoadEnds
  <2>1. UNCHANGED <<clock, redis, sending, at>> /\ memory' \cup records' = memory \cup records
    BY <1>5 DEF LoadBegins, LoadTtl, LoadEnds, PhaseInv
  <2>2. \A r, j : Valid(r, j)' = Valid(r, j)
    BY <2>1 DEF Valid
  <2>3. Indexed' = Indexed
    BY <2>1, <2>2, IndexedKey
  <2> QED
    BY <1>o, <2>1, <2>3
<1>6. CASE LoadRecord
  <2> DEFINE new == [key |-> at, expires |-> LoadedExpiry]
  <2>1. /\ records' = records \cup {new} /\ UNCHANGED <<clock, redis, sending, memory>>
        /\ at \in Keys /\ at' = NoKey /\ NoKey \notin Keys
    BY <1>6, KeyAssumption DEF LoadRecord, NoCursor, TypeOK
  <2>2. Valid(new, at) /\ new.key = at
    BY <2>1, NewRecordValid
  <2>3. \A r, j : Valid(r, j)' = Valid(r, j)
    BY <2>1 DEF Valid
  <2> HIDE DEF new
  <2>4. \A j : Valid(new, j) => j = at
    BY <2>2 DEF Valid
  <2>5. Indexed' = Indexed
    BY <2>1, <2>2, <2>3, <2>4, IndexedKey
  <2> QED
    BY <1>o, <2>1, <2>5
<1>7. CASE LoadFails \/ Crash
  <2>1. UNCHANGED <<clock, redis, sending>> /\ memory' \cup records' = {} /\ at' = NoKey
    BY <1>7 DEF LoadFails, Crash, NoCursor
  <2>2. Indexed' = {}
    BY <2>1, KeyAssumption DEF Indexed
  <2> QED
    BY <1>f, <1>o, <2>1, <2>2
<1>8. CASE Tick
  BY <1>8, <1>f, TimePasses DEF Tick
<1>9. CASE UNCHANGED vars
  BY <1>9, <1>o DEF vars
<1> QED
  BY <1>1, <1>2, <1>3, <1>4, <1>5, <1>6, <1>7, <1>8, <1>9 DEF Next

(* LocalVectorStore implements EntryStore, on which Service is built: with all
   its round trips, late SETs and rounded replies it never serves an entry that
   was neither added by this process nor in Redis when it was read. *)
THEOREM StoreCorrect == Spec => StoreSpec
<1>1. Init => Store!Init /\ PhaseInv
  <2> SUFFICES ASSUME Init PROVE Indexed = {} /\ sending = {} /\ OnDisk = {} /\ PhaseInv
    BY DEF Store!Init, OnDisk
  <2> QED
    BY KeyAssumption DEF Init, Indexed, OnDisk, Live, PhaseInv, Never, Absent
<1>2. TypeOK /\ PhaseInv /\ [Next]_vars => [Store!Next]_(Store!sides)
  BY StoreStep DEF OnDisk, Store!sides
<1> QED
  BY <1>1, <1>2, PhaseStep, TypeInit, TypeStep, PTL DEF Spec, StoreSpec, Store!Spec

=============================================================================
