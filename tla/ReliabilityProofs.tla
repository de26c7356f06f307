-------------------------- MODULE ReliabilityProofs --------------------------
(***************************************************************************)
(* Proofs about ReliabilityProfiles for any outcomes, callers and time to  *)
(* live.  Two halves: the recordings, which no refresh disturbs, and the   *)
(* refreshes under their lock (LockHeld), on which the claims about the    *)
(* age and the completeness of the cache rest.                             *)
(***************************************************************************)
EXTENDS ReliabilityProfiles, FiniteSetTheorems, TLAPS

(* Who loads is at the head of the queue, in which nobody stands twice. *)
LockHeld ==
  /\ Distinct(queue)
  /\ \A c \in Callers : caller[c] = "loading" => HasLock(c)

TypeInv == TypeOK /\ LockHeld

-----------------------------------------------------------------------------
(* What Append and Tail do to the elements of a sequence. *)
LEMMA AppendElements ==
  ASSUME NEW S, NEW s \in Seq(S), NEW e \in S
  PROVE  /\ Append(s, e) \in Seq(S)
         /\ In(Append(s, e)) = In(s) \cup {e}
         /\ (Distinct(s) /\ e \notin In(s)) => Distinct(Append(s, e))
         /\ s # <<>> => Head(Append(s, e)) = Head(s)
         /\ s = <<>> => Head(Append(s, e)) = e
         /\ Append(s, e) # <<>>
  <1>1. /\ Append(s, e) \in Seq(S)
        /\ Len(Append(s, e)) = Len(s) + 1
        /\ \A i \in 1..Len(s) : Append(s, e)[i] = s[i]
        /\ Append(s, e)[Len(s) + 1] = e
        /\ Len(s) \in Nat
    OBVIOUS
  <1>2. In(Append(s, e)) = In(s) \cup {e}
    <2>1. 1..(Len(s) + 1) = 1..Len(s) \cup {Len(s) + 1}
      BY <1>1
    <2> QED
      BY <1>1, <2>1 DEF In
  <1>3. (Distinct(s) /\ e \notin In(s)) => Distinct(Append(s, e))
    <2> SUFFICES ASSUME Distinct(s), e \notin In(s),
                        NEW i \in 1..(Len(s) + 1), NEW j \in 1..(Len(s) + 1),
                        Append(s, e)[i] = Append(s, e)[j]
                 PROVE  i = j
      BY <1>1 DEF Distinct
    <2>1. CASE i \in 1..Len(s) /\ j \in 1..Len(s)
      BY <1>1, <2>1 DEF Distinct
    <2>2. CASE i = Len(s) + 1 /\ j \in 1..Len(s)
      BY <1>1, <2>2 DEF In
    <2>3. CASE j = Len(s) + 1 /\ i \in 1..Len(s)
      BY <1>1, <2>3 DEF In
    <2> QED
      BY <1>1, <2>1, <2>2, <2>3
  <1>4. s # <<>> => 1 \in 1..Len(s)
    OBVIOUS
  <1> QED
    BY <1>1, <1>2, <1>3, <1>4

LEMMA TailElements ==
  ASSUME NEW S, NEW s \in Seq(S), s # <<>>, Distinct(s)
  PROVE  /\ Tail(s) \in Seq(S)
         /\ In(Tail(s)) = In(s) \ {Head(s)}
         /\ Distinct(Tail(s))
  <1>1. /\ Tail(s) \in Seq(S)
        /\ Len(Tail(s)) = Len(s) - 1
        /\ Len(s) \in Nat \ {0}
        /\ \A i \in 1..(Len(s) - 1) : Tail(s)[i] = s[i + 1]
        /\ Head(s) = s[1]
    OBVIOUS
  <1>2. In(Tail(s)) = In(s) \ {Head(s)}
    <2>1. ASSUME NEW x \in In(Tail(s)) PROVE x \in In(s) \ {Head(s)}
      <3>1. PICK i \in 1..(Len(s) - 1) : x = s[i + 1]
        BY <1>1, <2>1 DEF In
      <3>2. i + 1 \in 1..Len(s) /\ 1 \in 1..Len(s) /\ i + 1 # 1
        BY <1>1
      <3> QED
        BY <1>1, <3>1, <3>2 DEF In, Distinct
    <2>2. ASSUME NEW x \in In(s) \ {Head(s)} PROVE x \in In(Tail(s))
      <3>1. PICK i \in 1..Len(s) : x = s[i]
        BY <2>2 DEF In
      <3>2. i # 1
        BY <1>1, <2>2, <3>1
      <3>3. i - 1 \in 1..(Len(s) - 1) /\ (i - 1) + 1 = i
        BY <1>1, <3>2
      <3>4. Tail(s)[i - 1] = x
        BY <1>1, <3>1, <3>3
      <3> QED
        BY <1>1, <3>3, <3>4 DEF In
    <2> QED
      BY <2>1, <2>2
  <1>3. Distinct(Tail(s))
    <2> SUFFICES ASSUME NEW i \in 1..(Len(s) - 1), NEW j \in 1..(Len(s) - 1),
                        Tail(s)[i] = Tail(s)[j]
                 PROVE  i = j
      BY <1>1 DEF Distinct
    <2>1. i + 1 \in 1..Len(s) /\ j + 1 \in 1..Len(s)
      BY <1>1
    <2>2. s[i + 1] = s[j + 1]
      BY <1>1
    <2> QED
      BY <2>1, <2>2 DEF Distinct
  <1> QED
    BY <1>1, <1>2, <1>3

(* The head of a queue is one of its elements. *)
LEMMA HeadElement == ASSUME NEW S, NEW s \in Seq(S), s # <<>> PROVE Head(s) \in In(s)
  <1>1. 1 \in 1..Len(s) /\ Head(s) = s[1]
    OBVIOUS
  <1> QED
    BY <1>1 DEF In

-----------------------------------------------------------------------------
LEMMA InitType == Init => TypeInv
  <1> SUFFICES ASSUME Init PROVE TypeInv
    OBVIOUS
  <1>1. redis \in [Profiles -> Seq(Outcomes)]
    <2>1. \A p \in Profiles : EarlierOf(p) # {} =>
            (CHOOSE o \in EarlierOf(p) : TRUE) \in Outcomes
      BY OutcomeAssumption DEF EarlierOf
    <2> QED
      BY <2>1 DEF Init
  <1>2. In(queue) = {}
    BY DEF Init, In
  <1>3. TypeOK
    BY <1>1, <1>2, TimeAssumption DEF Init, TypeOK, Nothing, NeverRead
  <1>4. LockHeld
    BY DEF Init, LockHeld, Distinct
  <1> QED
    BY <1>3, <1>4 DEF TypeInv

(* Recordings and the clock leave the refreshes alone. *)
LEMMA RecordType ==
  ASSUME TypeInv, NEW o \in Outcomes, Record(o)
  PROVE  TypeInv'
  <1> USE DEF TypeInv
  <1>1. UNCHANGED refresh
    BY DEF Record, GetProfile, SetProfile, RecordFails
  <1>2. ProfileOf[o] \in Profiles
    BY OutcomeAssumption
  <1>3. Append(profile[o], o) \in Seq(Outcomes)
    BY AppendElements DEF TypeOK
  <1>4. TypeOK'
    <2>1. CASE GetProfile(o)
      BY <2>1, <1>1, <1>2 DEF GetProfile, TypeOK, refresh, loads
    <2>2. CASE SetProfile(o)
      BY <2>2, <1>1, <1>2, <1>3 DEF SetProfile, Fold, TypeOK, refresh, loads
    <2>3. CASE RecordFails(o)
      BY <2>3, <1>1 DEF RecordFails, TypeOK, refresh, loads
    <2> QED
      BY <2>1, <2>2, <2>3 DEF Record
  <1>5. LockHeld'
    BY <1>1 DEF LockHeld, HasLock, refresh
  <1> QED
    BY <1>4, <1>5

(* Joining the queue, waiting at its head, and leaving it. *)
LEMMA CallType ==
  ASSUME TypeInv, NEW c \in Callers, CallFresh(c) \/ CallStale(c) \/ Refresh(c)
  PROVE  TypeInv'
  <1> USE DEF TypeInv
  <1>1. CASE CallFresh(c)
    <2>1. TypeOK'
      BY <1>1 DEF CallFresh, TypeOK, store, loads
    <2>2. LockHeld'
      BY <1>1 DEF CallFresh, LockHeld, HasLock, TypeOK
    <2> QED
      BY <2>1, <2>2
  <1>2. CASE CallStale(c)
    <2>1. c \notin In(queue) /\ queue \in Seq(Callers)
      BY <1>2 DEF CallStale, TypeOK
    <2>2. /\ queue' \in Seq(Callers)
          /\ In(queue') = In(queue) \cup {c}
          /\ Distinct(queue')
          /\ queue # <<>> => Head(queue') = Head(queue)
          /\ queue' # <<>>
      BY <1>2, <2>1, AppendElements DEF CallStale, LockHeld
    <2>3. TypeOK'
      BY <1>2, <2>2 DEF CallStale, TypeOK, store
    <2>4. LockHeld'
      BY <1>2, <2>2 DEF CallStale, LockHeld, HasLock, TypeOK
    <2> QED
      BY <2>3, <2>4
  <1>3. CASE FindRefreshed(c) \/ Publish(c)
    <2>1. HasLock(c)
      BY <1>3 DEF FindRefreshed, Publish, LockHeld
    <2>2. queue # <<>> /\ Head(queue) = c /\ queue \in Seq(Callers)
      BY <2>1 DEF HasLock, TypeOK
    <2>3. /\ queue' \in Seq(Callers)
          /\ In(queue') = In(queue) \ {c}
          /\ Distinct(queue')
      <3>1. queue' = Tail(queue)
        BY <1>3 DEF FindRefreshed, Publish
      <3>2. Distinct(queue)
        BY DEF LockHeld
      <3> QED
        BY <2>2, <3>1, <3>2, TailElements
    <2>4. c \in In(queue) /\ caller' = [caller EXCEPT ![c] = "done"]
      <3>1. Head(queue) \in In(queue)
        BY <2>2, HeadElement
      <3> QED
        BY <1>3, <2>2, <3>1 DEF FindRefreshed, Publish
    <2>5. \A d \in Callers : caller'[d] \in {"queued", "loading"} <=> d \in In(queue')
      BY <2>3, <2>4 DEF TypeOK
    <2>6. TypeOK'
      <3>1. CASE FindRefreshed(c)
        BY <2>3, <2>4, <2>5, <3>1 DEF FindRefreshed, TypeOK, store
      <3>2. CASE Publish(c)
        BY <2>3, <2>4, <2>5, <3>2
        DEF Publish, RefreshTime, TypeOK, store, Nothing, NeverRead
      <3> QED
        BY <1>3, <3>1, <3>2
    <2>7. \A d \in Callers : caller'[d] # "loading"
      <3>1. \A d \in Callers : caller[d] = "loading" => d = c
        BY <2>2 DEF LockHeld, HasLock
      <3> QED
        BY <2>4, <3>1 DEF TypeOK
    <2> QED
      BY <2>3, <2>6, <2>7 DEF LockHeld
  <1>4. CASE BeginLoad(c)
    <2>1. TypeOK'
      BY <1>4 DEF BeginLoad, KeysToScan, TypeOK, store
    <2>2. LockHeld'
      BY <1>4 DEF BeginLoad, LockHeld, HasLock, TypeOK
    <2> QED
      BY <2>1, <2>2
  <1>5. CASE BreakLoad(c)
    <2>1. TypeOK'
      BY <1>5 DEF BreakLoad, AfterBreak, TypeOK, store
    <2>2. LockHeld'
      BY <1>5 DEF BreakLoad, AfterBreak, LockHeld, HasLock, TypeOK
    <2> QED
      BY <2>1, <2>2
  <1>6. ASSUME NEW p \in Profiles, LoadProfile(c, p) PROVE TypeInv'
    <2>1. TypeOK'
      BY <1>6 DEF LoadProfile, TypeOK, store
    <2>2. LockHeld'
      BY <1>6 DEF LoadProfile, LockHeld, HasLock
    <2> QED
      BY <2>1, <2>2
  <1> QED
    BY <1>1, <1>2, <1>3, <1>4, <1>5, <1>6 DEF Refresh

LEMMA TickType == TypeInv /\ (Tick \/ UNCHANGED vars) => TypeInv'
  <1> SUFFICES ASSUME TypeInv, Tick \/ UNCHANGED vars PROVE TypeInv'
    OBVIOUS
  <1>1. UNCHANGED <<store, refresh>> /\ clock' \in Nat
    BY DEF Tick, vars, TypeInv, TypeOK
  <1>2. TypeOK'
    BY <1>1 DEF TypeInv, TypeOK, store, refresh, loads
  <1>3. LockHeld'
    BY <1>1 DEF TypeInv, LockHeld, HasLock, refresh
  <1> QED
    BY <1>2, <1>3 DEF TypeInv

(* A step is one of these. *)
LEMMA StepKinds ==
  [Next]_vars =>
    \/ \E o \in Outcomes : Record(o)
    \/ \E c \in Callers : CallFresh(c) \/ CallStale(c) \/ Refresh(c)
    \/ Tick \/ UNCHANGED vars
  BY DEF Next

LEMMA StepType == TypeInv /\ [Next]_vars => TypeInv'
  BY RecordType, CallType, TickType, StepKinds

LEMMA TypeInvariant == Spec => []TypeInv
  <1> QED
    BY InitType, StepType, PTL DEF Spec

(* Every variable keeps its type, and a call is in the queue exactly while it
   waits or loads. *)
THEOREM TypeCorrect == Spec => []TypeOK
  <1>1. TypeInv => TypeOK
    BY DEF TypeInv
  <1> QED
    BY <1>1, TypeInvariant, PTL

-----------------------------------------------------------------------------
(* The samples.  What was recorded stays recorded, so what is sound stays so:
   a task, a refresh and the cache have what Redis had at some time before. *)
SamplesInv == TypeInv /\ SamplesSound

LEMMA InitSamples == Init => SamplesInv
  <1> SUFFICES ASSUME Init PROVE SamplesInv
    OBVIOUS
  <1>1. TypeInv
    BY InitType
  <1>2. ASSUME NEW p \in Profiles PROVE Sound(p, redis[p])
    <2>1. CASE EarlierOf(p) = {}
      <3>1. redis[p] = <<>>
        BY <2>1 DEF Init
      <3> QED
        BY <3>1 DEF Sound, In, Distinct
    <2>2. CASE EarlierOf(p) # {}
      <3>1. PICK e : e = CHOOSE o \in EarlierOf(p) : TRUE
        OBVIOUS
      <3>2. e \in EarlierOf(p)
        BY <2>2, <3>1
      <3>3. e \in Earlier /\ e \in Outcomes /\ ProfileOf[e] = p
        BY <3>2, OutcomeAssumption DEF EarlierOf
      <3>4. redis[p] = <<e>> /\ recording[e] = "set"
        BY <2>2, <3>1, <3>3 DEF Init
      <3>5. Len(redis[p]) = 1 /\ redis[p][1] = e
        BY <3>4
      <3>6. In(redis[p]) = {e} /\ Distinct(redis[p])
        BY <3>5 DEF In, Distinct
      <3> QED
        BY <3>3, <3>4, <3>6 DEF Sound
    <2> QED
      BY <2>1, <2>2
  <1>3. \A q \in Profiles : Sound(q, <<>>)
    BY DEF Sound, In, Distinct
  <1>4. /\ \A q \in Profiles : cache[q] = <<>> /\ \A c \in Callers : loaded[c][q] = <<>>
        /\ \A o \in Outcomes : profile[o] = <<>> /\ ProfileOf[o] \in Profiles
    BY OutcomeAssumption DEF Init, Nothing
  <1> QED
    BY <1>1, <1>2, <1>3, <1>4 DEF SamplesInv, SamplesSound

LEMMA StepSamples == SamplesInv /\ [Next]_vars => SamplesInv'
  <1> SUFFICES ASSUME SamplesInv, [Next]_vars PROVE SamplesInv'
    OBVIOUS
  <1>1. TypeInv' /\ TypeOK /\ SamplesSound
    BY StepType DEF SamplesInv, TypeInv
  <1>2. \A o \in Outcomes : recording[o] = "set" => recording'[o] = "set"
    <2>1. ASSUME NEW o \in Outcomes, Record(o)
          PROVE  \A q \in Outcomes : recording[q] = "set" => recording'[q] = "set"
      BY <1>1, <2>1 DEF Record, GetProfile, SetProfile, RecordFails, TypeOK
    <2>2. ASSUME NEW c \in Callers, CallFresh(c) \/ CallStale(c) \/ Refresh(c)
          PROVE  recording' = recording
      BY <2>2 DEF CallFresh, CallStale, Refresh, FindRefreshed, BeginLoad, BreakLoad,
                  Publish, LoadProfile, store
    <2>3. Tick \/ UNCHANGED vars => recording' = recording
      BY DEF Tick, vars, store
    <2> QED
      BY <2>1, <2>2, <2>3, StepKinds
  <1>3. ASSUME NEW p \in Profiles, NEW s \in Seq(Outcomes), Sound(p, s)
        PROVE  /\ \A o \in In(s) : recording'[o] = "set" /\ ProfileOf[o] = p
               /\ Distinct(s)
    <2>1. In(s) \subseteq Outcomes
      BY DEF In
    <2> QED
      BY <1>2, <1>3, <2>1 DEF Sound
  <1>4. \A p \in Profiles : /\ \A o \in In(<<>>) : recording'[o] = "set" /\ ProfileOf[o] = p
                            /\ Distinct(<<>>)
    BY DEF In, Distinct
  <1>5. ASSUME redis' = redis PROVE \A p \in Profiles : Sound(p, redis[p])'
    <2>1. \A p \in Profiles : Sound(p, redis[p]) /\ redis[p] \in Seq(Outcomes)
      BY <1>1 DEF SamplesSound, TypeOK
    <2> QED
      BY <1>3, <1>5, <2>1 DEF Sound
  <1>6. ASSUME profile' = profile PROVE \A o \in Outcomes : Sound(ProfileOf[o], profile[o])'
    <2>1. \A o \in Outcomes : /\ Sound(ProfileOf[o], profile[o]) /\ profile[o] \in Seq(Outcomes)
                              /\ ProfileOf[o] \in Profiles
      BY <1>1, OutcomeAssumption DEF SamplesSound, TypeOK
    <2> QED
      BY <1>3, <1>6, <2>1 DEF Sound
  <1>7. ASSUME cache' = cache PROVE \A p \in Profiles : Sound(p, cache[p])'
    <2>1. \A p \in Profiles : Sound(p, cache[p]) /\ cache[p] \in Seq(Outcomes)
      BY <1>1 DEF SamplesSound, TypeOK
    <2> QED
      BY <1>3, <1>7, <2>1 DEF Sound
  <1>8. ASSUME loaded' = loaded
        PROVE  \A p \in Profiles, c \in Callers : Sound(p, loaded[c][p])'
    <2>1. \A p \in Profiles, c \in Callers :
            Sound(p, loaded[c][p]) /\ loaded[c][p] \in Seq(Outcomes)
      BY <1>1 DEF SamplesSound, TypeOK
    <2> QED
      BY <1>3, <1>8, <2>1 DEF Sound
  <1>9. ASSUME UNCHANGED <<redis, profile, cache, loaded>> PROVE SamplesInv'
    BY <1>1, <1>5, <1>6, <1>7, <1>8, <1>9 DEF SamplesInv, SamplesSound
  <1>10. ASSUME NEW o \in Outcomes, GetProfile(o) \/ RecordFails(o) PROVE SamplesInv'
    <2>1. /\ UNCHANGED <<redis, cache, loaded>>
          /\ profile' = [profile EXCEPT ![o] = profile'[o]]
          /\ profile'[o] \in {redis[ProfileOf[o]], <<>>}
      BY <1>1, <1>10 DEF GetProfile, RecordFails, refresh, loads, TypeOK
    <2>2. ASSUME NEW q \in Outcomes PROVE Sound(ProfileOf[q], profile[q])'
      <3>1. /\ ProfileOf[q] \in Profiles
            /\ Sound(ProfileOf[q], profile[q]) /\ profile[q] \in Seq(Outcomes)
            /\ Sound(ProfileOf[q], redis[ProfileOf[q]])
            /\ redis[ProfileOf[q]] \in Seq(Outcomes)
        BY <1>1, OutcomeAssumption DEF SamplesSound, TypeOK
      <3>2. profile'[q] \in {profile[q], redis[ProfileOf[q]], <<>>}
        BY <1>1, <2>1 DEF TypeOK
      <3> QED
        BY <1>3, <1>4, <3>1, <3>2 DEF Sound
    <2> QED
      BY <1>1, <1>5, <1>7, <1>8, <2>1, <2>2 DEF SamplesInv, SamplesSound
  <1>11. ASSUME NEW o \in Outcomes, SetProfile(o) PROVE SamplesInv'
    <2> DEFINE po == ProfileOf[o]
    <2>1. /\ po \in Profiles /\ profile[o] \in Seq(Outcomes)
          /\ Sound(po, profile[o])
      BY <1>1, OutcomeAssumption DEF SamplesSound, TypeOK
    <2>2. /\ recording'[o] = "set" /\ recording[o] = "got"
          /\ redis' = [redis EXCEPT ![po] = Append(profile[o], o)]
          /\ profile' = [profile EXCEPT ![o] = <<>>]
          /\ UNCHANGED <<cache, loaded>>
      BY <1>1, <1>11 DEF SetProfile, Fold, refresh, loads, TypeOK
    <2>3. ASSUME NEW p \in Profiles PROVE Sound(p, redis[p])'
      <3>1. CASE p = po
        <4>1. redis'[p] = Append(profile[o], o)
          BY <1>1, <2>1, <2>2, <3>1 DEF TypeOK
        <4>2. o \notin In(profile[o])
          BY <2>1, <2>2 DEF Sound
        <4>3. In(redis'[p]) = In(profile[o]) \cup {o} /\ Distinct(redis'[p])
          BY <2>1, <4>1, <4>2, AppendElements DEF Sound
        <4> QED
          BY <1>3, <2>1, <2>2, <3>1, <4>3 DEF Sound
      <3>2. CASE p # po
        <4>1. /\ redis'[p] = redis[p] /\ redis[p] \in Seq(Outcomes)
              /\ Sound(p, redis[p])
          BY <1>1, <2>2, <3>2 DEF SamplesSound, TypeOK
        <4> QED
          BY <1>3, <4>1 DEF Sound
      <3> QED
        BY <3>1, <3>2
    <2>4. ASSUME NEW q \in Outcomes PROVE Sound(ProfileOf[q], profile[q])'
      <3>1. /\ ProfileOf[q] \in Profiles
            /\ Sound(ProfileOf[q], profile[q]) /\ profile[q] \in Seq(Outcomes)
        BY <1>1, OutcomeAssumption DEF SamplesSound, TypeOK
      <3>2. profile'[q] \in {profile[q], <<>>}
        BY <1>1, <2>2 DEF TypeOK
      <3> QED
        BY <1>3, <1>4, <3>1, <3>2 DEF Sound
    <2> QED
      BY <1>1, <1>7, <1>8, <2>2, <2>3, <2>4 DEF SamplesInv, SamplesSound
  <1>12. ASSUME NEW c \in Callers, NEW k \in Profiles, LoadProfile(c, k) PROVE SamplesInv'
    <2>1. /\ UNCHANGED <<redis, profile, cache>>
          /\ loaded' = [loaded EXCEPT ![c][k] = redis[k]]
      BY <1>12 DEF LoadProfile, store
    <2>2. ASSUME NEW p \in Profiles, NEW d \in Callers PROVE Sound(p, loaded[d][p])'
      <3>1. /\ Sound(p, loaded[d][p]) /\ loaded[d][p] \in Seq(Outcomes)
            /\ Sound(p, redis[p]) /\ redis[p] \in Seq(Outcomes)
        BY <1>1 DEF SamplesSound, TypeOK
      <3>2. loaded'[d][p] \in {loaded[d][p], redis[p]}
        BY <1>1, <2>1 DEF TypeOK
      <3> QED
        BY <1>3, <3>1, <3>2 DEF Sound
    <2> QED
      BY <1>1, <1>5, <1>6, <1>7, <2>1, <2>2 DEF SamplesInv, SamplesSound
  <1>13. ASSUME NEW c \in Callers, Publish(c) PROVE SamplesInv'
    <2>1. /\ UNCHANGED <<redis, profile>>
          /\ cache' = loaded[c]
          /\ loaded' = [loaded EXCEPT ![c] = Nothing]
      BY <1>13 DEF Publish, store
    <2>2. ASSUME NEW p \in Profiles PROVE Sound(p, cache[p])'
      <3>1. Sound(p, loaded[c][p]) /\ loaded[c][p] \in Seq(Outcomes)
        BY <1>1 DEF SamplesSound, TypeOK
      <3> QED
        BY <1>3, <2>1, <3>1 DEF Sound
    <2>3. ASSUME NEW p \in Profiles, NEW d \in Callers PROVE Sound(p, loaded[d][p])'
      <3>1. Sound(p, loaded[d][p]) /\ loaded[d][p] \in Seq(Outcomes)
        BY <1>1 DEF SamplesSound, TypeOK
      <3>2. loaded'[d][p] \in {loaded[d][p], <<>>}
        BY <1>1, <2>1 DEF TypeOK, Nothing
      <3> QED
        BY <1>3, <1>4, <3>1, <3>2 DEF Sound
    <2> QED
      BY <1>1, <1>5, <1>6, <2>1, <2>2, <2>3 DEF SamplesInv, SamplesSound
  <1>14. ASSUME NEW c \in Callers,
                \/ CallFresh(c) \/ CallStale(c)
                \/ FindRefreshed(c) \/ BeginLoad(c) \/ BreakLoad(c)
         PROVE  UNCHANGED <<redis, profile, cache, loaded>>
    BY <1>14 DEF CallFresh, CallStale, FindRefreshed, BeginLoad, BreakLoad, store, loads
  <1>15. Tick \/ UNCHANGED vars => UNCHANGED <<redis, profile, cache, loaded>>
    BY DEF Tick, vars, store, refresh, loads
  <1> QED
    BY <1>9, <1>10, <1>11, <1>12, <1>13, <1>14, <1>15, StepKinds DEF Record, Refresh

LEMMA SamplesInvariant == Spec => []SamplesInv
  BY InitSamples, StepSamples, PTL DEF Spec

(* Every sample of a profile, stored, got by a recording, read by a refresh or
   cached, was recorded for it and is counted once. *)
THEOREM SamplesSoundCorrect == Spec => []SamplesSound
  <1>1. SamplesInv => SamplesSound
    BY DEF SamplesInv
  <1> QED
    BY <1>1, SamplesInvariant, PTL

-----------------------------------------------------------------------------
(* Lost samples.  A SET can only undo what came between it and its GET, and a
   task that got a profile knows of everything SET to it or overlaps with it. *)
Overlapped(o) == \E w \in Outcomes : recording[w] = "set" /\ o \in setDuring[w]

LostInv ==
  /\ TypeInv
  /\ LostOnlyToOverlap
  /\ \A q, o \in Outcomes :
       recording[q] = "got" /\ recording[o] = "set" /\ ProfileOf[o] = ProfileOf[q] =>
         o \in In(profile[q]) \/ o \in setDuring[q] \/ Overlapped(o)

LEMMA InitLost == Init => LostInv
  <1> SUFFICES ASSUME Init PROVE LostInv
    OBVIOUS
  <1>1. TypeInv
    BY InitType
  <1>2. ASSUME NEW o \in Outcomes, recording[o] = "set"
        PROVE  o \in In(redis[ProfileOf[o]])
    <2>1. o \in Earlier /\ ProfileOf[o] \in Profiles
      BY <1>2, OutcomeAssumption DEF Init
    <2>2. PICK e : e = CHOOSE q \in EarlierOf(ProfileOf[o]) : TRUE
      OBVIOUS
    <2>3. e \in EarlierOf(ProfileOf[o]) /\ EarlierOf(ProfileOf[o]) # {}
      BY <2>1, <2>2 DEF EarlierOf
    <2>4. e = o
      BY <2>1, <2>3, OutcomeAssumption DEF EarlierOf
    <2>5. redis[ProfileOf[o]] = <<o>>
      BY <2>1, <2>2, <2>3, <2>4 DEF Init
    <2>6. Len(redis[ProfileOf[o]]) = 1 /\ redis[ProfileOf[o]][1] = o
      BY <2>5
    <2> QED
      BY <2>6 DEF In
  <1>3. \A o \in Outcomes : recording[o] # "got"
    BY DEF Init
  <1> QED
    BY <1>1, <1>2, <1>3 DEF LostInv, LostOnlyToOverlap

LEMMA StepLost == LostInv /\ [Next]_vars => LostInv'
  <1> SUFFICES ASSUME LostInv, [Next]_vars PROVE LostInv'
    OBVIOUS
  <1>1. TypeInv'
    BY StepType DEF LostInv
  <1>2. CASE UNCHANGED store
    BY <1>1, <1>2 DEF LostInv, LostOnlyToOverlap, Overlapped, store
  <1>3. ASSUME NEW o \in Outcomes, GetProfile(o) PROVE LostInv'
    <2>1. ProfileOf[o] \in Profiles
      BY OutcomeAssumption
    <2>2. /\ \A q \in Outcomes : recording'[q] = "set" <=> recording[q] = "set"
          /\ redis' = redis /\ setDuring' = setDuring
          /\ \A q \in Outcomes : q # o => recording'[q] = recording[q] /\ profile'[q] = profile[q]
          /\ profile'[o] = redis[ProfileOf[o]]
      BY <1>3 DEF GetProfile, LostInv, TypeInv, TypeOK
    <2>3. LostOnlyToOverlap'
      BY <2>2 DEF LostInv, LostOnlyToOverlap
    <2>4. ASSUME NEW q \in Outcomes, NEW r \in Outcomes, recording'[q] = "got",
                 recording'[r] = "set", ProfileOf[r] = ProfileOf[q]
          PROVE  (r \in In(profile[q]) \/ r \in setDuring[q] \/ Overlapped(r))'
      BY <2>2, <2>4 DEF LostInv, LostOnlyToOverlap, Overlapped
    <2> QED
      BY <1>1, <2>3, <2>4 DEF LostInv
  <1>4. ASSUME NEW o \in Outcomes, SetProfile(o) PROVE LostInv'
    <2> DEFINE po == ProfileOf[o]
    <2>1. po \in Profiles /\ profile[o] \in Seq(Outcomes)
      BY OutcomeAssumption DEF LostInv, TypeInv, TypeOK
    <2>2. /\ recording[o] = "got" /\ recording'[o] = "set"
          /\ \A q \in Outcomes : q # o => recording'[q] = recording[q] /\ profile'[q] = profile[q]
          /\ redis'[po] = Append(profile[o], o)
          /\ \A p \in Profiles : p # po => redis'[p] = redis[p]
      BY <1>4, <2>1 DEF SetProfile, Fold, LostInv, TypeInv, TypeOK
    <2>3. /\ \A q \in Outcomes : setDuring[q] \subseteq setDuring'[q]
          /\ \A q \in Outcomes : q # o /\ recording[q] = "got" /\ ProfileOf[q] = po =>
               o \in setDuring'[q]
      BY <1>4 DEF SetProfile
    <2>4. \A q \in Outcomes : Overlapped(q) => Overlapped(q)'
      BY <2>2, <2>3 DEF Overlapped
    <2>5. In(redis'[po]) = In(profile[o]) \cup {o}
      BY <2>1, <2>2, AppendElements
    <2>6. ASSUME NEW r \in Outcomes, recording'[r] = "set"
          PROVE  (r \in In(redis[ProfileOf[r]]) \/ Overlapped(r))'
      <3>1. CASE r = o
        BY <2>5, <3>1
      <3>2. CASE r # o /\ ProfileOf[r] = po
        <4>1. recording[r] = "set"
          BY <2>2, <2>6, <3>2
        <4>2. r \in In(profile[o]) \/ r \in setDuring[o] \/ Overlapped(r)
          BY <2>2, <3>2, <4>1 DEF LostInv
        <4>3. r \in setDuring[o] => Overlapped(r)'
          BY <2>2, <2>3 DEF Overlapped
        <4> QED
          BY <2>4, <2>5, <3>2, <4>2, <4>3
      <3>3. CASE r # o /\ ProfileOf[r] # po
        <4>1. recording[r] = "set" /\ redis'[ProfileOf[r]] = redis[ProfileOf[r]]
          BY <2>2, <2>6, <3>3, OutcomeAssumption
        <4>2. r \in In(redis[ProfileOf[r]]) \/ Overlapped(r)
          BY <4>1 DEF LostInv, LostOnlyToOverlap, Overlapped
        <4> QED
          BY <2>4, <4>1, <4>2
      <3> QED
        BY <3>1, <3>2, <3>3
    <2>7. LostOnlyToOverlap'
      BY <2>6 DEF LostOnlyToOverlap, Overlapped
    <2>8. ASSUME NEW q \in Outcomes, NEW r \in Outcomes, recording'[q] = "got",
                 recording'[r] = "set", ProfileOf[r] = ProfileOf[q]
          PROVE  (r \in In(profile[q]) \/ r \in setDuring[q] \/ Overlapped(r))'
      <3>1. q # o /\ recording[q] = "got" /\ profile'[q] = profile[q]
        BY <2>2, <2>8
      <3>2. CASE r = o
        BY <2>3, <2>8, <3>1, <3>2
      <3>3. CASE r # o
        <4>1. recording[r] = "set"
          BY <2>2, <2>8, <3>3
        <4>2. r \in In(profile[q]) \/ r \in setDuring[q] \/ Overlapped(r)
          BY <2>8, <3>1, <4>1 DEF LostInv
        <4> QED
          BY <2>3, <2>4, <3>1, <4>2
      <3> QED
        BY <3>2, <3>3
    <2> QED
      BY <1>1, <2>7, <2>8 DEF LostInv
  <1>5. ASSUME NEW o \in Outcomes, RecordFails(o) PROVE LostInv'
    <2>1. /\ redis' = redis /\ recording[o] # "set" /\ recording'[o] = "failed"
          /\ \A q \in Outcomes : q # o => /\ recording'[q] = recording[q]
                                           /\ profile'[q] = profile[q]
                                           /\ setDuring'[q] = setDuring[q]
      BY <1>5 DEF RecordFails, LostInv, TypeInv, TypeOK
    <2>2. \A q \in Outcomes : Overlapped(q) => Overlapped(q)'
      BY <2>1 DEF Overlapped
    <2>3. LostOnlyToOverlap'
      <3>1. \A q \in Outcomes : recording'[q] = "set" => recording[q] = "set"
        BY <2>1
      <3> QED
        BY <2>1, <2>2, <3>1 DEF LostInv, LostOnlyToOverlap, Overlapped
    <2>4. ASSUME NEW q \in Outcomes, NEW r \in Outcomes, recording'[q] = "got",
                 recording'[r] = "set", ProfileOf[r] = ProfileOf[q]
          PROVE  (r \in In(profile[q]) \/ r \in setDuring[q] \/ Overlapped(r))'
      <3>1. /\ recording[q] = "got" /\ recording[r] = "set"
            /\ profile'[q] = profile[q] /\ setDuring'[q] = setDuring[q]
        BY <2>1, <2>4
      <3> QED
        BY <2>2, <2>4, <3>1 DEF LostInv
    <2> QED
      BY <1>1, <2>3, <2>4 DEF LostInv
  <1>6. ASSUME NEW c \in Callers, CallFresh(c) \/ CallStale(c) \/ Refresh(c)
        PROVE  UNCHANGED store
    BY <1>6 DEF CallFresh, CallStale, Refresh, FindRefreshed, BeginLoad, BreakLoad,
                Publish, LoadProfile
  <1>7. Tick \/ UNCHANGED vars => UNCHANGED store
    BY DEF Tick, vars
  <1> QED
    BY <1>2, <1>3, <1>4, <1>5, <1>6, <1>7, StepKinds DEF Record

(* A recorded outcome is missing from its profile only when another recording
   overlapped it. *)
THEOREM LostOnlyToOverlapCorrect == Spec => []LostOnlyToOverlap
  <1>1. LostInv => LostOnlyToOverlap
    BY DEF LostInv
  <1> QED
    BY <1>1, InitLost, StepLost, PTL DEF Spec

-----------------------------------------------------------------------------
(* The age of the cache.  What a call reads it reads after the time it took,
   and before it loads it has read nothing. *)
AgeInv ==
  /\ TypeInv
  /\ NeverOlderThanStated
  /\ \A c \in Callers : now[c] <= clock
  /\ \A c \in Callers : caller[c] # "loading" => loaded[c] = Nothing
  /\ \A c \in Callers, p \in Profiles :
       loaded[c][p] # <<>> => loadedAt[c][p] >= now[c]

LEMMA InitAge == Init => AgeInv
  BY InitType, TimeAssumption
  DEF Init, AgeInv, NeverOlderThanStated, Nothing, TypeInv, TypeOK

LEMMA StepAge == AgeInv /\ [Next]_vars => AgeInv'
  <1> SUFFICES ASSUME AgeInv, [Next]_vars PROVE AgeInv'
    OBVIOUS
  <1>1. TypeInv'
    BY StepType DEF AgeInv
  <1>2. TypeOK /\ LockHeld
    BY DEF AgeInv, TypeInv
  <1>3. CASE UNCHANGED refresh /\ clock' >= clock
    BY <1>1, <1>2, <1>3 DEF AgeInv, NeverOlderThanStated, refresh, loads, TypeInv, TypeOK
  <1>4. ASSUME NEW c \in Callers, CallFresh(c) PROVE AgeInv'
    BY <1>1, <1>2, <1>4 DEF CallFresh, AgeInv, NeverOlderThanStated, loads, TypeOK
  <1>5. ASSUME NEW c \in Callers, CallStale(c) PROVE AgeInv'
    <2>1. loaded[c] = Nothing
      BY <1>5 DEF CallStale, AgeInv
    <2>2. \A p \in Profiles : loaded[c][p] = <<>>
      BY <2>1 DEF Nothing
    <2>3. /\ UNCHANGED <<clock, cache, refreshed, readAt, loaded, loadedAt>>
          /\ now' = [now EXCEPT ![c] = clock]
          /\ caller' = [caller EXCEPT ![c] = "queued"]
      BY <1>5 DEF CallStale
    <2>4. \A d \in Callers : now'[d] <= clock'
      BY <1>2, <2>3 DEF AgeInv, TypeOK
    <2>5. \A d \in Callers : caller'[d] # "loading" => loaded'[d] = Nothing
      BY <1>2, <2>1, <2>3 DEF AgeInv, TypeOK
    <2>6. \A d \in Callers, p \in Profiles :
            loaded'[d][p] # <<>> => loadedAt'[d][p] >= now'[d]
      BY <1>2, <2>2, <2>3 DEF AgeInv, TypeOK
    <2>7. NeverOlderThanStated'
      BY <2>3 DEF AgeInv, NeverOlderThanStated
    <2> QED
      BY <1>1, <2>4, <2>5, <2>6, <2>7 DEF AgeInv
  <1>6. ASSUME NEW c \in Callers, FindRefreshed(c) PROVE AgeInv'
    <2>1. loaded[c] = Nothing
      BY <1>6 DEF FindRefreshed, AgeInv
    <2>2. \A p \in Profiles : loaded[c][p] = <<>>
      BY <2>1 DEF Nothing
    <2> QED
      BY <1>1, <1>2, <1>6, <2>1, <2>2 DEF FindRefreshed, AgeInv, NeverOlderThanStated, TypeOK
  <1>7. ASSUME NEW c \in Callers, BeginLoad(c) PROVE AgeInv'
    BY <1>1, <1>2, <1>7 DEF BeginLoad, AgeInv, NeverOlderThanStated, TypeOK
  <1>8. ASSUME NEW c \in Callers, BreakLoad(c) PROVE AgeInv'
    BY <1>1, <1>2, <1>8 DEF BreakLoad, AfterBreak, AgeInv, NeverOlderThanStated, TypeOK
  <1>9. ASSUME NEW c \in Callers, Publish(c) PROVE AgeInv'
    <2>1. /\ cache' = loaded[c] /\ readAt' = loadedAt[c] /\ refreshed' = now[c]
          /\ loaded' = [loaded EXCEPT ![c] = Nothing]
          /\ caller' = [caller EXCEPT ![c] = "done"]
          /\ now' = [now EXCEPT ![c] = 0] /\ clock' = clock
          /\ loadedAt' = [loadedAt EXCEPT ![c] = NeverRead]
      BY <1>9 DEF Publish, RefreshTime
    <2>2. NeverOlderThanStated'
      BY <2>1 DEF NeverOlderThanStated, AgeInv
    <2>3. \A d \in Callers : caller'[d] # "loading" => loaded'[d] = Nothing
      BY <1>2, <2>1 DEF AgeInv, TypeOK
    <2>4. \A d \in Callers : now'[d] <= clock'
      BY <1>2, <2>1 DEF AgeInv, TypeOK
    <2>5. ASSUME NEW d \in Callers, NEW p \in Profiles, loaded'[d][p] # <<>>
          PROVE  loadedAt'[d][p] >= now'[d]
      <3>1. d # c
        BY <1>2, <2>1, <2>5 DEF TypeOK, Nothing
      <3> QED
        BY <1>2, <2>1, <2>5, <3>1 DEF AgeInv, TypeOK
    <2> QED
      BY <1>1, <2>2, <2>3, <2>4, <2>5 DEF AgeInv
  <1>10. ASSUME NEW c \in Callers, NEW p \in Profiles, LoadProfile(c, p) PROVE AgeInv'
    <2>1. /\ caller[c] = "loading" /\ UNCHANGED <<clock, caller, now, cache, refreshed, readAt>>
          /\ loaded' = [loaded EXCEPT ![c][p] = redis[p]]
          /\ loadedAt' = [loadedAt EXCEPT ![c][p] = clock]
      BY <1>10 DEF LoadProfile
    <2>2. ASSUME NEW d \in Callers, NEW q \in Profiles, loaded'[d][q] # <<>>
          PROVE  loadedAt'[d][q] >= now'[d]
      <3>1. CASE d = c /\ q = p
        BY <1>2, <2>1, <3>1 DEF AgeInv, TypeOK
      <3>2. CASE ~(d = c /\ q = p)
        BY <1>2, <2>1, <2>2, <3>2 DEF AgeInv, TypeOK
      <3> QED
        BY <3>1, <3>2
    <2>3. \A d \in Callers : caller'[d] # "loading" => loaded'[d] = Nothing
      BY <1>2, <2>1 DEF AgeInv, TypeOK
    <2> QED
      BY <1>1, <2>1, <2>2, <2>3 DEF AgeInv, NeverOlderThanStated
  <1>11. ASSUME NEW o \in Outcomes, Record(o) PROVE AgeInv'
    BY <1>2, <1>3, <1>11 DEF Record, GetProfile, SetProfile, RecordFails, TypeOK
  <1>12. CASE Tick \/ UNCHANGED vars
    BY <1>2, <1>3, <1>12 DEF Tick, vars, TypeOK
  <1> QED
    BY <1>4, <1>5, <1>6, <1>7, <1>8, <1>9, <1>10, <1>11, <1>12, StepKinds DEF Refresh

(* What is served was read no earlier than the refresh time says. *)
THEOREM NeverOlderThanStatedCorrect == Spec => []NeverOlderThanStated
  <1>1. AgeInv => NeverOlderThanStated
    BY DEF AgeInv
  <1> QED
    BY <1>1, InitAge, StepAge, PTL DEF Spec

-----------------------------------------------------------------------------
(* The refresh time.  Calls stand in the queue in the order of the times they
   took, none of them earlier than the last refresh. *)
InOrder ==
  /\ \A i, j \in 1..Len(queue) : i <= j => now[queue[i]] <= now[queue[j]]
  /\ \A i \in 1..Len(queue) : refreshed <= now[queue[i]] /\ now[queue[i]] <= clock
  /\ refreshed <= clock

OrderInv == TypeInv /\ InOrder

LEMMA InitOrder == Init => OrderInv
  BY InitType, TimeAssumption DEF Init, OrderInv, InOrder

(* Whoever leaves the queue stood at its head. *)
LEMMA Leaving ==
  ASSUME OrderInv, NEW c \in Callers, FindRefreshed(c) \/ Publish(c)
  PROVE  InOrder' /\ refreshed' >= refreshed
  <1>1. TypeOK /\ LockHeld /\ InOrder
    BY DEF OrderInv, TypeInv
  <1>2. HasLock(c)
    BY <1>1 DEF FindRefreshed, Publish, LockHeld
  <1>3. /\ queue # <<>> /\ Head(queue) = c /\ queue' = Tail(queue)
        /\ now' = [now EXCEPT ![c] = 0] /\ clock' = clock
        /\ refreshed' = refreshed \/ refreshed' = now[c]
    BY <1>2 DEF HasLock, FindRefreshed, Publish, RefreshTime
  <1>4. /\ Len(queue) \in Nat \ {0} /\ Len(queue') = Len(queue) - 1
        /\ \A i \in 1..Len(queue') : queue'[i] = queue[i + 1] /\ i + 1 \in 1..Len(queue)
        /\ queue[1] = c /\ 1 \in 1..Len(queue)
    BY <1>1, <1>3 DEF TypeOK
  <1>5. \A i \in 1..Len(queue') : queue[i + 1] # c /\ queue[i + 1] \in Callers
    BY <1>1, <1>4 DEF LockHeld, Distinct, TypeOK
  <1>6. \A i \in 1..Len(queue') : now'[queue'[i]] = now[queue[i + 1]]
    BY <1>1, <1>3, <1>4, <1>5 DEF TypeOK
  <1>7. refreshed' >= refreshed /\ refreshed' <= now[c] /\ now[c] <= clock
    BY <1>1, <1>3, <1>4 DEF InOrder, TypeOK
  <1>8. now[c] \in Nat /\ clock \in Nat /\ refreshed \in Nat /\ refreshed' \in Nat
    BY <1>1, <1>3 DEF TypeOK
  <1>9. \A i \in 1..Len(queue') : now[c] <= now[queue[i + 1]]
    BY <1>1, <1>4 DEF InOrder
  <1>10. \A i \in 1..Len(queue') : now[queue[i + 1]] \in Nat
    BY <1>1, <1>5 DEF TypeOK
  <1>11. ASSUME NEW i \in 1..Len(queue')
         PROVE  refreshed' <= now'[queue'[i]] /\ now'[queue'[i]] <= clock'
    <2>1. now[queue[i + 1]] <= clock
      BY <1>1, <1>4 DEF InOrder
    <2> QED
      BY <1>3, <1>6, <1>7, <1>8, <1>9, <1>10, <2>1
  <1>12. ASSUME NEW i \in 1..Len(queue'), NEW j \in 1..Len(queue'), i <= j
         PROVE  now'[queue'[i]] <= now'[queue'[j]]
    <2>1. i + 1 <= j + 1
      BY <1>4, <1>12
    <2>2. now[queue[i + 1]] <= now[queue[j + 1]]
      BY <1>1, <1>4, <2>1 DEF InOrder
    <2> QED
      BY <1>6, <2>2
  <1>13. refreshed' <= clock'
    BY <1>3, <1>7, <1>8
  <1> QED
    BY <1>7, <1>11, <1>12, <1>13 DEF InOrder

(* Whoever joins it takes the time now. *)
LEMMA Joining ==
  ASSUME OrderInv, NEW c \in Callers, CallStale(c)
  PROVE  InOrder'
  <1>1. TypeOK /\ InOrder
    BY DEF OrderInv, TypeInv
  <1>2. /\ queue' = Append(queue, c) /\ now' = [now EXCEPT ![c] = clock]
        /\ clock' = clock /\ refreshed' = refreshed /\ c \notin In(queue)
    BY <1>1 DEF CallStale, TypeOK
  <1>3. /\ Len(queue) \in Nat /\ Len(queue') = Len(queue) + 1
        /\ \A i \in 1..Len(queue) : queue'[i] = queue[i] /\ queue[i] \in Callers
        /\ queue'[Len(queue) + 1] = c
    BY <1>1, <1>2 DEF TypeOK
  <1>4. \A i \in 1..Len(queue) : now'[queue'[i]] = now[queue[i]] /\ now[queue[i]] \in Nat
    BY <1>1, <1>2, <1>3 DEF TypeOK, In
  <1>5. now'[queue'[Len(queue) + 1]] = clock /\ clock \in Nat /\ refreshed <= clock
    BY <1>1, <1>2, <1>3 DEF TypeOK, InOrder
  <1>6. ASSUME NEW i \in 1..Len(queue')
        PROVE  refreshed <= now'[queue'[i]] /\ now'[queue'[i]] <= clock
    <2>1. CASE i \in 1..Len(queue)
      BY <1>1, <1>4, <2>1 DEF InOrder
    <2>2. CASE i = Len(queue) + 1
      BY <1>5, <2>2
    <2> QED
      BY <1>3, <2>1, <2>2
  <1>7. ASSUME NEW i \in 1..Len(queue'), NEW j \in 1..Len(queue'), i <= j
        PROVE  now'[queue'[i]] <= now'[queue'[j]]
    <2>1. CASE j \in 1..Len(queue)
      <3>1. i \in 1..Len(queue)
        BY <1>3, <1>7, <2>1
      <3> QED
        BY <1>1, <1>4, <1>7, <2>1, <3>1 DEF InOrder
    <2>2. CASE j = Len(queue) + 1
      BY <1>5, <1>6, <2>2
    <2> QED
      BY <1>3, <2>1, <2>2
  <1> QED
    BY <1>2, <1>5, <1>6, <1>7 DEF InOrder

LEMMA StepOrder ==
  OrderInv /\ [Next]_vars => OrderInv' /\ refreshed' >= refreshed
  <1> SUFFICES ASSUME OrderInv, [Next]_vars PROVE OrderInv' /\ refreshed' >= refreshed
    OBVIOUS
  <1>1. TypeInv'
    BY StepType DEF OrderInv
  <1>2. TypeOK /\ InOrder
    BY DEF OrderInv, TypeInv
  <1>3. CASE UNCHANGED <<queue, now, refreshed>> /\ clock' >= clock
    <2>1. \A i \in 1..Len(queue) : queue[i] \in Callers /\ now[queue[i]] \in Nat
      BY <1>2 DEF TypeOK
    <2>2. InOrder'
      BY <1>1, <1>2, <1>3, <2>1 DEF InOrder, TypeInv, TypeOK
    <2> QED
      BY <1>1, <1>2, <1>3, <2>2 DEF OrderInv, TypeOK
  <1>4. ASSUME NEW c \in Callers, CallStale(c) PROVE OrderInv' /\ refreshed' >= refreshed
    <2>1. refreshed' = refreshed /\ refreshed \in Nat
      BY <1>2, <1>4 DEF CallStale, TypeOK
    <2> QED
      BY <1>1, <1>4, <2>1, Joining DEF OrderInv
  <1>5. ASSUME NEW c \in Callers, FindRefreshed(c) \/ Publish(c)
        PROVE  OrderInv' /\ refreshed' >= refreshed
    BY <1>1, <1>5, Leaving DEF OrderInv
  <1>6. ASSUME NEW c \in Callers,
               \/ CallFresh(c) \/ BeginLoad(c) \/ BreakLoad(c)
               \/ \E p \in Profiles : LoadProfile(c, p)
        PROVE  UNCHANGED <<queue, now, refreshed>> /\ clock' >= clock
    BY <1>2, <1>6 DEF CallFresh, BeginLoad, BreakLoad, LoadProfile, loads, TypeOK
  <1>7. ASSUME NEW o \in Outcomes, Record(o)
        PROVE  UNCHANGED <<queue, now, refreshed>> /\ clock' >= clock
    BY <1>2, <1>7 DEF Record, GetProfile, SetProfile, RecordFails, refresh, loads, TypeOK
  <1>8. CASE Tick \/ UNCHANGED vars
    <2>1. UNCHANGED <<queue, now, refreshed>> /\ clock' >= clock
      BY <1>2, <1>8 DEF Tick, vars, refresh, loads, TypeOK
    <2> QED
      BY <1>3, <2>1
  <1> QED
    BY <1>3, <1>4, <1>5, <1>6, <1>7, <1>8, StepKinds DEF Refresh

(* The refresh time is never set back, however long a call waits. *)
THEOREM RefreshTimeAdvancesCorrect == Spec => RefreshTimeAdvances
  <1>1. OrderInv /\ [Next]_vars => [refreshed' >= refreshed]_refreshed
    BY StepOrder
  <1>2. OrderInv /\ [Next]_vars => OrderInv'
    BY StepOrder
  <1> QED
    BY <1>1, <1>2, InitOrder, PTL DEF Spec, RefreshTimeAdvances

-----------------------------------------------------------------------------
(* The completeness of the cache.  Profiles never vanish from Redis, so what
   was cached is still to be read or has been read, unless the scan broke. *)
CompleteInv ==
  /\ TypeInv
  /\ \A p \in Profiles : cache[p] # <<>> => redis[p] # <<>>
  /\ \A c \in Callers : \A p \in pending[c] : redis[p] # <<>>
  /\ \A c \in Callers : caller[c] = "loading" /\ c \notin broken =>
       \A p \in Profiles : cache[p] # <<>> => p \in pending[c] \/ loaded[c][p] # <<>>
  /\ \A c \in Callers, p \in Profiles : loaded[c][p] # <<>> => redis[p] # <<>>

Forgets(p) == cache[p] # <<>> /\ cache'[p] = <<>>

LEMMA InitComplete == Init => CompleteInv
  BY InitType DEF Init, CompleteInv, Nothing

LEMMA StepComplete ==
  CompleteInv /\ [Next]_vars =>
    CompleteInv' /\ (\A p \in Profiles : Forgets(p) => broken # {})
  <1> SUFFICES ASSUME CompleteInv, [Next]_vars
               PROVE  CompleteInv' /\ (\A p \in Profiles : Forgets(p) => broken # {})
    OBVIOUS
  <1>1. TypeInv' /\ TypeOK /\ LockHeld
    BY StepType DEF CompleteInv, TypeInv
  <1>2. CASE UNCHANGED refresh /\ \A p \in Profiles : redis[p] # <<>> => redis'[p] # <<>>
    <2>1. UNCHANGED <<cache, pending, loaded, caller, broken>>
      BY <1>2 DEF refresh, loads
    <2>2. \A c \in Callers : pending[c] \subseteq Profiles
      BY <1>1 DEF TypeOK
    <2>3. CompleteInv'
      BY <1>1, <1>2, <2>1, <2>2 DEF CompleteInv
    <2> QED
      BY <2>1, <2>3 DEF Forgets
  <1>3. ASSUME NEW c \in Callers, CallFresh(c) \/ CallStale(c) \/ FindRefreshed(c)
        PROVE  CompleteInv' /\ (\A p \in Profiles : Forgets(p) => broken # {})
    <2>1. /\ UNCHANGED <<redis, cache, pending, loaded, broken>>
          /\ \A d \in Callers : caller'[d] = "loading" => caller[d] = "loading"
      BY <1>1, <1>3 DEF CallFresh, CallStale, FindRefreshed, store, loads, TypeOK
    <2> QED
      BY <1>1, <2>1 DEF CompleteInv, Forgets
  <1>4. ASSUME NEW c \in Callers, BeginLoad(c)
        PROVE  CompleteInv' /\ (\A p \in Profiles : Forgets(p) => broken # {})
    <2>1. /\ UNCHANGED <<redis, cache, loaded, broken>>
          /\ caller' = [caller EXCEPT ![c] = "loading"]
          /\ pending' = [pending EXCEPT ![c] = {p \in Profiles : redis[p] # <<>>}]
      BY <1>4 DEF BeginLoad, KeysToScan, store
    <2> QED
      BY <1>1, <2>1 DEF CompleteInv, Forgets, TypeOK
  <1>5. ASSUME NEW c \in Callers, BreakLoad(c)
        PROVE  CompleteInv' /\ (\A p \in Profiles : Forgets(p) => broken # {})
    <2>1. /\ UNCHANGED <<redis, cache, loaded>> /\ caller[c] = "loading"
          /\ caller' = [caller EXCEPT ![c] = "loading"] /\ broken' = broken \cup {c}
          /\ pending' = [pending EXCEPT ![c] = {}]
      BY <1>5 DEF BreakLoad, AfterBreak, store
    <2> QED
      BY <1>1, <2>1 DEF CompleteInv, Forgets, TypeOK
  <1>6. ASSUME NEW c \in Callers, NEW p \in Profiles, LoadProfile(c, p)
        PROVE  CompleteInv' /\ (\A q \in Profiles : Forgets(q) => broken # {})
    <2>1. /\ UNCHANGED <<redis, cache, broken, caller>>
          /\ p \in pending[c] \/ redis[p] # <<>>
          /\ loaded' = [loaded EXCEPT ![c][p] = redis[p]]
          /\ pending' = [pending EXCEPT ![c] = @ \ {p}]
      BY <1>6 DEF LoadProfile, AddedMeanwhile, store
    <2>2. redis[p] # <<>>
      BY <2>1 DEF CompleteInv
    <2>3. \A d \in Callers, q \in Profiles :
            loaded'[d][q] = IF d = c /\ q = p THEN redis[p] ELSE loaded[d][q]
      BY <1>1, <2>1 DEF TypeOK
    <2>4. \A d \in Callers : pending'[d] = IF d = c THEN pending[d] \ {p} ELSE pending[d]
      BY <1>1, <2>1 DEF TypeOK
    <2> QED
      BY <1>1, <2>1, <2>2, <2>3, <2>4 DEF CompleteInv, Forgets
  <1>7. ASSUME NEW c \in Callers, Publish(c)
        PROVE  CompleteInv' /\ (\A p \in Profiles : Forgets(p) => broken # {})
    <2>1. /\ UNCHANGED <<redis, pending>> /\ caller[c] = "loading" /\ pending[c] = {}
          /\ cache' = loaded[c] /\ loaded' = [loaded EXCEPT ![c] = Nothing]
          /\ caller' = [caller EXCEPT ![c] = "done"] /\ broken' = broken \ {c}
      BY <1>7 DEF Publish, store
    <2>2. \A d \in Callers : caller[d] = "loading" => d = c
      BY <1>1, <2>1 DEF LockHeld, HasLock
    <2>3. \A d \in Callers : caller'[d] # "loading"
      BY <1>1, <2>1, <2>2 DEF TypeOK
    <2>4. \A d \in Callers, p \in Profiles : loaded'[d][p] # <<>> => redis'[p] # <<>>
      BY <1>1, <2>1 DEF CompleteInv, TypeOK, Nothing
    <2>5. CompleteInv'
      BY <1>1, <2>1, <2>3, <2>4 DEF CompleteInv
    <2>6. ASSUME NEW p \in Profiles, Forgets(p) PROVE broken # {}
      <3>1. cache[p] # <<>> /\ loaded[c][p] = <<>>
        BY <2>1, <2>6 DEF Forgets
      <3> QED
        BY <2>1, <3>1 DEF CompleteInv
    <2> QED
      BY <2>5, <2>6
  <1>8. ASSUME NEW o \in Outcomes, Record(o)
        PROVE  UNCHANGED refresh /\ \A p \in Profiles : redis[p] # <<>> => redis'[p] # <<>>
    <2>1. CASE SetProfile(o)
      <3>1. ProfileOf[o] \in Profiles /\ profile[o] \in Seq(Outcomes)
        BY <1>1, OutcomeAssumption DEF TypeOK
      <3>2. Append(profile[o], o) # <<>>
        BY <3>1, AppendElements
      <3> QED
        BY <1>1, <2>1, <3>1, <3>2 DEF SetProfile, Fold, TypeOK
    <2> QED
      BY <1>8, <2>1 DEF Record, GetProfile, RecordFails
  <1>9. CASE Tick \/ UNCHANGED vars
    <2>1. UNCHANGED refresh /\ redis' = redis
      BY <1>9 DEF Tick, vars, store
    <2> QED
      BY <1>2, <2>1
  <1> QED
    BY <1>2, <1>3, <1>4, <1>5, <1>6, <1>7, <1>8, <1>9, StepKinds DEF Refresh

(* A profile leaves the cache only in a refresh whose scan an error cut short. *)
THEOREM ForgottenOnlyByErrorCorrect == Spec => ForgottenOnlyByError
  <1> DEFINE A == \A p \in Profiles : cache[p] # <<>> /\ cache'[p] = <<>> => broken # {}
  <1>1. CompleteInv /\ [Next]_vars => A
    BY StepComplete DEF Forgets
  <1>2. CompleteInv /\ [Next]_vars => CompleteInv'
    BY StepComplete
  <1> QED
    BY <1>1, <1>2, InitComplete, PTL DEF Spec, ForgottenOnlyByError

-----------------------------------------------------------------------------
(* The lock.  Its holder leaves it, begins to load, or has a key less to read
   or to expect. *)
Unread(c) == {p \in Profiles : loaded[c][p] = <<>>}

HoldersTurn(c) ==
  \/ queue' = Tail(queue) /\ caller'[c] = "done"
  \/ queue' = queue /\ caller[c] = "queued" /\ caller'[c] = "loading"
  \/ /\ queue' = queue /\ caller[c] = "loading" /\ caller'[c] = "loading"
     /\ pending'[c] \subseteq pending[c] /\ Unread(c)' \subseteq Unread(c)
     /\ pending'[c] # pending[c] \/ Unread(c)' # Unread(c)

(* Others only join the queue at its end, and leave alone what the holder has
   read and has still to read. *)
HolderUndisturbed ==
  /\ queue' = queue \/ \E c \in Callers : queue' = Append(queue, c)
  /\ queue # <<>> => /\ caller'[Head(queue)] = caller[Head(queue)]
                     /\ pending'[Head(queue)] = pending[Head(queue)]
                     /\ loaded'[Head(queue)] = loaded[Head(queue)]

TurnOrJoin ==
  /\ \A c \in Callers : Refresh(c) => HasLock(c) /\ HoldersTurn(c)
  /\ (\A c \in Callers : ~Refresh(c)) => HolderUndisturbed
  /\ queue # <<>> => caller[Head(queue)] \in {"queued", "loading"}
  /\ \A c \in Callers : IsFiniteSet(pending[c]) /\ IsFiniteSet(Unread(c))

LEMMA HolderMoves ==
  ASSUME CompleteInv, NEW c \in Callers, Refresh(c)
  PROVE  HasLock(c) /\ HoldersTurn(c)
  <1>1. /\ caller \in [Callers -> {"idle", "queued", "loading", "done"}]
        /\ pending \in [Callers -> SUBSET Profiles]
        /\ loaded \in [Callers -> [Profiles -> Seq(Outcomes)]]
        /\ caller[c] = "loading" => HasLock(c)
    BY DEF CompleteInv, TypeInv, TypeOK, LockHeld
  <1>2. CASE FindRefreshed(c) \/ BeginLoad(c) \/ Publish(c)
    BY <1>1, <1>2 DEF FindRefreshed, BeginLoad, Publish, HoldersTurn
  <1>3. CASE BreakLoad(c)
    BY <1>1, <1>3 DEF BreakLoad, AfterBreak, HoldersTurn, Unread
  <1>4. ASSUME NEW p \in Profiles, LoadProfile(c, p) PROVE HasLock(c) /\ HoldersTurn(c)
    <2>1. /\ queue' = queue /\ caller' = caller /\ caller[c] = "loading"
          /\ pending' = [pending EXCEPT ![c] = @ \ {p}]
          /\ loaded' = [loaded EXCEPT ![c][p] = redis[p]]
          /\ p \in pending[c] \/ (loaded[c][p] = <<>> /\ redis[p] # <<>>)
      BY <1>4 DEF LoadProfile, AddedMeanwhile
    <2>2. redis[p] # <<>>
      BY <2>1 DEF CompleteInv
    <2>3. pending'[c] = pending[c] \ {p}
      BY <1>1, <2>1
    <2>4. Unread(c)' = Unread(c) \ {p}
      <3>1. \A q \in Profiles : loaded'[c][q] = IF q = p THEN redis[p] ELSE loaded[c][q]
        BY <1>1, <2>1
      <3> QED
        BY <2>2, <3>1 DEF Unread
    <2>5. p \in pending[c] \/ p \in Unread(c)
      BY <2>1 DEF Unread
    <2> QED
      BY <1>1, <2>1, <2>3, <2>4, <2>5 DEF HoldersTurn
  <1> QED
    BY <1>2, <1>3, <1>4 DEF Refresh

LEMMA OthersWait ==
  ASSUME TypeInv, [Next]_vars, \A c \in Callers : ~Refresh(c)
  PROVE  HolderUndisturbed
  <1>1. /\ caller \in [Callers -> {"idle", "queued", "loading", "done"}]
        /\ queue # <<>> => Head(queue) \in Callers /\ caller[Head(queue)] # "idle"
    <2>1. queue \in Seq(Callers)
      BY DEF TypeInv, TypeOK
    <2>2. queue # <<>> => Head(queue) \in Callers /\ Head(queue) \in In(queue)
      BY <2>1, HeadElement
    <2> QED
      BY <2>2 DEF TypeInv, TypeOK
  <1>2. ASSUME NEW c \in Callers, CallFresh(c) \/ CallStale(c) PROVE HolderUndisturbed
    BY <1>1, <1>2 DEF CallFresh, CallStale, HolderUndisturbed, loads
  <1>3. CASE UNCHANGED <<queue, caller, pending, loaded>>
    BY <1>3 DEF HolderUndisturbed
  <1>4. ASSUME NEW o \in Outcomes, Record(o) PROVE UNCHANGED <<queue, caller, pending, loaded>>
    BY <1>4 DEF Record, GetProfile, SetProfile, RecordFails, refresh, loads
  <1>5. CASE Tick \/ UNCHANGED vars
    BY <1>3, <1>5 DEF Tick, vars, refresh, loads
  <1> QED
    BY <1>2, <1>3, <1>4, <1>5 DEF Next

(* No call starves at the lock: whoever is first in the queue can go on and has
   a finite way to go, only it moves, and nobody overtakes those behind it.
   That it does move is what CallsReturn needs fairness for. *)
THEOREM FirstComeFirstServedCorrect == Spec => [][TurnOrJoin]_vars
  <1>1. ASSUME CompleteInv, [Next]_vars PROVE TurnOrJoin
    <2> USE DEF CompleteInv
    <2>1. queue \in Seq(Callers) /\ pending \in [Callers -> SUBSET Profiles]
      BY <1>1 DEF TypeInv, TypeOK
    <2>2. queue # <<>> => caller[Head(queue)] \in {"queued", "loading"}
      <3>1. queue # <<>> => Head(queue) \in Callers /\ Head(queue) \in In(queue)
        BY <2>1, HeadElement
      <3> QED
        BY <1>1, <3>1 DEF TypeInv, TypeOK
    <2>3. \A c \in Callers : IsFiniteSet(pending[c]) /\ IsFiniteSet(Unread(c))
      BY <2>1, ProfileAssumption, FS_Subset DEF Unread
    <2> QED
      BY <1>1, <2>2, <2>3, HolderMoves, OthersWait DEF TurnOrJoin
  <1>2. CompleteInv /\ [Next]_vars => [TurnOrJoin]_vars
    BY <1>1
  <1>3. CompleteInv /\ [Next]_vars => CompleteInv'
    BY StepComplete
  <1> QED
    BY <1>2, <1>3, InitComplete, PTL DEF Spec

=============================================================================
