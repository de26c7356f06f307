------------------------ MODULE ProviderHealthProofs ------------------------
(***************************************************************************)
(* Proofs about ProviderHealth, for any windows, times to live and number  *)
(* of requests: the types, and that no part of a baseline expires while a  *)
(* check waits for it.                                                     *)
(***************************************************************************)
EXTENDS ProviderHealth, SelectionProofs

(* A request that has a provider to read or to record of has it. *)
Placed(r) ==
  /\ r.phase \in {"current", "baseline", "latching", "recording"} => r.at \in Providers
  /\ r.phase = "calling" => r.model \in Candidates
  /\ r.phase = "recording" => r.latency \in Latencies
  /\ r.asOf <= clock

TypeInv == TypeOK /\ \A c \in Callers : Placed(call[c])

(* The part of it that a request's own steps disturb. *)
CallsTyped ==
  /\ latch \in [Providers -> Nat]
  /\ call \in [Callers -> Requests]
  /\ \A c \in Callers : call[c].degraded \cap call[c].todo = {}
  /\ \A c \in Callers : Placed(call[c])

LEMMA NewRequestType ==
  NewRequest \in Requests /\ NewRequest.degraded = {} /\ NewRequest.asOf = 0
    /\ NewRequest.phase = "checking"
  <1>1. {ProviderOf[m] : m \in Candidates} \in SUBSET Providers
    BY HealthAssumption
  <1>2. NothingRead \in [Minutes -> Samplings]
    BY DEF NothingRead, NoSamples, Samplings
  <1> QED
    BY <1>1, <1>2 DEF NewRequest, Requests

LEMMA InitType == Init => TypeInv
  <1> SUFFICES ASSUME Init PROVE TypeInv
    OBVIOUS
  <1>1. clock \in Nat /\ \A m \in Minutes : m * MinuteTicks + BucketTTL \in Nat
    <2>1. BaselineWindow * MinuteTicks \in Nat /\ BaselineWindow * MinuteTicks >= 1
      BY WindowAssumption
    <2>2. \A m \in Minutes : m * MinuteTicks \in Nat
      BY WindowAssumption DEF Minutes
    <2> QED
      BY <2>1, <2>2, WindowAssumption DEF Init
  <1>2. \A c \in Callers : call[c] = NewRequest
    BY DEF Init
  <1>3. TypeOK
    <2>1. bucket \in [Providers -> [Minutes -> Samplings]] /\ pushed = bucket
      BY HealthAssumption DEF Init
    <2>2. expiry \in [Providers -> [Minutes -> Nat]]
      BY <1>1 DEF Init
    <2>3. latch \in [Providers -> Nat] /\ recorded \in Nat
      BY DEF Init
    <2>4. call \in [Callers -> Requests]
      BY NewRequestType DEF Init
    <2>5. \A c \in Callers : call[c].degraded \cap call[c].todo = {}
      BY <1>2, NewRequestType
    <2> QED
      BY <1>1, <2>1, <2>2, <2>3, <2>4, <2>5 DEF TypeOK
  <1>4. \A c \in Callers : Placed(call[c])
    BY <1>1, <1>2, NewRequestType DEF Placed
  <1> QED
    BY <1>3, <1>4 DEF TypeInv

(* Coming back from a provider leaves the request as typed as before. *)
LEMMA CheckedType ==
  ASSUME TypeInv, NEW c \in Callers, NEW p \in Providers, NEW flag \in BOOLEAN,
         Checked(c, p, flag), clock' = clock
  PROVE  /\ call' \in [Callers -> Requests]
         /\ \A d \in Callers : call'[d].degraded \cap call'[d].todo = {}
         /\ \A d \in Callers : Placed(call[d])'
  <1>1. NothingRead \in [Minutes -> Samplings]
    BY DEF NothingRead, NoSamples, Samplings
  <1>2. call \in [Callers -> Requests] /\ call[c] \in Requests /\ clock \in Nat
    BY DEF TypeInv, TypeOK
  <1> DEFINE r == [call[c] EXCEPT !.phase = "checking", !.at = NoModel, !.asOf = 0,
                                  !.seen = NothingRead, !.todo = @ \ {p},
                                  !.degraded = IF flag THEN @ \cup {p} ELSE @]
  <1>3. call' = [call EXCEPT ![c] = r]
    BY <1>2 DEF Checked
  <1>4. /\ r \in Requests
        /\ r.phase = "checking" /\ r.asOf = 0
        /\ r.todo = call[c].todo \ {p}
        /\ r.degraded \subseteq call[c].degraded \cup {p}
    BY <1>1, <1>2 DEF Requests
  <1> HIDE DEF r
  <1>5. r.degraded \cap r.todo = {}
    BY <1>4 DEF TypeInv, TypeOK
  <1>6. \A d \in Callers : call'[d] = IF d = c THEN r ELSE call[d]
    BY <1>2, <1>3
  <1>7. call' \in [Callers -> Requests]
    BY <1>2, <1>3, <1>4
  <1>8. \A d \in Callers : call'[d].degraded \cap call'[d].todo = {}
    BY <1>5, <1>6 DEF TypeInv, TypeOK
  <1>9. \A d \in Callers : Placed(call[d])'
    BY <1>2, <1>4, <1>6 DEF TypeInv, Placed
  <1> QED
    BY <1>7, <1>8, <1>9

(* So does any step that puts a well-typed request in its place. *)
LEMMA ReplacedType ==
  ASSUME TypeInv, NEW c \in Callers, NEW r \in Requests,
         call' = [call EXCEPT ![c] = r], clock' = clock,
         r.degraded \cap r.todo = {}, Placed(r)
  PROVE  /\ call' \in [Callers -> Requests]
         /\ \A d \in Callers : call'[d].degraded \cap call'[d].todo = {}
         /\ \A d \in Callers : Placed(call[d])'
  <1>1. \A d \in Callers : call'[d] = IF d = c THEN r ELSE call[d]
    BY DEF TypeInv, TypeOK
  <1>2. \A d \in Callers : Placed(call[d])'
    BY <1>1 DEF TypeInv, Placed
  <1> QED
    BY <1>1, <1>2 DEF TypeInv, TypeOK

LEMMA NewRequestPlaced == TypeOK => Placed(NewRequest)
  BY NewRequestType DEF Placed, TypeOK

(* The filter reads Redis and sets latches. *)
LEMMA CheckType ==
  ASSUME TypeInv, NEW c \in Callers, Check(c)
  PROVE  TypeInv'
  <1>1. /\ call[c] \in Requests /\ clock \in Nat /\ clock' = clock
        /\ UNCHANGED <<bucket, expiry, pushed, recorded>>
    BY DEF TypeInv, TypeOK, Check, ReadLatch, ReadCurrent, ReadBaseline, SetLatch, Choose,
           Explore
  <1>2. SUFFICES CallsTyped'
    BY <1>1 DEF CallsTyped, TypeInv, TypeOK
  <1>3. Placed(call[c]) /\ call[c].degraded \cap call[c].todo = {}
    BY DEF TypeInv, TypeOK
  <1>4. ASSUME NEW p \in Providers, ReadLatch(c, p) PROVE CallsTyped'
    <2>1. latch' = latch
      BY <1>4 DEF ReadLatch
    <2>2. CASE \E flag \in BOOLEAN : Checked(c, p, flag)
      BY <1>1, <2>1, <2>2, CheckedType DEF CallsTyped, TypeInv, TypeOK
    <2>3. CASE call' = [call EXCEPT ![c].phase = "current", ![c].at = p, ![c].asOf = clock]
      <3> DEFINE r == [call[c] EXCEPT !.phase = "current", !.at = p, !.asOf = clock]
      <3>1. call' = [call EXCEPT ![c] = r]
        BY <2>3 DEF TypeInv, TypeOK
      <3>2. /\ r \in Requests /\ r.degraded = call[c].degraded /\ r.todo = call[c].todo
            /\ r.phase = "current" /\ r.at = p /\ r.asOf = clock
        BY <1>1 DEF Requests
      <3>3. r.degraded \cap r.todo = {} /\ Placed(r)
        BY <1>1, <1>3, <3>2 DEF Placed
      <3> QED
        BY <1>1, <2>1, <3>1, <3>2, <3>3, ReplacedType DEF CallsTyped, TypeInv, TypeOK
    <2>4. (clock < latch[p]) \in BOOLEAN
      OBVIOUS
    <2>5. (\E flag \in BOOLEAN : Checked(c, p, flag))
            \/ call' = [call EXCEPT ![c].phase = "current", ![c].at = p, ![c].asOf = clock]
      <3>1. Checked(c, p, clock < latch[p]) => \E flag \in BOOLEAN : Checked(c, p, flag)
        BY <2>4
      <3>2. Checked(c, p, FALSE) => \E flag \in BOOLEAN : Checked(c, p, flag)
        OBVIOUS
      <3> QED
        BY <1>4, <3>1, <3>2 DEF ReadLatch
    <2> QED
      BY <2>2, <2>3, <2>5
  <1>5. CASE ReadCurrent(c)
    <2>1. latch' = latch /\ call[c].at \in Providers
      BY <1>3, <1>5 DEF ReadCurrent, Placed
    <2>2. ReadSamples(call[c].at, call[c].asOf, CurrentWindow) \in [Minutes -> Samplings]
      BY <2>1 DEF ReadSamples, NoSamples, Samplings, TypeInv, TypeOK
    <2>3. NothingRead \in [Minutes -> Samplings]
      BY DEF NothingRead, NoSamples, Samplings
    <2>4. PICK seen \in [Minutes -> Samplings] :
            \/ call' = [call EXCEPT ![c].phase = "baseline", ![c].asOf = clock, ![c].seen = seen]
            \/ Checked(c, call[c].at, FALSE)
      BY <1>5, <2>2, <2>3 DEF ReadCurrent
    <2>5. CASE Checked(c, call[c].at, FALSE)
      BY <1>1, <2>1, <2>5, CheckedType DEF CallsTyped, TypeInv, TypeOK
    <2>6. CASE call' = [call EXCEPT ![c].phase = "baseline", ![c].asOf = clock, ![c].seen = seen]
      <3> DEFINE r == [call[c] EXCEPT !.phase = "baseline", !.asOf = clock, !.seen = seen]
      <3>1. call' = [call EXCEPT ![c] = r]
        BY <2>6 DEF TypeInv, TypeOK
      <3>2. /\ r \in Requests /\ r.degraded = call[c].degraded /\ r.todo = call[c].todo
            /\ r.phase = "baseline" /\ r.at = call[c].at /\ r.asOf = clock
        BY <1>1 DEF Requests
      <3>3. r.degraded \cap r.todo = {} /\ Placed(r)
        BY <1>1, <1>3, <2>1, <3>2 DEF Placed
      <3> QED
        BY <1>1, <2>1, <3>1, <3>2, <3>3, ReplacedType DEF CallsTyped, TypeInv, TypeOK
    <2> QED
      BY <2>4, <2>5, <2>6
  <1>6. CASE ReadBaseline(c)
    <2>1. latch' = latch /\ call[c].at \in Providers
      BY <1>3, <1>6 DEF ReadBaseline, Placed
    <2>2. \/ call' = [call EXCEPT ![c].phase = "latching", ![c].asOf = 0, ![c].seen = NothingRead]
          \/ Checked(c, call[c].at, FALSE)
      BY <1>6 DEF ReadBaseline
    <2>3. CASE Checked(c, call[c].at, FALSE)
      BY <1>1, <2>1, <2>3, CheckedType DEF CallsTyped, TypeInv, TypeOK
    <2>4. CASE call' = [call EXCEPT ![c].phase = "latching", ![c].asOf = 0,
                                    ![c].seen = NothingRead]
      <3> DEFINE r == [call[c] EXCEPT !.phase = "latching", !.asOf = 0, !.seen = NothingRead]
      <3>1. call' = [call EXCEPT ![c] = r]
        BY <2>4 DEF TypeInv, TypeOK
      <3>2. NothingRead \in [Minutes -> Samplings]
        BY DEF NothingRead, NoSamples, Samplings
      <3>3. /\ r \in Requests /\ r.degraded = call[c].degraded /\ r.todo = call[c].todo
            /\ r.phase = "latching" /\ r.at = call[c].at /\ r.asOf = 0
        BY <1>1, <3>2 DEF Requests
      <3>4. r.degraded \cap r.todo = {} /\ Placed(r)
        BY <1>1, <1>3, <2>1, <3>3 DEF Placed
      <3> QED
        BY <1>1, <2>1, <3>1, <3>3, <3>4, ReplacedType DEF CallsTyped, TypeInv, TypeOK
    <2> QED
      BY <2>2, <2>3, <2>4
  <1>7. CASE SetLatch(c)
    <2>1. call[c].at \in Providers /\ Checked(c, call[c].at, TRUE)
      BY <1>3, <1>7 DEF SetLatch, Placed
    <2>2. latch' \in [Providers -> Nat]
      BY <1>1, <1>7, WindowAssumption DEF SetLatch, TypeInv, TypeOK
    <2> QED
      BY <1>1, <2>1, <2>2, CheckedType DEF CallsTyped
  <1>8. ASSUME NEW profiles \in Profilings, NEW signal \in SignalTables,
               NEW m \in Candidates, call[c].phase = "checking", latch' = latch,
               call' = [call EXCEPT ![c].phase = "calling", ![c].profiles = profiles,
                                    ![c].signal = signal, ![c].model = m]
        PROVE  CallsTyped'
    <2> DEFINE r == [call[c] EXCEPT !.phase = "calling", !.profiles = profiles,
                                    !.signal = signal, !.model = m]
    <2>1. call' = [call EXCEPT ![c] = r]
      BY <1>8 DEF TypeInv, TypeOK
    <2>2. r \in Requests /\ r.degraded \cap r.todo = {} /\ Placed(r)
      BY <1>1, <1>3 DEF Requests, Placed
    <2> QED
      BY <1>1, <1>8, <2>1, <2>2, ReplacedType DEF CallsTyped, TypeInv, TypeOK
  <1>9. CASE Choose(c)
    <2>1. ASSUME NEW profiles, NEW signal, NEW list
          PROVE  Settled(profiles, signal, list) \subseteq Candidates
      BY DEF Settled, Exploited, Trusted, Sampled
    <2> QED
      BY <1>8, <1>9, <2>1 DEF Choose
  <1>10. CASE Explore(c)
    <2>1. Explored(Candidates) \subseteq Candidates
      BY DEF Explored
    <2>2. PICK m \in Candidates :
            call' = [call EXCEPT ![c].phase = "calling", ![c].model = m]
      BY <1>10, <2>1 DEF Explore
    <2> DEFINE r == [call[c] EXCEPT !.phase = "calling", !.model = m]
    <2>3. call' = [call EXCEPT ![c] = r]
      BY <2>2 DEF TypeInv, TypeOK
    <2>4. r \in Requests /\ r.degraded \cap r.todo = {} /\ Placed(r)
      BY <1>1, <1>3 DEF Requests, Placed
    <2>5. latch' = latch
      BY <1>10 DEF Explore
    <2> QED
      BY <1>1, <2>3, <2>4, <2>5, ReplacedType DEF CallsTyped, TypeInv, TypeOK
  <1> QED
    BY <1>4, <1>5, <1>6, <1>7, <1>9, <1>10 DEF Check

(* Calls succeed or fail, and samples are pushed or lost. *)
LEMMA ServeType ==
  ASSUME TypeInv, NEW c \in Callers, Serve(c)
  PROVE  TypeInv'
  <1>1. /\ call[c] \in Requests /\ clock \in Nat /\ clock' = clock /\ latch' = latch
        /\ Placed(call[c]) /\ TypeOK
    BY DEF TypeInv, TypeOK, Serve, CallFails, CallSucceeds, PushSample, LoseSample
  <1>2. ASSUME call' = [call EXCEPT ![c] = NewRequest] PROVE CallsTyped'
    <2>1. NewRequest \in Requests /\ NewRequest.degraded \cap NewRequest.todo = {}
      BY NewRequestType
    <2>2. Placed(NewRequest)
      BY <1>1, NewRequestPlaced
    <2> QED
      BY <1>1, <1>2, <2>1, <2>2, ReplacedType DEF CallsTyped, TypeOK
  <1>3. CASE CallFails(c) \/ LoseSample(c)
    <2>1. /\ call' = [call EXCEPT ![c] = NewRequest]
          /\ UNCHANGED <<bucket, expiry, pushed, recorded>>
      BY <1>3 DEF CallFails, LoseSample, NextRequest
    <2>2. CallsTyped'
      BY <1>2, <2>1
    <2> QED
      BY <1>1, <2>1, <2>2 DEF CallsTyped, TypeInv, TypeOK
  <1>4. CASE CallSucceeds(c)
    <2>1. PICK l \in Latencies :
            call' = [call EXCEPT ![c] = [NewRequest EXCEPT !.phase = "recording",
                       !.asOf = clock, !.at = ProviderOf[call[c].model], !.latency = l]]
      BY <1>4 DEF CallSucceeds
    <2> DEFINE r == [NewRequest EXCEPT !.phase = "recording", !.asOf = clock,
                                       !.at = ProviderOf[call[c].model], !.latency = l]
    <2>2. ProviderOf[call[c].model] \in Providers
      BY <1>1, <1>4, HealthAssumption DEF CallSucceeds, Placed
    <2>3. /\ r \in Requests /\ r.degraded = NewRequest.degraded /\ r.asOf = clock
          /\ r.phase = "recording" /\ r.at \in Providers /\ r.latency \in Latencies
      BY <1>1, <2>2, NewRequestType DEF Requests
    <2>4. r.degraded \cap r.todo = {} /\ Placed(r)
      BY <1>1, <2>3, NewRequestType DEF Placed
    <2>5. CallsTyped'
      BY <1>1, <2>1, <2>3, <2>4, ReplacedType DEF CallsTyped, TypeOK
    <2>6. recorded' \in Nat /\ UNCHANGED <<bucket, expiry, pushed>>
      BY <1>1, <1>4 DEF CallSucceeds, TypeOK
    <2> QED
      BY <1>1, <2>5, <2>6 DEF CallsTyped, TypeInv, TypeOK
  <1>5. CASE PushSample(c)
    <2> DEFINE p == call[c].at
               m == Minute(call[c].asOf)
               l == call[c].latency
    <2>1. CallsTyped'
      BY <1>1, <1>2, <1>5 DEF PushSample, NextRequest
    <2>2. ASSUME NEW f \in [Providers -> [Minutes -> Samplings]]
          PROVE  [f EXCEPT ![p][m][l] = @ + 1] \in [Providers -> [Minutes -> Samplings]]
      <3>1. p \in Providers /\ l \in Latencies
        BY <1>1, <1>5 DEF PushSample, Placed
      <3>2. ASSUME NEW g \in Samplings PROVE [g EXCEPT ![l] = @ + 1] \in Samplings
        BY <3>1 DEF Samplings
      <3>3. ASSUME NEW h \in [Minutes -> Samplings]
            PROVE  [h EXCEPT ![m] = [h[m] EXCEPT ![l] = @ + 1]] \in [Minutes -> Samplings]
        BY <3>2
      <3>4. [f[p] EXCEPT ![m] = [f[p][m] EXCEPT ![l] = @ + 1]] \in [Minutes -> Samplings]
        BY <3>1, <3>3
      <3> QED
        BY <3>1, <3>4
    <2>3. expiry' \in [Providers -> [Minutes -> Nat]] /\ recorded' \in Nat
      <3>1. clock + BucketTTL \in Nat
        BY <1>1, WindowAssumption
      <3> QED
        BY <1>1, <1>5, <3>1 DEF PushSample, TypeOK
    <2>4. /\ bucket' \in [Providers -> [Minutes -> Samplings]]
          /\ pushed' \in [Providers -> [Minutes -> Samplings]]
      BY <1>1, <1>5, <2>2 DEF PushSample, TypeOK
    <2> QED
      BY <1>1, <2>1, <2>3, <2>4 DEF CallsTyped, TypeInv, TypeOK
  <1> QED
    BY <1>3, <1>4, <1>5 DEF Serve

LEMMA TickType == TypeInv /\ (Tick \/ UNCHANGED vars) => TypeInv'
  <1> SUFFICES ASSUME TypeInv, Tick \/ UNCHANGED vars PROVE TypeInv'
    OBVIOUS
  <1>1. CASE UNCHANGED vars
    BY <1>1 DEF vars, TypeInv, TypeOK, Placed
  <1>2. CASE Tick
    <2>1. clock' = clock + 1 /\ UNCHANGED <<expiry, latch, call, pushed, recorded>>
      BY <1>2 DEF Tick
    <2>2. bucket' \in [Providers -> [Minutes -> Samplings]]
      <3>1. NoSamples \in Samplings
        BY DEF NoSamples, Samplings
      <3> QED
        BY <1>2, <3>1 DEF Tick, TypeInv, TypeOK
    <2>3. \A c \in Callers : Placed(call[c])'
      BY <2>1 DEF TypeInv, TypeOK, Placed, Requests
    <2> QED
      BY <2>1, <2>2, <2>3 DEF TypeInv, TypeOK
  <1> QED
    BY <1>1, <1>2

LEMMA StepType == TypeInv /\ [Next]_vars => TypeInv'
  BY CheckType, ServeType, TickType DEF Next

LEMMA TypeInvariant == Spec => []TypeInv
  BY InitType, StepType, PTL DEF Spec

(* Every variable keeps its type, and no provider is asked about again once it
   was found degraded. *)
THEOREM TypeCorrect == Spec => []TypeOK
  <1>1. TypeInv => TypeOK
    BY DEF TypeInv
  <1> QED
    BY <1>1, TypeInvariant, PTL

-----------------------------------------------------------------------------
(* A minute begins at or before its ticks, and the next one after them. *)
LEMMA MinuteOf ==
  ASSUME NEW t \in Nat
  PROVE  /\ Minute(t) \in Nat
         /\ Minute(t) * MinuteTicks <= t
         /\ t < (Minute(t) + 1) * MinuteTicks
  <1>1. MinuteTicks \in Nat /\ MinuteTicks > 0
    BY WindowAssumption
  <1> DEFINE q == t \div MinuteTicks
  <1>2. q \in Int /\ t = q * MinuteTicks + (t % MinuteTicks)
    BY <1>1
  <1>3. t % MinuteTicks \in 0..(MinuteTicks - 1)
    BY <1>1
  <1> QED
    BY <1>1, <1>2, <1>3 DEF Minute

(* A list lives at least BucketTTL from the beginning of its minute, whenever
   it was pushed to, and until then it has every sample that was pushed. *)
Lifetime(m) == m * MinuteTicks + BucketTTL

LivesInv ==
  /\ TypeInv
  /\ \A p \in Providers, m \in Minutes :
       /\ expiry[p][m] >= Lifetime(m)
       /\ clock < Lifetime(m) => bucket[p][m] = pushed[p][m]

LEMMA LifetimeType == \A m \in Minutes : Lifetime(m) \in Nat
  <1>1. \A m \in Minutes : m * MinuteTicks \in Nat
    BY WindowAssumption DEF Minutes
  <1> QED
    BY <1>1, WindowAssumption DEF Lifetime

LEMMA InitLives == Init => LivesInv
  <1> SUFFICES ASSUME Init PROVE LivesInv
    OBVIOUS
  <1>1. TypeInv /\ bucket = pushed
    BY InitType DEF Init
  <1>2. \A p \in Providers, m \in Minutes : expiry[p][m] = Lifetime(m)
    BY DEF Init, Lifetime
  <1> QED
    BY <1>1, <1>2, LifetimeType DEF LivesInv

LEMMA PushLives ==
  ASSUME LivesInv, NEW c \in Callers, PushSample(c)
  PROVE  LivesInv'
  <1> DEFINE p == call[c].at
             k == Minute(call[c].asOf)
             l == call[c].latency
  <1>1. TypeInv' /\ TypeOK
    BY ServeType DEF LivesInv, TypeInv, Serve
  <1>2. call[c] \in Requests /\ Placed(call[c]) /\ clock \in Nat /\ clock' = clock
    BY <1>1 DEF LivesInv, TypeInv, TypeOK, PushSample
  <1>3. call[c].asOf \in Nat /\ call[c].asOf <= clock /\ p \in Providers /\ l \in Latencies
    BY <1>2 DEF PushSample, Placed, Requests
  <1>4. ASSUME NEW q \in Providers, NEW m \in Minutes
        PROVE  /\ expiry'[q][m] >= Lifetime(m)
               /\ clock' < Lifetime(m) => bucket'[q][m] = pushed'[q][m]
    <2>1. CASE q = p /\ m = k
      <3>1. expiry'[q][m] = clock + BucketTTL
        BY <1>1, <2>1 DEF PushSample, TypeOK
      <3>2. m * MinuteTicks <= clock
        <4>1. m * MinuteTicks <= call[c].asOf
          BY <1>3, <2>1, MinuteOf
        <4>2. m * MinuteTicks \in Nat
          BY WindowAssumption DEF Minutes
        <4> QED
          BY <1>2, <1>3, <4>1, <4>2
      <3>3. expiry'[q][m] >= Lifetime(m)
        <4>1. m * MinuteTicks \in Nat
          BY WindowAssumption DEF Minutes
        <4> QED
          BY <1>2, <3>1, <3>2, <4>1, WindowAssumption DEF Lifetime
      <3>4. /\ bucket'[q][m] = [bucket[q][m] EXCEPT ![l] = @ + 1]
            /\ pushed'[q][m] = [pushed[q][m] EXCEPT ![l] = @ + 1]
        BY <1>1, <2>1 DEF PushSample, TypeOK
      <3>5. clock' < Lifetime(m) => bucket[q][m] = pushed[q][m]
        BY <1>2 DEF LivesInv
      <3> QED
        BY <3>3, <3>4, <3>5
    <2>2. CASE ~(q = p /\ m = k)
      <3>1. /\ expiry'[q][m] = expiry[q][m] /\ bucket'[q][m] = bucket[q][m]
            /\ pushed'[q][m] = pushed[q][m]
        BY <1>1, <2>2 DEF PushSample, TypeOK
      <3> QED
        BY <1>2, <3>1 DEF LivesInv, Lifetime
    <2> QED
      BY <2>1, <2>2
  <1> QED
    BY <1>1, <1>4 DEF LivesInv, Lifetime

LEMMA StepLives == LivesInv /\ [Next]_vars => LivesInv'
  <1> SUFFICES ASSUME LivesInv, [Next]_vars PROVE LivesInv'
    OBVIOUS
  <1>1. TypeInv' /\ TypeOK
    BY StepType DEF LivesInv, TypeInv
  <1>2. CASE UNCHANGED <<clock, bucket, expiry, pushed>>
    BY <1>1, <1>2 DEF LivesInv, Lifetime
  <1>3. CASE Tick
    <2>1. clock' = clock + 1 /\ UNCHANGED <<expiry, pushed>> /\ clock \in Nat
      BY <1>1, <1>3 DEF Tick, TypeOK
    <2>2. ASSUME NEW p \in Providers, NEW m \in Minutes, clock' < Lifetime(m)
          PROVE  bucket'[p][m] = pushed'[p][m]
      <3>1. clock + 1 < expiry[p][m] /\ clock < Lifetime(m)
        BY <1>1, <2>1, <2>2, LifetimeType DEF LivesInv, TypeOK
      <3>2. bucket'[p][m] = bucket[p][m]
        BY <1>3, <3>1 DEF Tick
      <3> QED
        BY <2>1, <3>1, <3>2 DEF LivesInv
    <2> QED
      BY <1>1, <2>1, <2>2 DEF LivesInv, Lifetime
  <1>4. ASSUME NEW c \in Callers, Check(c) \/ CallFails(c) \/ CallSucceeds(c) \/ LoseSample(c)
        PROVE  UNCHANGED <<clock, bucket, expiry, pushed>>
    BY <1>4 DEF Check, ReadLatch, ReadCurrent, ReadBaseline, SetLatch, Choose, Explore,
                CallFails, CallSucceeds, LoseSample
  <1>5. CASE UNCHANGED vars
    BY <1>2, <1>5 DEF vars
  <1> QED
    BY <1>2, <1>3, <1>4, <1>5, PushLives DEF Next, Serve

(* While a check waits for its baseline, none of it has expired. *)
THEOREM BaselineKeptCorrect == Spec => []BaselineKept
  <1>1. LivesInv => BaselineKept
    <2> SUFFICES ASSUME LivesInv, NEW c \in Callers, call[c].phase = "baseline",
                        clock <= call[c].asOf + Slack,
                        NEW m \in BucketIds(call[c].asOf, BaselineWindow)
                 PROVE  bucket[call[c].at][m] = pushed[call[c].at][m]
      BY DEF BaselineKept
    <2> DEFINE t == call[c].asOf
               b == Minute(t)
    <2>1. call[c] \in Requests /\ Placed(call[c]) /\ clock \in Nat
      BY DEF LivesInv, TypeInv, TypeOK
    <2>2. t \in Nat /\ call[c].at \in Providers /\ m \in Minutes /\ m \in Nat
      BY <2>1 DEF Requests, Placed, BucketIds, Minutes
    <2>3. b \in Nat /\ t < (b + 1) * MinuteTicks
      BY <2>2, MinuteOf
    <2>4. b + 1 <= m + BaselineWindow
      BY <2>2, <2>3, WindowAssumption DEF BucketIds
    <2>5. (b + 1) * MinuteTicks <= (m + BaselineWindow) * MinuteTicks
      BY <2>2, <2>3, <2>4, WindowAssumption
    <2>6. (m + BaselineWindow) * MinuteTicks = m * MinuteTicks + BaselineWindow * MinuteTicks
      BY <2>2, WindowAssumption
    <2>7. /\ m * MinuteTicks \in Nat /\ BaselineWindow * MinuteTicks \in Nat
          /\ (b + 1) * MinuteTicks \in Nat
      BY <2>2, <2>3, WindowAssumption
    <2>8. clock < Lifetime(m)
      BY <2>1, <2>2, <2>3, <2>5, <2>6, <2>7, WindowAssumption DEF Lifetime, Slack
    <2> QED
      BY <2>2, <2>8 DEF LivesInv
  <1> QED
    BY <1>1, InitLives, StepLives, PTL DEF Spec

-----------------------------------------------------------------------------
(* The place of the percentile is that of one of the samples. *)
LEMMA PlaceInList ==
  ASSUME NEW n \in Nat, n >= 1
  PROVE  Rounded(PctNum * (n - 1), PctDen) \in 0..(n - 1)
  <1> DEFINE num == PctNum * (n - 1)
             q == num \div PctDen
             r == num % PctDen
  <1>1. PctNum \in Nat /\ PctDen \in Nat /\ PctDen > 0 /\ PctNum <= PctDen
    BY ComparisonAssumption
  <1>2. num \in Nat /\ num <= PctDen * (n - 1)
    <2>1. (n - 1) * PctNum \in Int /\ (n - 1) * PctNum <= (n - 1) * PctDen
      BY <1>1, ProductMonotone
    <2>2. num = (n - 1) * PctNum /\ PctDen * (n - 1) = (n - 1) * PctDen /\ num >= 0
      BY <1>1
    <2> QED
      BY <2>1, <2>2
  <1> HIDE DEF num
  <1>3. q \in Int /\ r \in 0..(PctDen - 1) /\ num = PctDen * q + r /\ q >= 0
    BY <1>1, <1>2
  <1>4. Rounded(num, PctDen) \in {q, q + 1} /\ (r = 0 => Rounded(num, PctDen) = q)
    <2>1. Rounded(num, PctDen)
            = IF 2 * r > PctDen \/ (2 * r = PctDen /\ q % 2 = 1) THEN q + 1 ELSE q
      BY DEF Rounded
    <2> HIDE DEF q, r
    <2> QED
      BY <1>1, <1>3, <2>1
  <1> HIDE DEF q, r
  <1>5. ASSUME q >= n PROVE FALSE
    <2>1. PctDen * n <= PctDen * q
      BY <1>1, <1>3, <1>5, ProductMonotone
    <2>2. PctDen * n = PctDen * (n - 1) + PctDen /\ PctDen * (n - 1) \in Int
            /\ PctDen * q \in Int
      BY <1>1, <1>3
    <2> QED
      BY <1>1, <1>2, <1>3, <2>1, <2>2
  <1>6. q = n - 1 => r = 0
    <2>1. PctDen * q \in Int
      BY <1>1, <1>3
    <2> QED
      BY <1>2, <1>3, <2>1
  <1> QED
    BY <1>3, <1>4, <1>5, <1>6 DEF num

LEMMA DrawnSamples ==
  ASSUME NEW read \in [Minutes -> Samplings]
  PROVE  /\ IsFiniteSet(Drawn(read))
         /\ \A m \in Minutes, l \in Latencies :
              read[m][l] > 0 => <<m, l, 1>> \in Drawn(read)
         /\ \A s \in Drawn(read) : s[2] \in Latencies /\ \E m \in Minutes : read[m][s[2]] > 0
  <1>1. \A m \in Minutes, l \in Latencies : read[m][l] \in Nat
    BY DEF Samplings
  <1> DEFINE part(m, l) == {m} \X {l} \X (1..read[m][l])
             parts == {part(m, l) : m \in Minutes, l \in Latencies}
             f == [p \in Minutes \X Latencies |-> part(p[1], p[2])]
  <1>2. Drawn(read) = UNION parts
    BY DEF Drawn
  <1>3. ASSUME NEW m \in Minutes, NEW l \in Latencies PROVE IsFiniteSet(part(m, l))
    <2> DEFINE g == [k \in 1..read[m][l] |-> <<m, l, k>>]
    <2>1. g \in Surjection(1..read[m][l], part(m, l))
      BY DEF Surjection
    <2>2. IsFiniteSet(1..read[m][l])
      BY <1>1, FS_Interval
    <2> HIDE DEF g, part
    <2> QED
      BY <2>1, <2>2, FS_Surjection
  <1>4. IsFiniteSet(parts)
    <2>1. IsFiniteSet(Minutes) /\ IsFiniteSet(Latencies)
      BY HealthAssumption, WindowAssumption, FS_Interval DEF Minutes
    <2>2. IsFiniteSet(Minutes \X Latencies)
      BY <2>1, FS_Product
    <2> HIDE DEF part
    <2>3. f \in Surjection(Minutes \X Latencies, parts)
      <3>1. \A m \in Minutes, l \in Latencies : <<m, l>> \in Minutes \X Latencies
                                                  /\ f[<<m, l>>] = part(m, l)
        OBVIOUS
      <3>2. f \in [Minutes \X Latencies -> parts]
        OBVIOUS
      <3>3. \A T \in parts : \E p \in Minutes \X Latencies : f[p] = T
        <4> SUFFICES ASSUME NEW m \in Minutes, NEW l \in Latencies
                     PROVE  \E p \in Minutes \X Latencies : f[p] = part(m, l)
          OBVIOUS
        <4> HIDE DEF f
        <4> QED
          BY <3>1
      <3> QED
        BY <3>2, <3>3 DEF Surjection
    <2> HIDE DEF f, parts
    <2> QED
      BY <2>2, <2>3, FS_Surjection
  <1>5. IsFiniteSet(Drawn(read))
    <2>1. \A T \in parts : IsFiniteSet(T)
      BY <1>3
    <2> HIDE DEF parts
    <2> QED
      BY <1>2, <1>4, <2>1, FS_UNION
  <1>6. ASSUME NEW m \in Minutes, NEW l \in Latencies, read[m][l] > 0
        PROVE  <<m, l, 1>> \in Drawn(read)
    <2>1. <<m, l, 1>> \in part(m, l)
      BY <1>1, <1>6
    <2> HIDE DEF part
    <2> QED
      BY <1>2, <2>1
  <1>7. ASSUME NEW s \in Drawn(read)
        PROVE  s[2] \in Latencies /\ \E m \in Minutes : read[m][s[2]] > 0
    <2>1. PICK m \in Minutes, l \in Latencies : s \in part(m, l)
      BY <1>2
    <2>2. s[2] = l /\ 1..read[m][l] # {}
      BY <2>1
    <2> QED
      BY <1>1, <2>2
  <1> QED
    BY <1>5, <1>6, <1>7

(* The percentile of some samples is one of them. *)
LEMMA P95Sampled ==
  ASSUME NEW read \in [Minutes -> Samplings], Total(read) # 0
  PROVE  P95(read) \in Latencies /\ \E m \in Minutes : read[m][P95(read)] > 0
  <1> DEFINE D == Drawn(read)
             t == Total(read)
             place == Rounded(PctNum * (t - 1), PctDen)
             upTo(l) == {s \in D : s[2] <= l}
             L == {s[2] : s \in D}
             above == {l \in Latencies : UpTo(read, l) > place}
  <1>1. IsFiniteSet(D) /\ t = Cardinality(D) /\ t \in Nat /\ t >= 1
    BY DrawnSamples, FS_CardinalityType DEF Total
  <1>2. L \subseteq Latencies /\ \A l \in L : \E m \in Minutes : read[m][l] > 0
    BY DrawnSamples
  <1>3. Latencies \subseteq Nat /\ IsFiniteSet(Latencies) /\ \A s \in D : s[2] \in L
    BY HealthAssumption
  <1>4. place \in 0..(t - 1)
    BY <1>1, PlaceInList
  <1>5. \A l : UpTo(read, l) = Cardinality(upTo(l))
    BY DEF UpTo
  <1>6. P95(read) = Min(above)
    BY DEF P95
  <1> HIDE DEF place, t, D, L
  <1>7. ASSUME NEW S \in SUBSET L, S # {} PROVE Max(S) \in S /\ \A x \in S : Max(S) >= x
    <2>1. S \in SUBSET Latencies /\ S \in SUBSET Int
      BY <1>2, <1>3
    <2>2. IsFiniteSet(S)
      BY <1>3, <2>1, FS_Subset
    <2> QED
      BY <1>7, <2>1, <2>2, MaxProperty
  <1>8. above # {}
    <2>1. L # {}
      BY <1>1, FS_EmptySet DEF L
    <2>2. Max(L) \in L /\ \A x \in L : Max(L) >= x
      BY <1>7, <2>1
    <2>3. upTo(Max(L)) = D
      <3>1. \A s \in D : s[2] <= Max(L)
        <4>1. \A l \in L : l \in Int
          BY <1>2, <1>3
        <4>2. \A l \in L : l <= Max(L)
          BY <2>2, <4>1
        <4> QED
          BY <1>3, <4>2
      <3> QED
        BY <3>1
    <2>4. UpTo(read, Max(L)) > place
      BY <1>1, <1>4, <1>5, <2>3
    <2> QED
      BY <1>2, <2>2, <2>4
  <1> DEFINE v == Min(above)
  <1>9. above \in SUBSET Nat
    BY <1>3
  <1>10. v \in above /\ \A x \in above : v <= x
    <2> HIDE DEF above
    <2> QED
      BY <1>8, <1>9, MinProperty
  <1> HIDE DEF v
  <1>11. ASSUME v \notin L PROVE FALSE
    <2> DEFINE S == {l \in L : l < v}
    <2>1. v \in Nat /\ UpTo(read, v) > place /\ \A l \in L : l \in Nat
      BY <1>2, <1>3, <1>10
    <2>2. upTo(v) # {}
      <3>1. upTo(v) = {} => UpTo(read, v) = 0
        BY <1>5, FS_EmptySet
      <3> QED
        BY <1>4, <2>1, <3>1
    <2>3. \A s \in upTo(v) : s[2] \in S
      BY <1>11, <2>1 DEF L
    <2>4. S # {} /\ S \in SUBSET L
      BY <2>2, <2>3
    <2>5. Max(S) \in S /\ \A x \in S : Max(S) >= x
      BY <1>7, <2>4
    <2>6. upTo(Max(S)) = upTo(v)
      <3>1. Max(S) < v /\ Max(S) \in Nat
        BY <2>1, <2>5
      <3>2. \A s \in D : s[2] \in Nat
        BY <2>1 DEF L
      <3>3. \A s \in D : s[2] <= v => s[2] <= Max(S)
        BY <2>3, <2>5
      <3>4. \A s \in D : s[2] <= Max(S) => s[2] <= v
        BY <2>1, <3>1, <3>2
      <3> QED
        BY <3>3, <3>4
    <2>7. Max(S) \in above
      BY <1>2, <1>5, <2>1, <2>5, <2>6
    <2> QED
      BY <1>10, <2>1, <2>5, <2>7
  <1> QED
    BY <1>2, <1>6, <1>11 DEF v

(* What a comparison that finds a provider slow has seen. *)
LEMMA SlowerSampled ==
  ASSUME NEW baseline \in [Minutes -> Samplings], NEW current \in [Minutes -> Samplings],
         SlowerThan(baseline, current)
  PROVE  \E slow, fast \in Latencies :
           /\ slow > Ratio * fast
           /\ \E m \in Minutes : current[m][slow] > 0
           /\ \E m \in Minutes : baseline[m][fast] > 0
  <1>1. P95(baseline) > 0 /\ P95(current) > Ratio * P95(baseline)
    BY DEF SlowerThan
  <1>2. Total(baseline) # 0
    BY <1>1 DEF P95
  <1>3. P95(baseline) \in Latencies /\ \E m \in Minutes : baseline[m][P95(baseline)] > 0
    BY <1>2, P95Sampled
  <1>4. P95(baseline) \in Nat /\ Ratio * P95(baseline) \in Nat
    <2>1. P95(baseline) \in Nat
      BY <1>3, HealthAssumption
    <2> HIDE DEF P95
    <2> QED
      BY <2>1, ComparisonAssumption
  <1>5. Total(current) # 0
    <2>1. Total(current) = 0 => P95(current) = 0
      BY DEF P95
    <2> QED
      BY <1>1, <1>4, <2>1
  <1>6. P95(current) \in Latencies /\ \E m \in Minutes : current[m][P95(current)] > 0
    BY <1>5, P95Sampled
  <1> QED
    BY <1>1, <1>3, <1>6

-----------------------------------------------------------------------------
(* Two calls of a provider that differ by more than the ratio. *)
Grounds(p) == \E slow, fast \in Latencied(p) : slow > Ratio * fast

(* Whatever a check has read was pushed, and whoever takes a provider for
   degraded, now or by its next step, has grounds. *)
Founded(r) ==
  /\ r.phase = "baseline" =>
       \A m \in Minutes, l \in Latencies : r.seen[m][l] > 0 => pushed[r.at][m][l] > 0
  /\ r.phase = "latching" => Grounds(r.at)
  /\ \A p \in r.degraded : Grounds(p)

AlarmInv ==
  /\ TypeInv
  /\ \A p \in Providers, m \in Minutes, l \in Latencies :
       bucket[p][m][l] > 0 => pushed[p][m][l] > 0
  /\ \A c \in Callers : Founded(call[c])
  /\ \A p \in Providers : latch[p] # 0 => Grounds(p)

LEMMA InitAlarm == Init => AlarmInv
  <1> SUFFICES ASSUME Init PROVE AlarmInv
    OBVIOUS
  <1>1. TypeInv /\ bucket = pushed /\ \A p \in Providers : latch[p] = 0
    BY InitType DEF Init
  <1>2. \A c \in Callers : call[c] = NewRequest
    BY DEF Init
  <1> QED
    BY <1>1, <1>2, NewRequestType DEF AlarmInv, Founded

(* A request that is founded may take the place of another. *)
LEMMA ReplacedFounded ==
  ASSUME AlarmInv, NEW c \in Callers, NEW r, call' = [call EXCEPT ![c] = r],
         pushed' = pushed, Founded(r)
  PROVE  \A d \in Callers : Founded(call[d])'
  <1>1. \A d \in Callers : call'[d] = IF d = c THEN r ELSE call[d]
    BY DEF AlarmInv, TypeInv, TypeOK
  <1>2. \A d \in Callers : Founded(call'[d])
    BY <1>1 DEF AlarmInv
  <1> QED
    BY <1>2 DEF Founded, Grounds, Latencied

LEMMA CheckedFounded ==
  ASSUME AlarmInv, NEW c \in Callers, NEW p \in Providers, NEW flag \in BOOLEAN,
         Checked(c, p, flag), flag => Grounds(p), pushed' = pushed
  PROVE  \A d \in Callers : Founded(call[d])'
  <1> DEFINE r == [call[c] EXCEPT !.phase = "checking", !.at = NoModel, !.asOf = 0,
                                  !.seen = NothingRead, !.todo = @ \ {p},
                                  !.degraded = IF flag THEN @ \cup {p} ELSE @]
  <1>1. call \in [Callers -> Requests] /\ call[c] \in Requests
    BY DEF AlarmInv, TypeInv, TypeOK
  <1>2. call' = [call EXCEPT ![c] = r]
    BY <1>1 DEF Checked
  <1>3. r.phase = "checking" /\ \A q \in r.degraded : q \in call[c].degraded \/ (flag /\ q = p)
    BY <1>1 DEF Requests
  <1> HIDE DEF r
  <1>4. Founded(r)
    BY <1>3 DEF AlarmInv, Founded
  <1> QED
    BY <1>2, <1>4, ReplacedFounded

(* A read shows only what was pushed. *)
LEMMA ReadPushed ==
  ASSUME AlarmInv, NEW p \in Providers, NEW t, NEW minutes,
         NEW read \in {ReadSamples(p, t, minutes), NothingRead}
  PROVE  /\ read \in [Minutes -> Samplings]
         /\ \A m \in Minutes, l \in Latencies : read[m][l] > 0 => pushed[p][m][l] > 0
  <1>1. /\ bucket[p] \in [Minutes -> Samplings] /\ NoSamples \in Samplings
        /\ \A l \in Latencies : NoSamples[l] = 0
        /\ \A m \in Minutes, l \in Latencies : bucket[p][m][l] > 0 => pushed[p][m][l] > 0
    BY DEF AlarmInv, TypeInv, TypeOK, NoSamples, Samplings
  <1>2. \A m \in Minutes : read[m] = NoSamples \/ read[m] = bucket[p][m]
    BY DEF ReadSamples, NothingRead
  <1>3. read \in [Minutes -> Samplings]
    BY <1>1 DEF ReadSamples, NothingRead
  <1>4. ASSUME NEW m \in Minutes, NEW l \in Latencies, read[m][l] > 0
        PROVE  pushed[p][m][l] > 0
    BY <1>1, <1>2, <1>4
  <1> QED
    BY <1>3, <1>4

LEMMA CheckAlarm ==
  ASSUME AlarmInv, NEW c \in Callers, Check(c)
  PROVE  AlarmInv'
  <1>1. TypeInv' /\ UNCHANGED <<clock, bucket, pushed>>
    BY CheckType DEF AlarmInv, Check, ReadLatch, ReadCurrent, ReadBaseline, SetLatch, Choose,
                     Explore
  <1>2. SUFFICES /\ \A d \in Callers : Founded(call[d])'
                 /\ \A p \in Providers : latch'[p] # 0 => Grounds(p)
    BY <1>1 DEF AlarmInv, Grounds, Latencied
  <1>3. /\ call \in [Callers -> Requests] /\ call[c] \in Requests /\ Placed(call[c])
        /\ clock \in Nat /\ latch \in [Providers -> Nat] /\ Founded(call[c])
    BY DEF AlarmInv, TypeInv, TypeOK
  <1>4. latch' = latch => \A p \in Providers : latch'[p] # 0 => Grounds(p)
    BY DEF AlarmInv
  <1>5. ASSUME NEW p \in Providers, ReadLatch(c, p)
        PROVE  /\ \A d \in Callers : Founded(call[d])'
               /\ \A q \in Providers : latch'[q] # 0 => Grounds(q)
    <2>1. latch' = latch
      BY <1>5 DEF ReadLatch
    <2>2. CASE Checked(c, p, clock < latch[p])
      <3> DEFINE flag == clock < latch[p]
      <3>1. flag \in BOOLEAN /\ (flag => Grounds(p))
        BY <1>3 DEF AlarmInv
      <3> HIDE DEF flag
      <3>2. Checked(c, p, flag)
        BY <2>2 DEF flag
      <3> QED
        BY <1>1, <1>4, <2>1, <3>1, <3>2, CheckedFounded
    <2>3. CASE Checked(c, p, FALSE)
      BY <1>1, <1>4, <2>1, <2>3, CheckedFounded
    <2>4. CASE call' = [call EXCEPT ![c].phase = "current", ![c].at = p, ![c].asOf = clock]
      <3> DEFINE r == [call[c] EXCEPT !.phase = "current", !.at = p, !.asOf = clock]
      <3>1. call' = [call EXCEPT ![c] = r]
        BY <1>3, <2>4
      <3>2. r.phase = "current" /\ r.degraded = call[c].degraded
        BY <1>3 DEF Requests
      <3> HIDE DEF r
      <3>3. Founded(r)
        BY <1>3, <3>2 DEF Founded
      <3> QED
        BY <1>1, <1>4, <2>1, <3>1, <3>3, ReplacedFounded
    <2> QED
      BY <1>5, <2>2, <2>3, <2>4 DEF ReadLatch
  <1>6. CASE ReadCurrent(c)
    <2>1. latch' = latch /\ call[c].at \in Providers
      BY <1>3, <1>6 DEF ReadCurrent, Placed
    <2>2. PICK seen \in {ReadSamples(call[c].at, call[c].asOf, CurrentWindow), NothingRead} :
            \/ call' = [call EXCEPT ![c].phase = "baseline", ![c].asOf = clock, ![c].seen = seen]
            \/ Checked(c, call[c].at, FALSE)
      BY <1>6 DEF ReadCurrent
    <2>3. CASE Checked(c, call[c].at, FALSE)
      BY <1>1, <1>4, <2>1, <2>3, CheckedFounded
    <2>4. CASE call' = [call EXCEPT ![c].phase = "baseline", ![c].asOf = clock, ![c].seen = seen]
      <3> DEFINE r == [call[c] EXCEPT !.phase = "baseline", !.asOf = clock, !.seen = seen]
      <3>1. call' = [call EXCEPT ![c] = r]
        BY <1>3, <2>4
      <3>2. /\ r.phase = "baseline" /\ r.degraded = call[c].degraded /\ r.at = call[c].at
            /\ r.seen = seen
        BY <1>3 DEF Requests
      <3>3. \A m \in Minutes, l \in Latencies : seen[m][l] > 0 => pushed[call[c].at][m][l] > 0
        BY <2>1, ReadPushed
      <3> HIDE DEF r
      <3>4. Founded(r)
        BY <1>3, <3>2, <3>3 DEF Founded
      <3> QED
        BY <1>1, <1>4, <2>1, <3>1, <3>4, ReplacedFounded
    <2> QED
      BY <2>2, <2>3, <2>4
  <1>7. CASE ReadBaseline(c)
    <2>1. latch' = latch /\ call[c].at \in Providers /\ call[c].phase = "baseline"
      BY <1>3, <1>7 DEF ReadBaseline, Placed
    <2>2. PICK baseline \in {ReadSamples(call[c].at, call[c].asOf, BaselineWindow), NothingRead} :
            \/ /\ SlowerThan(baseline, call[c].seen)
               /\ call' = [call EXCEPT ![c].phase = "latching", ![c].asOf = 0,
                                       ![c].seen = NothingRead]
            \/ Checked(c, call[c].at, FALSE)
      BY <1>7 DEF ReadBaseline
    <2>3. CASE Checked(c, call[c].at, FALSE)
      BY <1>1, <1>4, <2>1, <2>3, CheckedFounded
    <2>4. CASE /\ SlowerThan(baseline, call[c].seen)
               /\ call' = [call EXCEPT ![c].phase = "latching", ![c].asOf = 0,
                                       ![c].seen = NothingRead]
      <3> DEFINE r == [call[c] EXCEPT !.phase = "latching", !.asOf = 0, !.seen = NothingRead]
      <3>1. call' = [call EXCEPT ![c] = r]
        BY <1>3, <2>4
      <3>2. r.phase = "latching" /\ r.degraded = call[c].degraded /\ r.at = call[c].at
        BY <1>3 DEF Requests
      <3>3. call[c].seen \in [Minutes -> Samplings]
        BY <1>3 DEF Requests
      <3>4. /\ baseline \in [Minutes -> Samplings]
            /\ \A m \in Minutes, l \in Latencies :
                 baseline[m][l] > 0 => pushed[call[c].at][m][l] > 0
        BY <2>1, ReadPushed
      <3>5. PICK slow \in Latencies, fast \in Latencies :
              /\ slow > Ratio * fast
              /\ \E m \in Minutes : call[c].seen[m][slow] > 0
              /\ \E m \in Minutes : baseline[m][fast] > 0
        BY <2>4, <3>3, <3>4, SlowerSampled
      <3>6. slow \in Latencied(call[c].at) /\ fast \in Latencied(call[c].at)
        BY <1>3, <2>1, <3>4, <3>5 DEF Founded, Latencied
      <3>7. Grounds(call[c].at)
        BY <3>5, <3>6 DEF Grounds
      <3> HIDE DEF r
      <3>8. Founded(r)
        BY <1>3, <3>2, <3>7 DEF Founded
      <3> QED
        BY <1>1, <1>4, <2>1, <3>1, <3>8, ReplacedFounded
    <2> QED
      BY <2>2, <2>3, <2>4
  <1>8. CASE SetLatch(c)
    <2>1. call[c].at \in Providers /\ Checked(c, call[c].at, TRUE) /\ Grounds(call[c].at)
      BY <1>3, <1>8 DEF SetLatch, Placed, Founded
    <2>2. \A d \in Callers : Founded(call[d])'
      BY <1>1, <2>1, CheckedFounded
    <2>3. \A p \in Providers : latch'[p] # 0 => latch[p] # 0 \/ p = call[c].at
      BY <1>3, <1>8 DEF SetLatch
    <2> QED
      BY <2>1, <2>2, <2>3 DEF AlarmInv
  <1>9. CASE Choose(c) \/ Explore(c)
    <2>1. latch' = latch
      BY <1>9 DEF Choose, Explore
    <2>2. PICK r : /\ call' = [call EXCEPT ![c] = r]
                   /\ r.phase = "calling" /\ r.degraded = call[c].degraded
      <3>1. CASE Choose(c)
        <4>1. PICK profiles \in Profilings, signal \in SignalTables,
                   list \in SetToSeqs(Candidates) :
                \E m \in Settled(profiles, signal, Filtered(list, call[c].degraded)) :
                  call' = [call EXCEPT ![c].phase = "calling", ![c].profiles = profiles,
                                       ![c].signal = signal, ![c].model = m]
          BY <3>1, Zenon DEF Choose
        <4>2. PICK m \in Settled(profiles, signal, Filtered(list, call[c].degraded)) :
                call' = [call EXCEPT ![c].phase = "calling", ![c].profiles = profiles,
                                     ![c].signal = signal, ![c].model = m]
          BY <4>1
        <4> DEFINE r == [call[c] EXCEPT !.phase = "calling", !.profiles = profiles,
                                        !.signal = signal, !.model = m]
        <4>3. call' = [call EXCEPT ![c] = r]
          BY <1>3, <4>2
        <4>4. r.phase = "calling" /\ r.degraded = call[c].degraded
          BY <1>3 DEF Requests
        <4> HIDE DEF r
        <4> QED
          BY <4>3, <4>4
      <3>2. CASE Explore(c)
        <4>1. PICK m : call' = [call EXCEPT ![c].phase = "calling", ![c].model = m]
          BY <3>2, Zenon DEF Explore
        <4> DEFINE r == [call[c] EXCEPT !.phase = "calling", !.model = m]
        <4>2. call' = [call EXCEPT ![c] = r]
          BY <1>3, <4>1
        <4>3. r.phase = "calling" /\ r.degraded = call[c].degraded
          BY <1>3 DEF Requests
        <4> HIDE DEF r
        <4> QED
          BY <4>2, <4>3
      <3> QED
        BY <1>9, <3>1, <3>2
    <2>3. Founded(r)
      BY <1>3, <2>2 DEF Founded
    <2> QED
      BY <1>1, <1>4, <2>1, <2>2, <2>3, ReplacedFounded
  <1> QED
    BY <1>5, <1>6, <1>7, <1>8, <1>9 DEF Check

LEMMA ServeAlarm ==
  ASSUME AlarmInv, NEW c \in Callers, Serve(c)
  PROVE  AlarmInv'
  <1>1. TypeInv' /\ latch' = latch /\ TypeOK
    BY ServeType DEF AlarmInv, TypeInv, Serve, CallFails, CallSucceeds, PushSample, LoseSample
  <1>2. /\ \A p \in Providers, m \in Minutes, l \in Latencies :
             /\ bucket'[p][m][l] > 0 => pushed'[p][m][l] > 0
             /\ pushed[p][m][l] > 0 => pushed'[p][m][l] > 0
    <2>1. CASE UNCHANGED <<bucket, pushed>>
      BY <2>1 DEF AlarmInv
    <2>2. CASE PushSample(c)
      <3> DEFINE p == call[c].at
                 m == Minute(call[c].asOf)
                 l == call[c].latency
      <3>1. /\ bucket' = [bucket EXCEPT ![p][m][l] = @ + 1]
            /\ pushed' = [pushed EXCEPT ![p][m][l] = @ + 1]
        BY <2>2 DEF PushSample
      <3> HIDE DEF p, m, l
      <3>2. \A q \in Providers, k \in Minutes, d \in Latencies :
              bucket[q][k][d] \in Nat /\ pushed[q][k][d] \in Nat
        BY <1>1 DEF TypeOK, Samplings
      <3>3. ASSUME NEW f \in [Providers -> [Minutes -> Samplings]],
                   NEW q \in Providers, NEW k \in Minutes, NEW d \in Latencies
            PROVE  [f EXCEPT ![p][m][l] = @ + 1][q][k][d]
                     = IF q = p /\ k = m /\ d = l THEN f[q][k][d] + 1 ELSE f[q][k][d]
        BY DEF Samplings
      <3>4. \A q \in Providers, k \in Minutes, d \in Latencies :
              /\ bucket'[q][k][d]
                   = IF q = p /\ k = m /\ d = l THEN bucket[q][k][d] + 1 ELSE bucket[q][k][d]
              /\ pushed'[q][k][d]
                   = IF q = p /\ k = m /\ d = l THEN pushed[q][k][d] + 1 ELSE pushed[q][k][d]
        <4>1. /\ bucket \in [Providers -> [Minutes -> Samplings]]
              /\ pushed \in [Providers -> [Minutes -> Samplings]]
          BY <1>1 DEF TypeOK
        <4>2. \A q \in Providers, k \in Minutes, d \in Latencies :
                bucket'[q][k][d]
                  = IF q = p /\ k = m /\ d = l THEN bucket[q][k][d] + 1 ELSE bucket[q][k][d]
          BY <3>1, <3>3, <4>1
        <4>3. \A q \in Providers, k \in Minutes, d \in Latencies :
                pushed'[q][k][d]
                  = IF q = p /\ k = m /\ d = l THEN pushed[q][k][d] + 1 ELSE pushed[q][k][d]
          BY <3>1, <3>3, <4>1
        <4> QED
          BY <4>2, <4>3
      <3> QED
        BY <3>2, <3>4 DEF AlarmInv
    <2> QED
      BY <2>1, <2>2 DEF Serve, CallFails, CallSucceeds, LoseSample
  <1>3. \A p \in Providers : Grounds(p) => Grounds(p)'
    BY <1>2 DEF Grounds, Latencied
  <1>4. PICK r : /\ call' = [call EXCEPT ![c] = r]
                 /\ r.phase \in {"checking", "recording"} /\ r.degraded = {}
    <2>1. CASE CallSucceeds(c)
      <3>1. PICK l \in Latencies :
              call' = [call EXCEPT ![c] = [NewRequest EXCEPT !.phase = "recording",
                         !.asOf = clock, !.at = ProviderOf[call[c].model], !.latency = l]]
        BY <2>1 DEF CallSucceeds
      <3> DEFINE r == [NewRequest EXCEPT !.phase = "recording", !.asOf = clock,
                                         !.at = ProviderOf[call[c].model], !.latency = l]
      <3>2. r.phase = "recording" /\ r.degraded = {}
        BY DEF NewRequest
      <3> HIDE DEF r
      <3> QED
        BY <3>1, <3>2 DEF r
    <2>2. CASE CallFails(c) \/ PushSample(c) \/ LoseSample(c)
      BY <2>2, NewRequestType DEF CallFails, PushSample, LoseSample, NextRequest
    <2> QED
      BY <2>1, <2>2 DEF Serve
  <1>5. ASSUME NEW d \in Callers PROVE Founded(call[d])'
    <2>1. call \in [Callers -> Requests] /\ call[d] \in Requests /\ Founded(call[d])
            /\ Placed(call[d])
      BY DEF AlarmInv, TypeInv, TypeOK
    <2>2. CASE d = c
      <3>1. call'[d] = r
        BY <1>4, <2>1, <2>2
      <3> QED
        BY <1>4, <3>1 DEF Founded
    <2>3. CASE d # c
      <3>1. call'[d] = call[d]
        BY <1>4, <2>1, <2>3
      <3>2. call[d].phase \in {"baseline", "latching"} => call[d].at \in Providers
        BY <2>1 DEF Placed
      <3>3. call[d].degraded \subseteq Providers
        BY <2>1 DEF Requests
      <3> QED
        BY <1>2, <1>3, <2>1, <3>1, <3>2, <3>3 DEF Founded
    <2> QED
      BY <2>2, <2>3
  <1> QED
    BY <1>1, <1>2, <1>3, <1>5 DEF AlarmInv

LEMMA StepAlarm == AlarmInv /\ [Next]_vars => AlarmInv'
  <1> SUFFICES ASSUME AlarmInv, Tick \/ UNCHANGED vars PROVE AlarmInv'
    BY CheckAlarm, ServeAlarm DEF Next
  <1>1. TypeInv' /\ TypeOK
    BY TickType DEF AlarmInv, TypeInv
  <1>2. UNCHANGED <<call, pushed, latch>>
    BY DEF Tick, vars
  <1>3. \A p \in Providers, m \in Minutes, l \in Latencies :
          bucket'[p][m][l] > 0 => bucket[p][m][l] > 0
    BY <1>1 DEF Tick, vars, NoSamples
  <1> QED
    BY <1>1, <1>2, <1>3 DEF AlarmInv, Founded, Grounds, Latencied

(* Whatever reads fail, samples get lost and minutes expire, a provider is taken
   for degraded only if two of its calls differ by more than the ratio. *)
THEOREM NoFalseAlarmCorrect == Spec => []NoFalseAlarm
  <1>1. AlarmInv => NoFalseAlarm
    BY DEF AlarmInv, Founded, Grounds, NoFalseAlarm
  <1> QED
    BY <1>1, InitAlarm, StepAlarm, PTL DEF Spec

-----------------------------------------------------------------------------
(* The filter loses no model of the list, and puts all those of healthy
   providers before those of degraded ones. *)
LEMMA FilteredOrder ==
  ASSUME NEW S, NEW list \in Seq(S), NEW bad, NEW p \in DOMAIN list, NEW q \in DOMAIN list,
         NEW m, NEW k, list[p] = m, list[q] = k,
         ProviderOf[m] \in bad, ProviderOf[k] \notin bad
  PROVE  \E i, j \in DOMAIN Filtered(list, bad) :
           Filtered(list, bad)[i] = m /\ Filtered(list, bad)[j] = k /\ j < i
  <1> DEFINE Good == {i \in DOMAIN list : ProviderOf[list[i]] \notin bad}
             Bad == {i \in DOMAIN list : ProviderOf[list[i]] \in bad}
             g == AtPlaces(list, Good)
             b == AtPlaces(list, Bad)
  <1>1. p \in Bad /\ q \in Good /\ Good \in SUBSET (DOMAIN list) /\ Bad \in SUBSET (DOMAIN list)
    OBVIOUS
  <1>2. Filtered(list, bad) = g \o b
    BY DEF Filtered
  <1> HIDE DEF Good, Bad
  <1>3. g \in Seq(S) /\ \E j \in 1..Len(g) : g[j] = k
    BY <1>1, PlacesList
  <1>4. b \in Seq(S) /\ \E i \in 1..Len(b) : b[i] = m
    BY <1>1, PlacesList
  <1> HIDE DEF g, b
  <1>5. PICK j \in 1..Len(g) : g[j] = k
    BY <1>3
  <1>6. PICK i \in 1..Len(b) : b[i] = m
    BY <1>4
  <1>7. /\ j \in DOMAIN (g \o b) /\ (g \o b)[j] = k
        /\ Len(g) + i \in DOMAIN (g \o b) /\ (g \o b)[Len(g) + i] = m
        /\ j < Len(g) + i
    BY <1>3, <1>4, <1>5, <1>6
  <1> QED
    BY <1>2, <1>7

LEMMA TrustedCandidates ==
  ASSUME NEW P \in Profilings, Trusted(P, Candidates) # {}
  PROVE  Competitors(P, Trusted(P, Candidates))
  <1>1. IsFiniteSet(Trusted(P, Candidates)) /\ Trusted(P, Candidates) \subseteq Models
    BY HealthAssumption, FS_Subset DEF Trusted, Sampled
  <1>2. \A m \in Trusted(P, Candidates) :
          P[m] \in ProfileType /\ P[m].success >= MinSuccess
    BY HealthAssumption DEF Trusted, Sampled
  <1>3. \A m \in Trusted(P, Candidates) :
          P[m].quality \in Nat /\ P[m].cost \in Nat /\ P[m].success \in MinSuccess..100
    BY <1>2 DEF ProfileType, MinSuccess
  <1> QED
    BY <1>1, <1>3 DEF Competitors

(* A score is an integer, whatever was learned. *)
LEMMA ScoreType ==
  ASSUME NEW P \in Profilings, NEW T, T \subseteq Models, Competitors(P, T),
         NEW signal \in SignalTables, NEW m \in T
  PROVE  FitnessWithSignal(P, T, Complexity, signal, m) \in Int
  <1> DEFINE a == Spread(Costs(P, T))
             b == Spread(Qualities(P, T))
  <1>1. a \in Nat /\ b \in Nat
    BY RangesPositive
  <1>2. signal[m] \in Int
    BY HealthAssumption
  <1>3. Fitness(P, T, Complexity, m) \in Int
    BY HealthAssumption, FitnessType
  <1>4. FitnessWithSignal(P, T, Complexity, signal, m)
          = Fitness(P, T, Complexity, m) + 100 * signal[m] * b * a
    BY DEF FitnessWithSignal
  <1>5. 100 * signal[m] * b * a \in Int
    <2> HIDE DEF a, b
    <2> QED
      BY <1>1, <1>2
  <1> HIDE DEF a, b
  <1> QED
    BY <1>3, <1>4, <1>5

(* A model of a degraded provider is settled on only if it beats every trusted
   model of a healthy one. *)
LEMMA SettledBeats ==
  ASSUME NEW P \in Profilings, NEW signal \in SignalTables,
         NEW list \in SetToSeqs(Candidates), NEW bad,
         NEW m \in Settled(P, signal, Filtered(list, bad)), ProviderOf[m] \in bad,
         NEW k \in Trusted(P, Candidates), ProviderOf[k] \notin bad
  PROVE  FitnessWithSignal(P, Trusted(P, Candidates), Complexity, signal, k)
           < FitnessWithSignal(P, Trusted(P, Candidates), Complexity, signal, m)
  <1> DEFINE T == Trusted(P, Candidates)
             F(j) == FitnessWithSignal(P, T, Complexity, signal, j)
             f == Filtered(list, bad)
             best == Exploited(P, T, Complexity, signal)
  <1>1. T # {} /\ T \subseteq Candidates /\ T \subseteq Models
    BY HealthAssumption DEF Trusted, Sampled
  <1>2. Competitors(P, T)
    BY <1>1, TrustedCandidates
  <1>3. m \in best /\ \A i, j \in DOMAIN f : f[i] = m /\ f[j] \in best => i <= j
    BY <1>1, Zenon DEF Settled
  <1>4. best = {j \in T : \A i \in T : F(i) <= F(j)}
    BY DEF Exploited
  <1> HIDE DEF T, best
  <1>5. k \in T
    BY DEF T
  <1>6. \A j \in T : F(j) \in Int
    BY <1>1, <1>2, ScoreType
  <1> HIDE DEF F
  <1>7. m \in T /\ \A i \in T : F(i) <= F(m)
    BY <1>3, <1>4, <1>6
  <1>8. ASSUME ~(F(k) < F(m)) PROVE FALSE
    <2>1. \A i \in T : F(i) <= F(k)
      BY <1>5, <1>6, <1>7, <1>8
    <2>2. k \in best
      BY <1>4, <1>5, <1>6, <2>1
    <2>3. /\ list \in Seq(Candidates)
          /\ \E i \in DOMAIN list : list[i] = m
          /\ \E i \in DOMAIN list : list[i] = k
      <3>1. m \in Candidates /\ k \in Candidates
        BY <1>1, <1>5, <1>7
      <3>2. /\ list \in Seq(Candidates)
            /\ \A c \in Candidates : \E i \in 1..Len(list) : list[i] = c
        BY HealthAssumption, ListOfSet
      <3>3. DOMAIN list = 1..Len(list)
        BY <3>2
      <3> QED
        BY <3>1, <3>2, <3>3
    <2>4. PICK i, j \in DOMAIN f : f[i] = m /\ f[j] = k /\ j < i
      <3>1. PICK p \in DOMAIN list, q \in DOMAIN list : list[p] = m /\ list[q] = k
        BY <2>3
      <3>2. list \in Seq(Candidates)
        BY <2>3
      <3> QED
        BY <3>1, <3>2, FilteredOrder
    <2>5. i <= j
      BY <1>3, <2>2, <2>4
    <2>6. DOMAIN f \subseteq Int
      <3>1. f \in Seq(Candidates)
        <4> DEFINE Good == {n \in DOMAIN list : ProviderOf[list[n]] \notin bad}
                   Bad == {n \in DOMAIN list : ProviderOf[list[n]] \in bad}
        <4>1. f = AtPlaces(list, Good) \o AtPlaces(list, Bad)
          BY DEF Filtered
        <4>2. Good \in SUBSET (DOMAIN list) /\ Bad \in SUBSET (DOMAIN list)
          OBVIOUS
        <4> HIDE DEF Good, Bad, f
        <4>3. AtPlaces(list, Good) \in Seq(Candidates) /\ AtPlaces(list, Bad) \in Seq(Candidates)
          BY <2>3, <4>2, PlacesList
        <4> QED
          BY <4>1, <4>3
      <3> HIDE DEF f
      <3> QED
        BY <3>1
    <2> HIDE DEF f
    <2> QED
      BY <2>4, <2>5, <2>6
  <1> QED
    BY <1>8 DEF F, T

(* Only who chose keeps the profiles it chose by. *)
TiesInv ==
  /\ TypeInv
  /\ \A c \in Callers : call[c].phase # "calling" => call[c].profiles = NoProfile
  /\ HealthBreaksTies

(* What HealthBreaksTies says of a request. *)
Beats(r) ==
  r.phase = "calling" /\ r.profiles # NoProfile /\ ProviderOf[r.model] \in r.degraded =>
    \A m \in Trusted(r.profiles, Candidates) :
      ProviderOf[m] \notin r.degraded =>
        FitnessWithSignal(r.profiles, Trusted(r.profiles, Candidates), Complexity, r.signal, m)
          < FitnessWithSignal(r.profiles, Trusted(r.profiles, Candidates), Complexity,
                              r.signal, r.model)

LEMMA BeatsTies == HealthBreaksTies <=> \A c \in Callers : Beats(call[c])
  BY DEF HealthBreaksTies, Beats, Chose, Degraded

LEMMA ReplacedTies ==
  ASSUME TiesInv, NEW c \in Callers, NEW r, call' = [call EXCEPT ![c] = r],
         r.phase # "calling" => r.profiles = NoProfile, Beats(r)
  PROVE  /\ \A d \in Callers : call'[d].phase # "calling" => call'[d].profiles = NoProfile
         /\ HealthBreaksTies'
  <1>1. \A d \in Callers : call'[d] = IF d = c THEN r ELSE call[d]
    BY DEF TiesInv, TypeInv, TypeOK
  <1>2. \A d \in Callers : Beats(call'[d])
    BY <1>1, BeatsTies DEF TiesInv
  <1>3. HealthBreaksTies'
    BY <1>2, Zenon DEF HealthBreaksTies, Beats, Chose, Degraded
  <1> QED
    BY <1>1, <1>3 DEF TiesInv

LEMMA StepTies == TiesInv /\ [Next]_vars => TiesInv'
  <1> SUFFICES ASSUME TiesInv, [Next]_vars PROVE TiesInv'
    OBVIOUS
  <1>1. TypeInv' /\ TypeOK
    BY StepType DEF TiesInv, TypeInv
  <1>2. CASE Tick \/ UNCHANGED vars
    <2>1. call' = call
      BY <1>2 DEF Tick, vars
    <2>2. HealthBreaksTies'
      BY <2>1 DEF HealthBreaksTies, TiesInv, Chose, Degraded
    <2> QED
      BY <1>1, <2>1, <2>2 DEF TiesInv
  <1>3. ASSUME NEW c \in Callers, NEW r, call' = [call EXCEPT ![c] = r],
               r.phase # "calling", r.profiles = NoProfile
        PROVE  TiesInv'
    <2>1. Beats(r)
      BY <1>3 DEF Beats
    <2> QED
      BY <1>1, <1>3, <2>1, ReplacedTies DEF TiesInv
  <1>4. ASSUME NEW c \in Callers, Serve(c) PROVE TiesInv'
    <2>1. NewRequest.phase # "calling" /\ NewRequest.profiles = NoProfile
      BY DEF NewRequest
    <2>2. CASE CallSucceeds(c)
      <3>1. PICK l \in Latencies :
              call' = [call EXCEPT ![c] = [NewRequest EXCEPT !.phase = "recording",
                         !.asOf = clock, !.at = ProviderOf[call[c].model], !.latency = l]]
        BY <2>2 DEF CallSucceeds
      <3> DEFINE r == [NewRequest EXCEPT !.phase = "recording", !.asOf = clock,
                                         !.at = ProviderOf[call[c].model], !.latency = l]
      <3>2. r.phase # "calling" /\ r.profiles = NoProfile
        BY DEF NewRequest
      <3> HIDE DEF r
      <3>3. call' = [call EXCEPT ![c] = r]
        BY <3>1 DEF r
      <3> QED
        BY <1>3, <3>2, <3>3
    <2>3. CASE CallFails(c) \/ PushSample(c) \/ LoseSample(c)
      <3>1. call' = [call EXCEPT ![c] = NewRequest]
        BY <2>3 DEF CallFails, PushSample, LoseSample, NextRequest
      <3> QED
        BY <1>3, <2>1, <3>1
    <2> QED
      BY <1>4, <2>2, <2>3 DEF Serve
  <1>5. ASSUME NEW c \in Callers, Check(c) PROVE TiesInv'
    <2>1. call \in [Callers -> Requests] /\ call[c] \in Requests
      BY <1>1 DEF TypeOK
    <2>2. call[c].phase # "calling" /\ call[c].profiles = NoProfile
      BY <1>5 DEF Check, ReadLatch, ReadCurrent, ReadBaseline, SetLatch, Choose, Explore, TiesInv
    <2>3. ASSUME NEW p, NEW flag \in BOOLEAN, Checked(c, p, flag) PROVE TiesInv'
      <3> DEFINE r == [call[c] EXCEPT !.phase = "checking", !.at = NoModel, !.asOf = 0,
                                      !.seen = NothingRead, !.todo = @ \ {p},
                                      !.degraded = IF flag THEN @ \cup {p} ELSE @]
      <3>1. call' = [call EXCEPT ![c] = r]
        BY <2>1, <2>3 DEF Checked
      <3>2. r.phase # "calling" /\ r.profiles = NoProfile
        BY <2>1, <2>2 DEF Requests
      <3> HIDE DEF r
      <3> QED
        BY <1>3, <3>1, <3>2
    <2>4. ASSUME NEW phase, NEW at, NEW asOf, NEW seen, phase # "calling",
                 call' = [call EXCEPT ![c].phase = phase, ![c].at = at, ![c].asOf = asOf,
                                      ![c].seen = seen]
          PROVE  TiesInv'
      <3> DEFINE r == [call[c] EXCEPT !.phase = phase, !.at = at, !.asOf = asOf, !.seen = seen]
      <3>1. call' = [call EXCEPT ![c] = r]
        BY <2>1, <2>4
      <3>2. r.phase # "calling" /\ r.profiles = NoProfile
        BY <2>1, <2>2, <2>4 DEF Requests
      <3> HIDE DEF r
      <3> QED
        BY <1>3, <3>1, <3>2
    <2>5. ASSUME NEW p \in Providers, ReadLatch(c, p) PROVE TiesInv'
      <3>1. (clock < latch[p]) \in BOOLEAN
        OBVIOUS
      <3>2. CASE call' = [call EXCEPT ![c].phase = "current", ![c].at = p, ![c].asOf = clock]
        <4>1. call' = [call EXCEPT ![c].phase = "current", ![c].at = p, ![c].asOf = clock,
                                   ![c].seen = call[c].seen]
          BY <2>1, <3>2 DEF Requests
        <4> QED
          BY <2>4, <4>1
      <3>3. CASE Checked(c, p, clock < latch[p])
        BY <2>3, <3>1, <3>3
      <3>4. CASE Checked(c, p, FALSE)
        BY <2>3, <3>4
      <3> QED
        BY <2>5, <3>2, <3>3, <3>4 DEF ReadLatch
    <2>6. CASE ReadCurrent(c)
      <3>1. PICK seen : \/ call' = [call EXCEPT ![c].phase = "baseline", ![c].asOf = clock,
                                                ![c].seen = seen]
                        \/ Checked(c, call[c].at, FALSE)
        BY <2>6 DEF ReadCurrent
      <3>2. CASE call' = [call EXCEPT ![c].phase = "baseline", ![c].asOf = clock,
                                      ![c].seen = seen]
        <4>1. call' = [call EXCEPT ![c].phase = "baseline", ![c].at = call[c].at,
                                   ![c].asOf = clock, ![c].seen = seen]
          BY <2>1, <3>2 DEF Requests
        <4> QED
          BY <2>4, <4>1
      <3> QED
        BY <2>3, <3>1, <3>2
    <2>7. CASE ReadBaseline(c)
      <3>1. CASE call' = [call EXCEPT ![c].phase = "latching", ![c].asOf = 0,
                                      ![c].seen = NothingRead]
        <4>1. call' = [call EXCEPT ![c].phase = "latching", ![c].at = call[c].at,
                                   ![c].asOf = 0, ![c].seen = NothingRead]
          BY <2>1, <3>1 DEF Requests
        <4> QED
          BY <2>4, <4>1
      <3> QED
        BY <2>3, <2>7, <3>1 DEF ReadBaseline
    <2>8. CASE SetLatch(c)
      BY <2>3, <2>8 DEF SetLatch
    <2>9. CASE Choose(c)
      <3>1. PICK profiles \in Profilings, signal \in SignalTables,
                 list \in SetToSeqs(Candidates) :
              \E m \in Settled(profiles, signal, Filtered(list, call[c].degraded)) :
                call' = [call EXCEPT ![c].phase = "calling", ![c].profiles = profiles,
                                     ![c].signal = signal, ![c].model = m]
        BY <2>9, Zenon DEF Choose
      <3>2. PICK m \in Settled(profiles, signal, Filtered(list, call[c].degraded)) :
              call' = [call EXCEPT ![c].phase = "calling", ![c].profiles = profiles,
                                   ![c].signal = signal, ![c].model = m]
        BY <3>1
      <3> DEFINE r == [call[c] EXCEPT !.phase = "calling", !.profiles = profiles,
                                      !.signal = signal, !.model = m]
      <3>3. call' = [call EXCEPT ![c] = r]
        BY <2>1, <3>2
      <3>4. /\ r.phase = "calling" /\ r.profiles = profiles /\ r.signal = signal
            /\ r.model = m /\ r.degraded = call[c].degraded
        BY <2>1 DEF Requests
      <3> HIDE DEF r
      <3>5. ProviderOf[m] \in call[c].degraded =>
              \A k \in Trusted(profiles, Candidates) :
                ProviderOf[k] \notin call[c].degraded =>
                  FitnessWithSignal(profiles, Trusted(profiles, Candidates), Complexity,
                                    signal, k)
                    < FitnessWithSignal(profiles, Trusted(profiles, Candidates), Complexity,
                                        signal, m)
        BY SettledBeats
      <3>6. Beats(r)
        BY <3>4, <3>5, Zenon DEF Beats
      <3> QED
        BY <1>1, <3>3, <3>4, <3>6, ReplacedTies DEF TiesInv
    <2>10. CASE Explore(c)
      <3>1. PICK m : call' = [call EXCEPT ![c].phase = "calling", ![c].model = m]
        BY <2>10, Zenon DEF Explore
      <3> DEFINE r == [call[c] EXCEPT !.phase = "calling", !.model = m]
      <3>2. call' = [call EXCEPT ![c] = r]
        BY <2>1, <3>1
      <3>3. r.phase = "calling" /\ r.profiles = NoProfile
        BY <2>1, <2>2 DEF Requests
      <3> HIDE DEF r
      <3>4. Beats(r)
        BY <3>3 DEF Beats
      <3> QED
        BY <1>1, <3>2, <3>3, <3>4, ReplacedTies DEF TiesInv
    <2> QED
      BY <1>5, <2>5, <2>6, <2>7, <2>8, <2>9, <2>10 DEF Check
  <1> QED
    BY <1>2, <1>4, <1>5 DEF Next

(* Filtering decides nothing but ties: a model of a degraded provider is chosen
   by the profiles only if no trusted model of a healthy one scores as high, what
   was learned of the models included. *)
THEOREM HealthBreaksTiesCorrect == Spec => []HealthBreaksTies
  <1>1. Init => TiesInv
    <2> SUFFICES ASSUME Init PROVE TiesInv
      OBVIOUS
    <2>1. \A c \in Callers : call[c].phase = "checking" /\ call[c].profiles = NoProfile
      BY DEF Init, NewRequest
    <2> QED
      BY <2>1, InitType DEF TiesInv, HealthBreaksTies, Chose
  <1>2. TiesInv => HealthBreaksTies
    BY DEF TiesInv
  <1> QED
    BY <1>1, <1>2, StepTies, PTL DEF Spec

=============================================================================
