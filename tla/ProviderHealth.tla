--------------------------- MODULE ProviderHealth ---------------------------
(***************************************************************************)
(* The provider circuit breaker, cascade/provider_health.py, and what the  *)
(* cascade makes of it: a request filters its candidate models            *)
(* (filter_candidates, is_degraded), get_best_model() chooses one of the   *)
(* filtered list, and the latency of a call that succeeded is recorded in  *)
(* the background (_record).                                               *)
(*                                                                         *)
(* Each Redis round trip is a step, and may fail; keys are computed before *)
(* the round trip that uses them.  The latencies in a minute's list are    *)
(* only ever sorted, so a list is the number of times each latency occurs. *)
(* Time is in ticks, several to the minute.                                *)
(***************************************************************************)
EXTENDS Selection

CONSTANTS
  Providers,
  ProviderOf,    \* model -> _extract_provider() of it
  Candidates,    \* the models of the tier
  Complexity,    \* of the requests, in tenths
  Profilings,    \* the states the profiles may be in
  SignalTables,  \* Models -> the sum of the learned signals
  Latencies,     \* of calls, positive
  Histories,     \* what an earlier process left: provider -> minute -> sample counts
  Callers,       \* requests served at the same time
  MinuteTicks,   \* ticks per minute
  CurrentWindow, \* _CURRENT_WINDOW_MIN
  BaselineWindow,\* _BASELINE_WINDOW_MIN
  BucketTTL,     \* _BUCKET_TTL, in ticks
  LatchTTL,      \* _DEGRADATION_TTL, in ticks
  MinCurrent,    \* _MIN_CURRENT_SAMPLES
  Ratio,         \* _DEGRADATION_RATIO
  PctNum, PctDen,\* the percentile, 0.95
  LastMinute,    \* bound: the minutes considered
  MaxSamples     \* bound: samples recorded by this process

Minutes == 0..LastMinute
ProfileType == [samples : Nat, success : 0..100, quality : 0..100, cost : Nat]
Samplings == [Latencies -> Nat]
NoSamples == [l \in Latencies |-> 0]
NothingRead == [m \in Minutes |-> NoSamples]

ASSUME HealthAssumption ==
  /\ Candidates \subseteq Models /\ IsFiniteSet(Candidates) /\ Candidates # {}
  /\ ProviderOf \in [Models -> Providers]
  /\ Complexity \in 0..10
  /\ Latencies \subseteq Nat \ {0} /\ IsFiniteSet(Latencies)
  /\ Histories \subseteq [Providers -> [Minutes -> Samplings]]
  /\ Profilings \subseteq [Models -> ProfileType \cup {NoProfile}]
  /\ SignalTables \subseteq [Models -> Int]
ASSUME ComparisonAssumption ==
  /\ MinCurrent \in Nat \ {0}
  /\ Ratio \in Nat
  /\ PctNum \in Nat /\ PctDen \in Nat \ {0} /\ PctNum <= PctDen
ASSUME WindowAssumption ==
  /\ MinuteTicks \in Nat \ {0}
  /\ CurrentWindow \in Nat \ {0}
  /\ BaselineWindow \in Nat \ {0}
  /\ BucketTTL \in Nat /\ BucketTTL > BaselineWindow * MinuteTicks
  /\ LatchTTL \in Nat
  /\ LastMinute \in Nat /\ MaxSamples \in Nat

VARIABLES
  clock,         \* ticks
  bucket,        \* provider -> minute -> the samples in its Redis list
  expiry,        \* provider -> minute -> when the list expires
  latch,         \* provider -> when its degraded latch expires
  call,          \* caller -> its request
  pushed,        \* history: provider -> minute -> every sample ever pushed
  recorded       \* history: how many this process pushed

vars == <<clock, bucket, expiry, latch, call, pushed, recorded>>

Minute(t) == t \div MinuteTicks

(* A caller serves one request after another; each begins with its filter. *)
NewRequest ==
  [phase |-> "checking", todo |-> {ProviderOf[m] : m \in Candidates}, at |-> NoModel,
   asOf |-> 0, seen |-> NothingRead, degraded |-> {}, profiles |-> NoProfile,
   signal |-> NoProfile, model |-> NoModel, latency |-> 0]

Init ==
  /\ clock = BaselineWindow * MinuteTicks - 1
  /\ \E h \in Histories : bucket = h /\ pushed = h
  /\ expiry = [p \in Providers |-> [m \in Minutes |-> m * MinuteTicks + BucketTTL]]
  /\ latch = [p \in Providers |-> 0]
  /\ call = [c \in Callers |-> NewRequest]
  /\ recorded = 0

-----------------------------------------------------------------------------
(* The samples of a read: <<minute, latency, which of its kind>>. *)
Drawn(read) == UNION {{m} \X {l} \X (1..read[m][l]) : m \in Minutes, l \in Latencies}

(* How many there are up to a latency, and in all. *)
UpTo(read, l) == Cardinality({s \in Drawn(read) : s[2] <= l})

Total(read) == Cardinality(Drawn(read))

(* int(round(0.95 * (n - 1))): to the nearest, halves to the even. *)
Rounded(num, den) ==
  LET q == num \div den
      twice == 2 * (num % den)
  IN IF twice > den \/ (twice = den /\ q % 2 = 1) THEN q + 1 ELSE q

(* _p95(): the sample at that place once they are sorted. *)
P95(read) ==
  IF Total(read) = 0 THEN 0
  ELSE LET place == Rounded(PctNum * (Total(read) - 1), PctDen)
       IN Min({l \in Latencies : UpTo(read, l) > place})

Enough(read) == Total(read) >= MinCurrent

(* The comparison of is_degraded(); a failed read of the baseline is no samples. *)
SlowerThan_FailedReadIsZero(baseline, current) == P95(current) > Ratio * P95(baseline)

SlowerThan(baseline, current) ==
  /\ Enough(baseline)
  /\ P95(baseline) > 0
  /\ P95(current) > Ratio * P95(baseline)

(* The minutes whose lists make up a window, as of a time. *)
BucketIds_OneMore(t, minutes) == {m \in Minutes : Minute(t) - minutes <= m /\ m <= Minute(t)}

BucketIds(t, minutes) == {m \in Minutes : Minute(t) - minutes < m /\ m <= Minute(t)}

(* What a window of a provider holds in Redis now, the keys computed at t. *)
ReadSamples(p, t, minutes) ==
  [m \in Minutes |-> IF m \in BucketIds(t, minutes) THEN bucket[p][m] ELSE NoSamples]

-----------------------------------------------------------------------------
(* c is done with provider p, with this result. *)
Checked(c, p, isDegraded) ==
  call' = [call EXCEPT ![c].phase = "checking", ![c].at = NoModel, ![c].asOf = 0,
                       ![c].seen = NothingRead, ![c].todo = @ \ {p},
                       ![c].degraded = IF isDegraded THEN @ \cup {p} ELSE @]

(* is_degraded(): the latch is read; an error there says healthy. *)
ReadLatch(c, p) ==
  /\ call[c].phase = "checking"
  /\ p \in call[c].todo
  /\ \/ Checked(c, p, clock < latch[p])
     \/ Checked(c, p, FALSE)
     \/ /\ clock >= latch[p]
        /\ call' = [call EXCEPT ![c].phase = "current", ![c].at = p, ![c].asOf = clock]
  /\ UNCHANGED <<clock, bucket, expiry, latch, pushed, recorded>>

(* The current window, or nothing after an error; too few samples say healthy. *)
ReadCurrent(c) ==
  /\ call[c].phase = "current"
  /\ \E seen \in {ReadSamples(call[c].at, call[c].asOf, CurrentWindow), NothingRead} :
       IF Enough(seen)
       THEN call' = [call EXCEPT ![c].phase = "baseline", ![c].asOf = clock, ![c].seen = seen]
       ELSE Checked(c, call[c].at, FALSE)
  /\ UNCHANGED <<clock, bucket, expiry, latch, pushed, recorded>>

(* The baseline, or nothing after an error; the two are compared. *)
ReadBaseline(c) ==
  /\ call[c].phase = "baseline"
  /\ \E baseline \in {ReadSamples(call[c].at, call[c].asOf, BaselineWindow), NothingRead} :
       IF SlowerThan(baseline, call[c].seen)
       THEN call' = [call EXCEPT ![c].phase = "latching", ![c].asOf = 0, ![c].seen = NothingRead]
       ELSE Checked(c, call[c].at, FALSE)
  /\ UNCHANGED <<clock, bucket, expiry, latch, pushed, recorded>>

(* The latch is set, or that fails: this request takes the provider for degraded. *)
SetLatch(c) ==
  /\ call[c].phase = "latching"
  /\ latch' \in {latch, [latch EXCEPT ![call[c].at] = clock + LatchTTL]}
  /\ Checked(c, call[c].at, TRUE)
  /\ UNCHANGED <<clock, bucket, expiry, pushed, recorded>>

(* filter_candidates(): the degraded ones go to the end. *)
Filtered_DegradedFirst(list, degraded) ==
  AtPlaces(list, {i \in DOMAIN list : ProviderOf[list[i]] \in degraded})
    \o AtPlaces(list, {i \in DOMAIN list : ProviderOf[list[i]] \notin degraded})

Filtered(list, degraded) ==
  AtPlaces(list, {i \in DOMAIN list : ProviderOf[list[i]] \notin degraded})
    \o AtPlaces(list, {i \in DOMAIN list : ProviderOf[list[i]] \in degraded})

(* The model get_best_model() settles on, given an ordered list: by samples in
   cold start, else the first that no other exceeds. *)
Settled(profiles, signal, list) ==
  LET T == Trusted(profiles, Candidates)
      best == Exploited(profiles, T, Complexity, signal)
      First(m) == \A i, j \in DOMAIN list : list[i] = m /\ list[j] \in best => i <= j
  IN IF T = {}
     THEN {m \in Candidates :
             \A k \in Candidates : Samples(profiles, m) <= Samples(profiles, k)}
     ELSE {m \in best : First(m)}

(* The candidates come from a set, in any order; the profiles and what was
   learned of the models are whatever they are by now. *)
Choose(c) ==
  /\ call[c].phase = "checking"
  /\ call[c].todo = {}
  /\ \E profiles \in Profilings, signal \in SignalTables, list \in SetToSeqs(Candidates) :
       \E m \in Settled(profiles, signal, Filtered(list, call[c].degraded)) :
         call' = [call EXCEPT ![c].phase = "calling", ![c].profiles = profiles,
                              ![c].signal = signal, ![c].model = m]
  /\ UNCHANGED <<clock, bucket, expiry, latch, pushed, recorded>>

(* Exploring draws a candidate, wherever it stands in the list. *)
Explore(c) ==
  /\ call[c].phase = "checking"
  /\ call[c].todo = {}
  /\ \E m \in Explored(Candidates) :
       call' = [call EXCEPT ![c].phase = "calling", ![c].model = m]
  /\ UNCHANGED <<clock, bucket, expiry, latch, pushed, recorded>>

-----------------------------------------------------------------------------
(* What the filter found is forgotten with the request. *)
NextRequest_StillDegraded(c) == [NewRequest EXCEPT !.degraded = call[c].degraded]

NextRequest(c) == NewRequest

(* The call fails, and nothing is recorded. *)
CallFails(c) ==
  /\ call[c].phase = "calling"
  /\ call' = [call EXCEPT ![c] = NextRequest(c)]
  /\ UNCHANGED <<clock, bucket, expiry, latch, pushed, recorded>>

(* It succeeds; _record() computes the key of this minute. *)
CallSucceeds(c) ==
  /\ call[c].phase = "calling"
  /\ recorded < MaxSamples
  /\ \E l \in Latencies :
       call' = [call EXCEPT ![c] = [NewRequest EXCEPT !.phase = "recording", !.asOf = clock,
                                     !.at = ProviderOf[call[c].model], !.latency = l]]
  /\ recorded' = recorded + 1
  /\ UNCHANGED <<clock, bucket, expiry, latch, pushed>>

(* LPUSH and EXPIRE, in one transaction. *)
PushSample(c) ==
  LET p == call[c].at
      m == Minute(call[c].asOf)
      l == call[c].latency
  IN /\ call[c].phase = "recording"
     /\ bucket' = [bucket EXCEPT ![p][m][l] = @ + 1]
     /\ pushed' = [pushed EXCEPT ![p][m][l] = @ + 1]
     /\ expiry' = [expiry EXCEPT ![p][m] = clock + BucketTTL]
     /\ call' = [call EXCEPT ![c] = NextRequest(c)]
     /\ UNCHANGED <<clock, latch, recorded>>

(* An error there is swallowed, and the sample lost. *)
LoseSample(c) ==
  /\ call[c].phase = "recording"
  /\ call' = [call EXCEPT ![c] = NextRequest(c)]
  /\ UNCHANGED <<clock, bucket, expiry, latch, pushed, recorded>>

(* Time passes, and Redis drops the lists that expire. *)
Tick ==
  /\ Minute(clock + 1) <= LastMinute
  /\ clock' = clock + 1
  /\ bucket' = [p \in Providers |-> [m \in Minutes |->
                  IF clock + 1 < expiry[p][m] THEN bucket[p][m] ELSE NoSamples]]
  /\ UNCHANGED <<expiry, latch, call, pushed, recorded>>

Check(c) ==
  \/ \E p \in Providers : ReadLatch(c, p)
  \/ ReadCurrent(c) \/ ReadBaseline(c) \/ SetLatch(c)
  \/ Choose(c) \/ Explore(c)

Serve(c) == CallFails(c) \/ CallSucceeds(c) \/ PushSample(c) \/ LoseSample(c)

Next ==
  \/ \E c \in Callers : Check(c) \/ Serve(c)
  \/ Tick

Spec == Init /\ [][Next]_vars

-----------------------------------------------------------------------------
Requests ==
  [phase : {"checking", "current", "baseline", "latching", "calling", "recording"},
   todo : SUBSET Providers, at : Providers \cup {NoModel}, asOf : Nat,
   seen : [Minutes -> Samplings], degraded : SUBSET Providers,
   profiles : Profilings \cup {NoProfile}, signal : SignalTables \cup {NoProfile},
   model : Candidates \cup {NoModel}, latency : Latencies \cup {0}]

TypeOK ==
  /\ clock \in Nat
  /\ bucket \in [Providers -> [Minutes -> Samplings]]
  /\ pushed \in [Providers -> [Minutes -> Samplings]]
  /\ expiry \in [Providers -> [Minutes -> Nat]]
  /\ latch \in [Providers -> Nat]
  /\ call \in [Callers -> Requests]
  /\ \A c \in Callers : call[c].degraded \cap call[c].todo = {}
  /\ recorded \in Nat

(* A round trip may take this long without losing part of the baseline. *)
Slack == BucketTTL - BaselineWindow * MinuteTicks

(* The baseline is compared in full: while a check waits for it, no sample of
   the window it asked for has expired, whenever that sample was pushed and
   however the minutes roll over, if the round trip takes less than Slack. *)
BaselineKept ==
  \A c \in Callers :
    call[c].phase = "baseline" /\ clock <= call[c].asOf + Slack =>
      \A m \in BucketIds(call[c].asOf, BaselineWindow) :
        bucket[call[c].at][m] = pushed[call[c].at][m]

(* A latch, or a request that takes the provider for degraded, has a reason: two
   calls of it whose latencies differ by more than the ratio.  Lost reads,
   lost samples and expired minutes never make a steady provider look slow. *)
Latencied(p) == {l \in Latencies : \E m \in Minutes : pushed[p][m][l] > 0}

NoFalseAlarm ==
  \A p \in Providers :
    latch[p] # 0 \/ (\E c \in Callers : p \in call[c].degraded) =>
      \E slow, fast \in Latencied(p) : slow > Ratio * fast

(* All the filter decides is ties: a model of a degraded provider that is
   chosen, without exploring and with profiles to go by, scores higher, with
   what was learned of it, than every trusted model of a healthy one. *)
Degraded(c, m) == ProviderOf[m] \in call[c].degraded

(* Who chose by the profiles, in the state they were in. *)
Chose(c) == call[c].phase = "calling" /\ call[c].profiles # NoProfile

HealthBreaksTies ==
  \A c \in Callers : Chose(c) /\ Degraded(c, call[c].model) =>
    LET T == Trusted(call[c].profiles, Candidates)
        Score(m) == FitnessWithSignal(call[c].profiles, T, Complexity, call[c].signal, m)
    IN \A m \in T : ~Degraded(c, m) => Score(m) < Score(call[c].model)

=============================================================================
