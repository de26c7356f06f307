---------------------------- MODULE Aggregation -----------------------------
(***************************************************************************)
(* One visit of a tier: the choice of a model, the quality gate, and the   *)
(* aggregation that asks other models of the tier when the answer is poor. *)
(* cascade/aggregation.py as a whole, with_retry() in execution/retry.py   *)
(* under each expert's call, the quality checks of cascade/engine.py and   *)
(* the part of its run() between a selection and an escalation.            *)
(*                                                                         *)
(* The experts run in parallel: their calls are answered, retried or given *)
(* up in any order, and are judged in the order in which they were asked.  *)
(***************************************************************************)
EXTENDS Selection

CONSTANTS
  TierNum,           \* the tier, 2 or 3: aggregation is not for the frontier
  Catalogs,          \* the sets of models the catalog may have for the tier
  Overrides,         \* TIERN_MODEL: models, or NoModel
  CapableSets,       \* the sets of models that may be capable of a request
  MaxCost,           \* no average cost is higher
  ProfileTables,     \* what may be known of the models: Models -> profile
  SignalTables,      \* Models -> the sum of the learned signals
  Requests,          \* what of a request selection and gate look at
  Answers,           \* what of an answer the gate looks at
  NoAnswer, Pause, Raised,  \* a call under way, between two attempts, given up
  EligibleTiers,     \* eligible_tiers
  MaxParallel,       \* max_parallel_models
  MinModels,         \* min_tier_models
  MaxAttempts        \* attempts of with_retry()

(* complexity in tenths; minWords is that of the task; vec says whether the
   request was embedded; media that it has an image or a video. *)
RequestType == [complexity : 0..10, minWords : Nat, vec : BOOLEAN,
                json : BOOLEAN, media : BOOLEAN]

(* hedges: in its opening; close: similar enough to the request. *)
AnswerType == [words : Nat, finish : {"stop", "length", "tool_calls"},
               hedges : BOOLEAN, json : BOOLEAN, close : BOOLEAN]

ProfileType == [samples : Nat, success : 0..100, quality : 0..100, cost : 0..MaxCost]

ASSUME TierAssumption ==
  /\ TierNum \in {2, 3}
  /\ IsFiniteSet(Models)
  /\ Catalogs \subseteq SUBSET Models
  /\ Overrides \subseteq Models \cup {NoModel}
  /\ CapableSets \subseteq SUBSET Models
  /\ MaxCost \in Nat
ASSUME DataAssumption ==
  /\ ProfileTables \subseteq [Models -> ProfileType \cup {NoProfile}]
  /\ SignalTables \subseteq [Models -> Int]
  /\ Requests \subseteq RequestType
  /\ Answers \subseteq AnswerType
ASSUME LimitAssumption ==
  MaxParallel \in Nat /\ MinModels \in Nat \ {0} /\ MaxAttempts \in Nat \ {0}

ASSUME ReplyAssumption ==
  NoAnswer \notin Answers \cup {Pause, Raised} /\ Pause \notin Answers \cup {Raised}
    /\ Raised \notin Answers

VARIABLES
  catalog,       \* the active models of the tier when its module was imported
  override,      \* the model configured instead, or NoModel
  tier,          \* the tier as it was resolved then
  pool,          \* the models of the tier that are capable of the request
  req,
  profiles,      \* _profiles
  signal,        \* case memory, expert bank and preferences
  pc,
  selected,      \* the model whose answer is tried first, then the aggregated one
  asked,         \* the experts, in the order of the calls
  attempts,      \* model -> attempts begun
  reply,         \* model -> what came of its call
  judged,        \* the verdicts so far: quality_results
  best,          \* the expert whose answer is taken, NoModel while there is none
  recorded       \* the outcomes of the aggregation that are scheduled

config == <<catalog, override, tier, pool, req, profiles, signal>>
work == <<asked, attempts, reply, judged, best, recorded>>
vars == <<config, pc, selected, work>>

-----------------------------------------------------------------------------
(* _quality_check_structural(): an answer that is bad for its form alone. *)
StructurallyBad(r, a) ==
  \/ a.words = 0 /\ a.finish # "tool_calls"
  \/ a.finish = "length"
  \/ a.words > 0 /\ ~r.json /\ (a.hedges \/ a.words < r.minWords)
  \/ a.words > 0 /\ r.json /\ ~a.json

StructuralGate(r, a) == ~StructurallyBad(r, a)

(* Whether _quality_check_low() goes on to embed the answer, a short one. *)
EmbeddingDecides(r, a) == r.vec /\ a.words \in 1..99

LowGate(r, a) == StructuralGate(r, a) /\ (EmbeddingDecides(r, a) => a.close)

(* The service asks for the structural gate when JSON is required. *)
ConfiguredGate(r, a) == IF r.json THEN StructuralGate(r, a) ELSE LowGate(r, a)

(* run() takes the structural one for media too, the aggregation does not. *)
FirstGate(r, a) == IF r.media THEN StructuralGate(r, a) ELSE ConfiguredGate(r, a)

ExpertGate(r, a) == ConfiguredGate(r, a)

(* Embedding the answer may raise. *)
GateMayRaise(r, a) == ~r.json /\ StructuralGate(r, a) /\ EmbeddingDecides(r, a)

-----------------------------------------------------------------------------
Init ==
  /\ catalog \in Catalogs /\ override \in Overrides
  /\ tier = ResolveTier(catalog, override)
  /\ pool \in {S \cap AvailableModels(tier) : S \in CapableSets}
  /\ req \in Requests
  /\ profiles \in ProfileTables
  /\ signal \in SignalTables
  /\ pc = "select"
  /\ selected = NoModel
  /\ asked = <<>>
  /\ attempts = [m \in Models |-> 0]
  /\ reply = [m \in Models |-> NoAnswer]
  /\ judged = [m \in {} |-> FALSE]
  /\ best = NoModel
  /\ recorded = <<>>

(* get_best_model(); nothing is capable only after a denial of the frontier. *)
Select ==
  /\ pc = "select"
  /\ pc' = "call"
  /\ selected' \in BestModels(tier, profiles, pool, req.complexity, signal)
  /\ UNCHANGED <<config, work>>

Explore ==
  /\ pc = "select"
  /\ pc' = "call"
  /\ selected' \in Explored(pool)
  /\ UNCHANGED <<config, work>>

(* The profiles are refreshed while the model is called. *)
Refresh ==
  /\ pc = "call"
  /\ pc' = "called"
  /\ profiles' \in ProfileTables
  /\ UNCHANGED <<catalog, override, tier, pool, req, signal, selected, work>>

(* The answer passes the gate, or the tier has to be asked for another one. *)
JudgeFirst(a) ==
  /\ pc \in {"call", "called"}
  /\ pc' = IF FirstGate(req, a) THEN "passed" ELSE "aggregate"
  /\ UNCHANGED <<config, selected, work>>

(* Nothing catches what the gate raises here. *)
GateRaises(a) ==
  /\ pc \in {"call", "called"}
  /\ ~req.media /\ GateMayRaise(req, a)
  /\ pc' = "error"
  /\ UNCHANGED <<config, selected, work>>

-----------------------------------------------------------------------------
Others == pool \ {selected}

(* get_aggregation_candidates(): all of them, or the best placed. *)
CandidateLists_FailedRemovedLast ==
  {SelectSeq(s, LAMBDA m : m # selected) :
     s \in TopModels(profiles, pool, req.complexity, MaxParallel)}

CandidateLists ==
  IF Cardinality(Others) <= MaxParallel THEN SetToSeqs(Others)
  ELSE TopModels(profiles, Others, req.complexity, MaxParallel)

Eligible == TierNum \in EligibleTiers

(* Not eligible, or too few to ask. *)
Skip ==
  /\ pc = "aggregate"
  /\ ~Eligible \/ \E s \in CandidateLists : Len(s) < MinModels
  /\ pc' = "skipped"
  /\ UNCHANGED <<config, selected, work>>

(* The calls of all experts begin. *)
DispatchParallel ==
  /\ pc = "aggregate"
  /\ Eligible
  /\ asked' \in {s \in CandidateLists : Len(s) >= MinModels}
  /\ attempts' = [m \in Models |-> IF m \in ToSet(asked') THEN 1 ELSE 0]
  /\ pc' = "gather"
  /\ UNCHANGED <<config, selected, reply, judged, best, recorded>>

(* An expert's call is under way. *)
Calling(m) == pc = "gather" /\ m \in ToSet(asked) /\ reply[m] = NoAnswer

Return(m, a) ==
  /\ Calling(m)
  /\ reply' = [reply EXCEPT ![m] = a]
  /\ UNCHANGED <<config, pc, selected, asked, attempts, judged, best, recorded>>

(* A retryable error: a pause and another attempt while there are any left. *)
AttemptsLeft_OneMore(m) == attempts[m] <= MaxAttempts

AttemptsLeft(m) == attempts[m] < MaxAttempts

TransientError(m) ==
  /\ Calling(m)
  /\ reply' = [reply EXCEPT ![m] = IF AttemptsLeft(m) THEN Pause ELSE Raised]
  /\ UNCHANGED <<config, pc, selected, asked, attempts, judged, best, recorded>>

AttemptsAfter_NotCounted(m) == attempts

AttemptsAfter(m) == [attempts EXCEPT ![m] = @ + 1]

Retry(m) ==
  /\ pc = "gather" /\ reply[m] = Pause
  /\ reply' = [reply EXCEPT ![m] = NoAnswer]
  /\ attempts' = AttemptsAfter(m)
  /\ UNCHANGED <<config, pc, selected, asked, judged, best, recorded>>

FatalError(m) ==
  /\ Calling(m)
  /\ reply' = [reply EXCEPT ![m] = Raised]
  /\ UNCHANGED <<config, pc, selected, asked, attempts, judged, best, recorded>>

(* gather() waits for every call. *)
Gathered == \A m \in ToSet(asked) : reply[m] \notin {NoAnswer, Pause}

Join ==
  /\ pc = "gather"
  /\ Gathered
  /\ pc' = IF \A i \in DOMAIN asked : reply[asked[i]] = Raised THEN "failed" ELSE "judge"
  /\ UNCHANGED <<config, selected, work>>

(* The calls that failed are passed over. *)
Considered(i) == reply[asked[i]] = Raised \/ asked[i] \in DOMAIN judged

BestAfter_LastPassing(m, passed) == IF passed THEN m ELSE best

BestAfter(m, passed) == IF passed /\ best = NoModel THEN m ELSE best

(* The next answer in the order of asking; a gate that raises counts as failed. *)
JudgeExpert(i) ==
  LET m == asked[i]
  IN /\ pc = "judge"
     /\ ~Considered(i) /\ \A j \in DOMAIN asked : j < i => Considered(j)
     /\ \E passed \in {ExpertGate(req, reply[m])}
                      \cup (IF GateMayRaise(req, reply[m]) THEN {FALSE} ELSE {}) :
          /\ judged' = [k \in DOMAIN judged \cup {m} |-> IF k = m THEN passed ELSE judged[k]]
          /\ best' = BestAfter(m, passed)
     /\ UNCHANGED <<config, pc, selected, asked, attempts, reply, recorded>>

Answered == AtPlaces(asked, {i \in DOMAIN asked : reply[asked[i]] # Raised})
Failed == AtPlaces(asked, {i \in DOMAIN asked : reply[asked[i]] = Raised})

Outcome(m, passed) == [model |-> m, passed |-> passed]

(* The failed calls, then the judged ones. *)
OutcomeList_AnsweredOnly ==
  [i \in DOMAIN Answered |-> Outcome(Answered[i], judged[Answered[i]])]

OutcomeList ==
  [i \in DOMAIN Failed |-> Outcome(Failed[i], FALSE)]
    \o [i \in DOMAIN Answered |-> Outcome(Answered[i], judged[Answered[i]])]

(* All are judged: an answer replaces the poor one and the outcomes are
   scheduled, or the cascade goes on without either. *)
ConcludeAggregation ==
  /\ pc = "judge"
  /\ \A i \in DOMAIN asked : Considered(i)
  /\ IF best = NoModel
     THEN pc' = "failed" /\ UNCHANGED <<selected, recorded>>
     ELSE pc' = "aggregated" /\ selected' = best /\ recorded' = OutcomeList
  /\ UNCHANGED <<config, asked, attempts, reply, judged, best>>

Final == {"passed", "error", "skipped", "failed", "aggregated"}

Returned == pc \in Final /\ UNCHANGED vars

Expert(m) ==
  TransientError(m) \/ Retry(m) \/ FatalError(m) \/ \E a \in Answers : Return(m, a)

Visit ==
  \/ Select \/ Explore \/ Refresh \/ (\E a \in Answers : JudgeFirst(a) \/ GateRaises(a))
  \/ Skip \/ DispatchParallel \/ (\E m \in Models : Expert(m))
  \/ Join \/ (\E i \in DOMAIN asked : JudgeExpert(i)) \/ ConcludeAggregation

Next == Visit \/ Returned

(* Calls have a timeout and the event loop resumes whoever may go on. *)
Spec == Init /\ [][Next]_vars /\ WF_vars(Visit)

-----------------------------------------------------------------------------
(* What Cascade takes from a visit of a tier. *)
Stage ==
  CASE pc = "select" -> "select"
    [] pc \in {"call", "called"} -> "called"
    [] pc \in {"passed", "error"} -> "settled"
    [] pc = "aggregate" -> "poor"
    [] pc \in {"gather", "judge"} -> "asking"
    [] pc = "aggregated" -> "replaced"
    [] pc \in {"skipped", "failed"} -> "escalate"

Promise == INSTANCE TierVisit WITH
             everyone <- AvailableModels(tier), capable <- pool, eligible <- Eligible,
             stage <- Stage, MinCandidates <- MinModels

PromiseSpec == Promise!Spec

-----------------------------------------------------------------------------
TypeOK ==
  /\ catalog \in Catalogs /\ override \in Overrides
  /\ pool \subseteq Models
  /\ req \in Requests
  /\ profiles \in ProfileTables
  /\ signal \in SignalTables
  /\ pc \in {"select", "call", "called", "aggregate", "gather", "judge"} \cup Final
  /\ selected \in Models \cup {NoModel}
  /\ selected = NoModel <=> pc = "select"
  /\ asked \in Seq(Models)
  /\ attempts \in [Models -> 0..MaxAttempts]
  /\ reply \in [Models -> Answers \cup {NoAnswer, Pause, Raised}]
  /\ DOMAIN judged \subseteq ToSet(asked) /\ judged \in [DOMAIN judged -> BOOLEAN]
  /\ best \in ToSet(asked) \cup {NoModel}
  /\ recorded \in Seq([model : Models, passed : BOOLEAN])

(* Splitting a tier into three levels and the rest loses no model, whatever
   their number, and a more complex request is never given a model that comes
   before that of a simpler request in the order of the tier. *)
TierWellFormed ==
  /\ AvailableModels(tier) = CASE override # NoModel -> {override}
                               [] override = NoModel /\ catalog = {} -> {FallbackModel}
                               [] OTHER -> catalog
  /\ \A l, k \in 0..2 :
       l < k => ~RanksBefore(ModelForComplexity(tier, k), ModelForComplexity(tier, l))

Dominates(m, k) ==
  /\ profiles[m].quality >= profiles[k].quality
  /\ profiles[m].cost <= profiles[k].cost
  /\ profiles[m].success >= profiles[k].success
  /\ \/ profiles[m].quality > profiles[k].quality
     \/ profiles[m].cost < profiles[k].cost
     \/ profiles[m].success > profiles[k].success

(* Pareto selection deserves its name: unless a learned signal tells the models
   apart, the chosen one is not worse than another in all of quality, cost and
   success rate, although the score multiplies them with each other. *)
UndominatedBest ==
  [][LET T == Trusted(profiles, pool)
     IN Select /\ T # {} =>
          /\ selected' \in T
          /\ \A m \in T :
               Dominates(m, selected') => \E k \in T : signal[k] # signal[selected']]_vars

(* Among the experts asked that does not hold of the second one: a dominated
   model may displace the one that dominates it, but only when its own score is
   not positive, where a lower success rate makes it less negative. *)
RankedFairly ==
  [][LET T == Trusted(profiles, Others)
     IN DispatchParallel /\ T # {} /\ Cardinality(Others) > MaxParallel =>
          \A m \in T \ ToSet(asked'), k \in ToSet(asked') :
            Dominates(m, k) => Pareto(profiles, T, req.complexity, k) <= 0]_vars

(* When aggregation is eligible it is skipped for want of models, or because
   the ranking left out enough models that are not trusted yet. *)
SkippedForWant ==
  pc = "skipped" /\ Eligible =>
    \/ Cardinality(Others) < MinModels
    \/ MaxParallel < MinModels
    \/ /\ Cardinality(Others) > MaxParallel
       /\ Cardinality(Trusted(profiles, Others)) \in 1..(MinModels - 1)

(* Whoever answers first, the answer taken is that of the best placed expert
   that passed. *)
FirstPassingWins ==
  pc = "aggregated" =>
    \E i \in DOMAIN asked :
      /\ asked[i] = selected
      /\ selected \in DOMAIN judged /\ judged[selected]
      /\ \A j \in 1..(i - 1) : asked[j] \in DOMAIN judged => ~judged[asked[j]]

(* An aggregation that succeeds tells the learner about every expert it asked,
   once and with its own verdict; one that does not tells it nothing. *)
OutcomesComplete ==
  IF pc = "aggregated"
  THEN /\ Len(recorded) = Len(asked)
       /\ \A m \in ToSet(asked) :
            Outcome(m, m \in DOMAIN judged /\ judged[m]) \in ToSet(recorded)
  ELSE recorded = <<>>

(* However often the experts' providers fail for a while, the visit ends. *)
VisitEnds == <>(pc \in Final)

(* What the quality check says of media holds for every answer judged: its form
   decides. *)
MediaJudgedByForm ==
  req.media => \A m \in DOMAIN judged : judged[m] = StructuralGate(req, reply[m])

=============================================================================
