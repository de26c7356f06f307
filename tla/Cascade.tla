------------------------------ MODULE Cascade -------------------------------
(***************************************************************************)
(* One call of the cascade, run() in sriti/core/cascade/engine.py: choose  *)
(* a tier and a model, dispatch, retry another model of the tier when the  *)
(* provider fails, check the quality of what came back, aggregate or       *)
(* escalate 3 -> 2 -> 1 when it is poor, and degrade to the last response  *)
(* when there is nowhere left to go.  Every await whose result the control *)
(* flow depends on (the provider's answer, the verdict of the quality      *)
(* gate, the frontier cap's decision, the choice made by the reliability   *)
(* engine) is a nondeterministic choice over the results it can have.      *)
(***************************************************************************)
EXTENDS Integers, FiniteSets

CONSTANTS
  Models,             \* model names
  NoModel,            \* "no model"
  Catalog,            \* the models models.yaml lists
  Pool,               \* tier -> the models configured for it
  DefaultTier,        \* catalog entry -> its default_tier
  Supports,           \* catalog entry -> the capabilities it declares
  Requests,           \* the requests considered
  Budget,             \* _request_budget_s, in time units
  Slo,                \* tier -> max_latency_ms, in time units
  DefaultTimeout,     \* timeout of a call that passes none, in time units
  Attempts,           \* attempts with_retry makes inside one call
  Pauses,             \* the back-off pauses between them, together
  Durations,          \* the lengths of a call that are considered
  Waits,              \* the lengths of the other awaits that are considered
  Horizon,            \* the clock saturates here
  AggregationTiers,   \* eligible_tiers of the aggregation
  MinCandidates,      \* min_tier_models of the aggregation
  MaxParallel         \* max_parallel_models of the aggregation

Tiers == 1..3
Capabilities == {"json", "tools", "vision", "video"}
Media == {"vision", "video"}

(***************************************************************************)
(* What of a request, and of the learned adjustment that comes with it,    *)
(* steers the cascade.  maxTier is 1 when no cap on escalation is learned  *)
(* (or the adjustment is only a shadow); start is the tier of the task     *)
(* type, or the override of the adjustment.                                *)
(***************************************************************************)
RequestType ==
  [start          : Tiers,
   maxTier        : Tiers,
   declared       : SUBSET Capabilities,   \* what the caller asks for
   learned        : SUBSET Capabilities,   \* what the adjustment adds to it
   avoid          : SUBSET Models,         \* avoid_models and hard_avoid_models
   bandit         : Models \cup {NoModel},
   maxEscalations : Nat]

ASSUME ModelAssumption ==
  /\ NoModel \notin Models
  /\ Catalog \subseteq Models
  /\ Pool \in [Tiers -> SUBSET Models]
  /\ \A t \in Tiers : Pool[t] # {}
  /\ DefaultTier \in [Catalog -> Tiers]
  /\ Supports \in [Catalog -> SUBSET Capabilities]

ASSUME RequestAssumption ==
  /\ Requests \subseteq RequestType
  /\ \A r \in Requests : r.learned \cap Media = {}

ASSUME TimeAssumption ==
  /\ Budget \in Nat \ {0}
  /\ Slo \in [Tiers -> Nat \ {0}]
  /\ DefaultTimeout \in Nat \ {0}
  /\ Attempts \in Nat \ {0}
  /\ Pauses \in Nat
  /\ Durations \subseteq Nat \ {0}
  /\ Waits \subseteq Nat
  /\ Horizon \in Nat
  /\ Budget <= Horizon

ASSUME AggregationAssumption ==
  /\ AggregationTiers \subseteq Tiers \ {1}
  /\ MaxParallel \in Nat
  /\ MinCandidates \in 0..MaxParallel

VARIABLES
  req,            \* the request being served
  pc,             \* where run() is
  tier,           \* current_tier
  selected,       \* selected_model
  failed,         \* _failed_models
  result,         \* result: the model and tier it came from, and its verdict
  lastTier,       \* _last_successful_tier, 0 when there is none
  quality,        \* _quality_passed
  capFellBack,    \* _cap_fell_back
  escalations,    \* escalation_count, saturating above max_escalations
  elapsed,        \* time since _request_t0
  error,          \* the class of the exception being handled
  recorded,       \* outcomes recorded for the dispatch in progress
  exit,           \* how the call ended
  visitFailed,    \* history: models that failed since the tier was entered
  tried,          \* history: tiers dispatched to
  calling         \* history: time spent in provider calls and their pauses

vars == <<req, pc, tier, selected, failed, result, lastTier, quality,
          capFellBack, escalations, elapsed, error, recorded, exit,
          visitFailed, tried, calling>>

PCs == {"start", "loop", "dispatch", "except", "quality", "aggregate",
        "escalate", "done"}
Verdicts == {"unset", "pass", "fail"}
ErrorExits == {"bad_request", "timeout_504", "raised", "gate_raised"}
AnswerExits == {"budget", "degraded", "frontier", "passed", "aggregated",
                "max_escalations", "no_next_tier", "exhausted_tiers"}

NoResponse == [model |-> NoModel, tier |-> 0, verdict |-> "unset"]
Response == [model : Models, tier : Tiers, verdict : Verdicts]

-----------------------------------------------------------------------------
(* Which models and tiers the request may be sent to. *)

(***************************************************************************)
(* The hard capability filter.  A model outside the catalog passes it when *)
(* no media is involved; when it leaves nothing it is undone for JSON and  *)
(* tools, and leaves nothing for vision and video.                         *)
(***************************************************************************)
FilterForCapabilities(models, needs) ==
  LET fit == {m \in models : IF m \in Catalog THEN needs \subseteq Supports[m]
                                              ELSE needs \cap Media = {}}
  IN  IF fit = {} /\ needs \cap Media = {} THEN models ELSE fit

(* The models of a tier that can handle the request. *)
Capable(t) == FilterForCapabilities(Pool[t], req.declared \cup req.learned)

(* The visit of the current tier, as Aggregation implements it; aggregation
   filters for what the caller declares only. *)
Visit == INSTANCE TierVisit WITH
           everyone <- Pool[tier],
           capable <- FilterForCapabilities(Pool[tier], req.declared),
           eligible <- tier \in AggregationTiers,
           stage <- pc

(* Tiers escalation may still reach from t, one more expensive tier at a
   time. *)
Below_IgnoresMaxTier(t) == {n \in Tiers : n < t}

Below(t) == {n \in Tiers : n < t /\ n >= req.maxTier}

(* The cheapest tier of a set: escalation meets it first. *)
Nearest(S) == {t \in S : \A u \in S : u <= t}

(* The tiers an escalation from t can land on, skipping those without a
   capable model. *)
Landing(t) == Nearest({n \in Below(t) : Capable(n) # {}})

(* What get_best_model may return: any of the models it is given, or, given
   none, the tier's model for the complexity of the request. *)
BestModel(models, t) == Visit!Chosen(models, Pool[t])

(* The tier the first dispatch goes to, unless the bandit overrides it. *)
InitialTier ==
  Nearest({t \in {req.start} \cup Below(req.start) : Capable(t) # {}})

(* The bandit's model is taken when it is in the pool, and otherwise when the
   catalog lists it with the media the request carries. *)
BanditApplies(t) ==
  \/ req.bandit \in Capable(t)
  \/ /\ req.bandit \in Catalog
     /\ req.declared \cap Media \subseteq Supports[req.bandit]

(* The models a same-tier fallback may pick once the models in fs have
   failed. *)
Fallbacks_KeepsFailed(fs) == Capable(tier) \ req.avoid
Fallbacks_Unfiltered(fs) == (Pool[tier] \ fs) \ req.avoid

Fallbacks(fs) == (Capable(tier) \ fs) \ req.avoid

(* The models aggregation would ask beside the one whose answer was poor. *)
Candidates == Visit!Candidates

-----------------------------------------------------------------------------
(* Time. *)

Least(a, b) == IF a < b THEN a ELSE b

OutOfTime == elapsed >= Budget

(* The timeout given to each attempt of a dispatch.  At the frontier it may have
   passed: the budget is checked before the cap is asked. *)
EffectiveTimeout_SloOnly == Slo[tier]

EffectiveTimeout == Least(Slo[tier], Budget - elapsed)

(* Time goes by: calls take the first part of it, other awaits the second. *)
Elapse(calls, waits) ==
  /\ elapsed' = Least(elapsed + calls + waits, Horizon)
  /\ calling' = calling + calls

(* What with_retry may make of a limit per attempt: it may use the limit up on
   every attempt, and pauses in between.  A limit that has passed already ends
   each attempt at once. *)
CallTime(limit) ==
  {d \in Durations : d <= Attempts * (IF limit > 0 THEN limit ELSE 0) + Pauses}

Spend_ClockRestarted(limit) == elapsed' = 0 /\ UNCHANGED calling

Spend(limit) == \E d \in CallTime(limit) : Elapse(d, 0)

(* An await on Redis or on an embedding, which nothing limits. *)
Wait == \E w \in Waits : Elapse(0, w)

(* Aggregation: calls with the default timeout, and judging the answers. *)
SpendAndWait == \E d \in CallTime(DefaultTimeout), w \in Waits : Elapse(d, w)

-----------------------------------------------------------------------------
Init ==
  /\ req \in Requests
  /\ pc = "start"
  /\ tier = req.start
  /\ selected = NoModel
  /\ failed = {}
  /\ result = NoResponse
  /\ lastTier = 0
  /\ quality = "unset"
  /\ capFellBack = FALSE
  /\ escalations = 0
  /\ elapsed = 0
  /\ error = "none"
  /\ recorded = 0
  /\ exit = "none"
  /\ visitFailed = {}
  /\ tried = {}
  /\ calling = 0

(* Control leaves the loop. *)
Finish(how) ==
  /\ pc' = "done"
  /\ exit' = how

(* No tier has a capable model: HTTP 400. *)
RejectIncapable ==
  /\ pc = "start"
  /\ InitialTier = {}
  /\ Finish("bad_request")
  /\ UNCHANGED <<req, tier, selected, failed, result, lastTier, quality,
                 capFellBack, escalations, elapsed, error, recorded,
                 visitFailed, tried, calling>>

(* The first tier and model are chosen; the clock starts. *)
SelectInitial ==
  /\ pc = "start"
  /\ \E t \in InitialTier :
       \/ /\ ~BanditApplies(t)
          /\ tier' = t
          /\ selected' \in Capable(t)
       \/ /\ BanditApplies(t)
          /\ selected' = req.bandit
          /\ tier' = IF req.bandit \in Capable(t) THEN t
                                                  ELSE DefaultTier[req.bandit]
  /\ pc' = "loop"
  /\ UNCHANGED <<req, failed, result, lastTier, quality, capFellBack,
                 escalations, elapsed, error, recorded, exit, visitFailed,
                 tried, calling>>

(* The budget is used up at the top of the loop: the newest response is
   returned, or HTTP 504 raised.  current_tier is left as it stands. *)
BudgetExhausted ==
  /\ pc = "loop"
  /\ OutOfTime
  /\ Finish(IF result # NoResponse THEN "budget" ELSE "timeout_504")
  /\ UNCHANGED <<req, tier, selected, failed, result, lastTier, quality,
                 capFellBack, escalations, elapsed, error, recorded,
                 visitFailed, tried, calling>>

(* Below the frontier a dispatch needs no permission. *)
BeginDispatch ==
  /\ pc = "loop"
  /\ ~OutOfTime
  /\ tier # 1
  /\ pc' = "dispatch"
  /\ recorded' = 0
  /\ tried' = tried \cup {tier}
  /\ UNCHANGED <<req, tier, selected, failed, result, lastTier, quality,
                 capFellBack, escalations, elapsed, error, exit, visitFailed,
                 calling>>

(* At the frontier the traffic cap is asked, and allows the dispatch. *)
FrontierAllowed ==
  /\ pc = "loop"
  /\ ~OutOfTime
  /\ tier = 1
  /\ pc' = "dispatch"
  /\ recorded' = 0
  /\ tried' = tried \cup {1}
  /\ Wait
  /\ UNCHANGED <<req, tier, selected, failed, result, lastTier, quality,
                 capFellBack, escalations, error, exit, visitFailed>>

(* The traffic cap denies it: tier 2 is dispatched to in the same iteration,
   with whatever get_best_model makes of the capable models of tier 2. *)
FrontierDenied ==
  /\ pc = "loop"
  /\ ~OutOfTime
  /\ tier = 1
  /\ capFellBack' = TRUE
  /\ tier' = 2
  /\ selected' \in BestModel(Capable(2), 2)
  /\ pc' = "dispatch"
  /\ recorded' = 0
  /\ visitFailed' = {}
  /\ tried' = tried \cup {2}
  /\ Wait
  /\ UNCHANGED <<req, failed, result, lastTier, quality, escalations, error,
                 exit>>

(* The provider answers. *)
DispatchSucceeds ==
  /\ pc = "dispatch"
  /\ Spend(EffectiveTimeout)
  /\ result' = [model |-> selected, tier |-> tier, verdict |-> "unset"]
  /\ lastTier' = tier
  /\ pc' = "quality"
  /\ UNCHANGED <<req, tier, selected, failed, quality, capFellBack,
                 escalations, error, recorded, exit, visitFailed, tried>>

(* The call raises.  A timeout is recorded as an outcome at once; timeouts and
   the other provider errors put the model among the failed ones. *)
DispatchFails(kind) ==
  /\ pc = "dispatch"
  /\ Spend(EffectiveTimeout)
  /\ error' = kind
  /\ recorded' = IF kind = "timeout" THEN recorded + 1 ELSE recorded
  /\ failed' = IF kind = "other" THEN failed ELSE failed \cup {selected}
  /\ visitFailed' = IF kind = "other" THEN visitFailed
                                      ELSE visitFailed \cup {selected}
  /\ pc' = "except"
  /\ UNCHANGED <<req, tier, selected, result, lastTier, quality, capFellBack,
                 escalations, exit, tried>>

(* After a provider error another model of the tier is tried. *)
FallbackAvailable == error # "other" /\ Fallbacks(failed) # {}

SameTierFallback ==
  /\ pc = "except"
  /\ FallbackAvailable
  /\ selected' \in Fallbacks(failed)
  /\ error' = "none"
  /\ pc' = "loop"
  /\ Wait
  /\ UNCHANGED <<req, tier, failed, result, lastTier, quality, capFellBack,
                 escalations, recorded, exit, visitFailed, tried>>

(* escalation_count + 1. *)
CountEscalation ==
  escalations' = IF escalations > req.maxEscalations THEN escalations
                                                     ELSE escalations + 1

(* Without one, the next tier with a capable model is tried; the failed models
   are forgotten. *)
EscalateAfterError ==
  /\ pc = "except"
  /\ ~FallbackAvailable
  /\ \E t \in Landing(tier) :
       /\ tier' = t
       /\ selected' \in Capable(t)
  /\ failed' = {}
  /\ visitFailed' = {}
  /\ CountEscalation
  /\ error' = "none"
  /\ pc' = "loop"
  /\ Wait
  /\ UNCHANGED <<req, result, lastTier, quality, capFellBack, recorded, exit,
                 tried>>

NowhereToEscalate_NoSkipping ==
  ~FallbackAvailable /\ \A t \in Below(tier) : t = tier - 1 => Capable(t) = {}

NowhereToEscalate == ~FallbackAvailable /\ Landing(tier) = {}

(* current_tier goes back to the tier of the response that is served. *)
RestoreTier_Forgotten == UNCHANGED tier

RestoreTier == tier' = lastTier

(* The failed dispatch is recorded unless its timeout already was. *)
RecordFailure_Twice == recorded' = recorded + 1

RecordFailure ==
  recorded' = IF error = "timeout" THEN recorded ELSE recorded + 1

(* With no tier left an earlier response is served.  (When the last tiers were
   skipped the code has cleared _failed_models too; nothing reads it then.) *)
DegradeToLast_NothingToServe ==
  /\ pc = "except"
  /\ NowhereToEscalate
  /\ RestoreTier
  /\ RecordFailure
  /\ Finish("degraded")
  /\ UNCHANGED <<req, selected, failed, result, lastTier, quality, capFellBack,
                 escalations, elapsed, error, visitFailed, tried, calling>>

DegradeToLast ==
  /\ pc = "except"
  /\ NowhereToEscalate
  /\ result # NoResponse
  /\ RestoreTier
  /\ RecordFailure
  /\ Finish("degraded")
  /\ UNCHANGED <<req, selected, failed, result, lastTier, quality, capFellBack,
                 escalations, elapsed, error, visitFailed, tried, calling>>

(* With no response at all the exception is raised again. *)
RaiseError_Always ==
  /\ pc = "except"
  /\ NowhereToEscalate
  /\ Finish("raised")
  /\ UNCHANGED <<req, tier, selected, failed, result, lastTier, quality,
                 capFellBack, escalations, elapsed, error, recorded,
                 visitFailed, tried, calling>>

RaiseError ==
  /\ pc = "except"
  /\ NowhereToEscalate
  /\ result = NoResponse
  /\ Finish("raised")
  /\ UNCHANGED <<req, tier, selected, failed, result, lastTier, quality,
                 capFellBack, escalations, elapsed, error, recorded,
                 visitFailed, tried, calling>>

(* _quality_passed takes the verdict, at the frontier too. *)
NoteVerdict_NotAtFrontier(verdict) ==
  quality' = IF tier = 1 THEN quality ELSE verdict

NoteVerdict(verdict) == quality' = verdict

(* The quality gate judges the response and the outcome is recorded.  The
   frontier's answer is returned whatever the verdict. *)
CheckQuality(verdict) ==
  /\ pc = "quality"
  /\ NoteVerdict(verdict)
  /\ result' = [result EXCEPT !.verdict = verdict]
  /\ recorded' = recorded + 1
  /\ CASE tier = 1 -> Finish("frontier")
       [] tier # 1 /\ verdict = "pass" -> Finish("passed")
       [] OTHER -> pc' = "aggregate" /\ UNCHANGED exit
  /\ Wait
  /\ UNCHANGED <<req, tier, selected, failed, lastTier, capFellBack,
                 escalations, error, visitFailed, tried>>

(* Nothing in run() catches what the gate raises: the response is lost, and no
   outcome recorded.  An embedding is computed only below the frontier, whose
   tier has no threshold, and not for media, which are judged by form. *)
GateRaises ==
  /\ pc = "quality"
  /\ tier # 1
  /\ req.declared \cap Media = {}
  /\ Finish("gate_raised")
  /\ Wait
  /\ UNCHANGED <<req, tier, selected, failed, result, lastTier, quality,
                 capFellBack, escalations, error, recorded, visitFailed,
                 tried>>

AggregationPossible == Visit!Possible

(* It may be skipped: when there are more candidates than are asked, the ranking
   keeps only those with a profile, and these may be too few. *)
AggregationSkippable == Visit!Skippable

(* A candidate's response passes the gate and replaces the result.
   _quality_passed keeps the verdict on the response it replaced. *)
AggregationSucceeds ==
  /\ pc = "aggregate"
  /\ AggregationPossible
  /\ SpendAndWait
  /\ \E m \in Candidates :
       /\ selected' = m
       /\ result' = [model |-> m, tier |-> tier, verdict |-> "pass"]
  /\ Finish("aggregated")
  /\ UNCHANGED <<req, tier, failed, lastTier, quality, capFellBack,
                 escalations, error, recorded, visitFailed, tried>>

(* No candidate answers well, or none is asked. *)
AggregationFails ==
  /\ pc = "aggregate"
  /\ \/ AggregationPossible /\ SpendAndWait
     \/ AggregationSkippable /\ UNCHANGED <<elapsed, calling>>
  /\ pc' = "escalate"
  /\ UNCHANGED <<req, tier, selected, failed, result, lastTier, quality,
                 capFellBack, escalations, error, recorded, exit, visitFailed,
                 tried>>

(* May a poor answer be escalated?  Not beyond max_escalations, not past the
   last tier allowed, and not to a frontier whose cap was hit before. *)
MayEscalate_CapForgotten ==
  /\ escalations < req.maxEscalations
  /\ tier - 1 \in Below(tier)

MayEscalate ==
  /\ escalations < req.maxEscalations
  /\ tier - 1 \in Below(tier)
  /\ ~(tier - 1 = 1 /\ capFellBack)

(* The current response is returned, poor as it is. *)
ReturnCurrent ==
  /\ pc = "escalate"
  /\ ~MayEscalate
  /\ Finish(IF escalations >= req.maxEscalations THEN "max_escalations"
                                                 ELSE "no_next_tier")
  /\ UNCHANGED <<req, tier, selected, failed, result, lastTier, quality,
                 capFellBack, escalations, elapsed, error, recorded,
                 visitFailed, tried, calling>>

(* The next tier with a capable model is tried; the failed models are kept. *)
EscalateAfterQuality ==
  /\ pc = "escalate"
  /\ MayEscalate
  /\ \E t \in Landing(tier) :
       /\ tier' = t
       /\ selected' \in Capable(t)
  /\ visitFailed' = {}
  /\ CountEscalation
  /\ pc' = "loop"
  /\ Wait
  /\ UNCHANGED <<req, failed, result, lastTier, quality, capFellBack, error,
                 recorded, exit, tried>>

(* No further tier has one: the current response is returned, but current_tier
   has moved to the last tier looked at. *)
ExhaustTiers ==
  /\ pc = "escalate"
  /\ MayEscalate
  /\ Landing(tier) = {}
  /\ tier' = req.maxTier
  /\ Finish("exhausted_tiers")
  /\ UNCHANGED <<req, selected, failed, result, lastTier, quality, capFellBack,
                 escalations, elapsed, error, recorded, visitFailed, tried,
                 calling>>

(* The call has returned. *)
Returned == pc = "done" /\ UNCHANGED vars

Step ==
  \/ RejectIncapable
  \/ SelectInitial
  \/ BudgetExhausted
  \/ BeginDispatch
  \/ FrontierAllowed
  \/ FrontierDenied
  \/ DispatchSucceeds
  \/ \E kind \in {"timeout", "provider", "other"} : DispatchFails(kind)
  \/ SameTierFallback
  \/ EscalateAfterError
  \/ DegradeToLast
  \/ RaiseError
  \/ \E verdict \in {"pass", "fail"} : CheckQuality(verdict)
  \/ GateRaises
  \/ AggregationSucceeds
  \/ AggregationFails
  \/ ReturnCurrent
  \/ EscalateAfterQuality
  \/ ExhaustTiers

Next == Step \/ Returned

Spec == Init /\ [][Next]_vars

(* run() awaits providers, whose calls time out, and Redis, which is assumed to
   answer or fail (its clients have no timeout), so the coroutine is always
   resumed: whenever a step is possible one is taken. *)
FairSpec == Spec /\ WF_vars(Step)

-----------------------------------------------------------------------------
(* Every variable has its type. *)
TypeOK ==
  /\ req \in Requests
  /\ pc \in PCs
  /\ tier \in Tiers
  /\ selected \in Models \cup {NoModel}
  /\ failed \in SUBSET Models
  /\ result \in Response \cup {NoResponse}
  /\ lastTier \in 0..3
  /\ quality \in Verdicts
  /\ capFellBack \in BOOLEAN
  /\ escalations \in Nat
  /\ elapsed \in 0..Horizon
  /\ error \in {"none", "timeout", "provider", "other"}
  /\ recorded \in Nat
  /\ exit \in {"none"} \cup ErrorExits \cup AnswerExits
  /\ visitFailed \in SUBSET Models
  /\ tried \in SUBSET Tiers
  /\ calling \in Nat

(* The exits of the loop that return while current_tier is already ahead of
   the tier whose response is returned. *)
AheadExits == {"budget", "exhausted_tiers"}

(* Whatever provider errors, denials and degradations lie behind it, an answer
   is reported under the tier that produced it (the metadata's model_tier),
   except from the two exits that do not put current_tier back. *)
ReportedTier ==
  exit \in AnswerExits \ AheadExits => tier = result.tier

(* The reported quality_passed is the verdict on the response that is returned,
   never a verdict on an earlier response of the same call; an aggregated
   answer is the exception. *)
ReportedVerdict ==
  exit \in AnswerExits \ {"aggregated"} => quality = result.verdict

(* The request fails with a provider's error only when every tier it might have
   been escalated to, and that has a capable model, has been dispatched to. *)
NoTierLeftUntried ==
  exit = "raised" =>
    \A t \in Tiers :
      /\ \E u \in tried : t < u /\ t >= req.maxTier
      /\ Capable(t) # {}
      => t \in tried

(* While a tier is visited no model of it that failed is dispatched to again,
   through any mixture of fallbacks and of re-asking the frontier cap. *)
NoRepeatInVisit ==
  pc = "dispatch" => selected \notin visitFailed

(* A model is dispatched to only if it has the capabilities the request needs,
   unless the bandit named it, or the cap forced a fallback to a tier 2 that
   has no capable model. *)
DispatchCapable ==
  pc = "dispatch" =>
    \/ selected \in Capable(tier)
    \/ selected = req.bandit
    \/ capFellBack /\ Capable(2) = {}

(* No dispatch is given two outcomes, whichever mixture of timeout, degradation
   and quality check it meets: the learner's averages count it once. *)
OneOutcomePerDispatch == recorded <= 1

(* However long Redis and the gate take in between, and however late the budget
   is looked at again, the provider calls of a request and their pauses take
   together no more than the budget once per attempt and the retried time limit
   of one aggregation. *)
ProviderTimeBounded ==
  calling <= (Attempts * Budget + Pauses) + (Attempts * DefaultTimeout + Pauses)

(* A tier change is an escalation of the allowed kind, the cap's fallback to
   tier 2, or happens on return: the learned max_tier is never passed and no
   request drifts back to a cheaper tier to be dispatched there again. *)
TierChangesAllowed ==
  [][tier' # tier /\ pc # "start" /\ pc' # "done" =>
       \/ tier' < tier /\ tier' >= req.maxTier
       \/ tier = 1 /\ tier' = 2 /\ capFellBack']_vars

(* Once the frontier cap was hit, a poor answer never sends the request to the
   frontier again. *)
QualityKeepsOffFrontier ==
  [][pc = "escalate" /\ capFellBack => tier' = tier \/ pc' = "done"]_vars

(* The call hands out the newest response it got, and that judged, and fails
   with a response in hand only when judging it raises: no error of a provider
   and no degradation path drops an answer that was there to be served. *)
Contract == INSTANCE AnswerContract WITH
  Responses <- [model : Models, tier : Tiers],
  None <- [model |-> NoModel, tier |-> 0],
  latest <- [model |-> result.model, tier |-> result.tier],
  judged <- result.verdict # "unset",
  outcome <- IF exit = "none" THEN "pending"
             ELSE IF exit = "gate_raised" THEN "broken"
             ELSE IF exit \in ErrorExits THEN "failed" ELSE "answered"

ContractSpec == Contract!Spec

(* The call returns: no mixture of failures, denials, aggregations and
   escalations keeps it in the loop. *)
Returns == <>(pc = "done")

(* What the comment on _cap_fell_back says: once the cap was hit, the request
   does not go back and forth between tier 2 and tier 1. *)
NoPingPong == [][capFellBack /\ tier = 2 => tier' # 1]_vars

(* What the comment on _last_successful_tier says the reported tier is: that of
   what is actually being returned. *)
ReportedTierAlways == exit \in AnswerExits => tier = result.tier

(* What the comment on the capability-constrained accessor says: no routing
   path hands a request to a model that cannot handle it. *)
IncapableNeverSeen ==
  pc = "dispatch" /\ req.bandit = NoModel => selected \in Capable(tier)

=============================================================================
