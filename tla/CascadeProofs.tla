--------------------------- MODULE CascadeProofs ----------------------------
(***************************************************************************)
(* What TLAPS proves of Cascade, for every catalog, every tier layout,     *)
(* every set of requests and every time limit the assumptions allow.       *)
(***************************************************************************)
EXTENDS Cascade, TLAPS

-----------------------------------------------------------------------------
(* The operators the model is built from. *)

(* The capability filter only removes models. *)
LEMMA FilterSubset ==
  ASSUME NEW models, NEW needs
  PROVE  FilterForCapabilities(models, needs) \subseteq models
BY DEF FilterForCapabilities

(* Capable models are models of the tier. *)
LEMMA CapableModels ==
  ASSUME NEW t \in Tiers
  PROVE  /\ Capable(t) \subseteq Pool[t]
         /\ Pool[t] \subseteq Models
         /\ BestModel(Capable(t), t) \subseteq Models
<1>1. Capable(t) \subseteq Pool[t]
  BY FilterSubset DEF Capable
<1>2. Pool[t] \subseteq Models
  BY ModelAssumption
<1> QED
  BY <1>1, <1>2 DEF BestModel, Visit!Chosen

(* A landing tier lies between the learned cap and the tier left behind, and is
   the first there with a capable model. *)
LEMMA LandingTier ==
  ASSUME NEW t \in Tiers, NEW n \in Landing(t)
  PROVE  /\ n \in Tiers /\ n < t /\ n >= req.maxTier /\ Capable(n) # {}
         /\ \A u \in Tiers :
              u < t /\ u >= req.maxTier /\ Capable(u) # {} => u <= n
BY DEF Landing, Nearest, Below

(* So is the tier a request starts at, which need not lie above the cap. *)
LEMMA InitialTierTyped ==
  ASSUME req \in RequestType, NEW t \in InitialTier
  PROVE  t \in Tiers
BY DEF InitialTier, Nearest, Below, RequestType

(* The request does not change while it is served. *)
LEMMA RequestFixed == [Next]_vars => req' = req
BY DEF Next, Step, Returned, vars, RejectIncapable, RaiseError,
   BudgetExhausted, ReturnCurrent, ExhaustTiers, DegradeToLast, SelectInitial,
   BeginDispatch, FrontierAllowed, FrontierDenied, DispatchSucceeds,
   DispatchFails, SameTierFallback, EscalateAfterError, EscalateAfterQuality,
   CheckQuality, GateRaises, AggregationSucceeds, AggregationFails

(* Time only goes by, the clock stays within its bound, and until it reaches the
   budget it has counted everything. *)
LEMMA ElapseTyped ==
  ASSUME elapsed \in 0..Horizon, calling \in Nat,
         NEW d \in Nat, NEW w \in Nat, Elapse(d, w)
  PROVE  /\ elapsed' \in 0..Horizon /\ elapsed <= elapsed'
         /\ calling' \in Nat /\ calling' = calling + d
         /\ elapsed' < Budget => elapsed' = elapsed + d + w
BY TimeAssumption DEF Elapse, Least

LEMMA SpendTyped ==
  ASSUME elapsed \in 0..Horizon, calling \in Nat,
         (\E limit : Spend(limit)) \/ Wait \/ SpendAndWait
  PROVE  elapsed' \in 0..Horizon /\ calling' \in Nat
<1>1. PICK d \in Nat, w \in Nat : Elapse(d, w)
  BY TimeAssumption DEF Spend, Wait, SpendAndWait, CallTime
<1> QED
  BY <1>1, ElapseTyped

-----------------------------------------------------------------------------
(* Types.  That `tier' keeps its type rests on what _last_successful_tier holds
   when there is a response to degrade to, and that `result' does on a model
   being selected whenever one is dispatched to, and on the tier's response
   being there whenever one is judged. *)
LastTierOK == result # NoResponse => lastTier = result.tier

ModelSelected == pc \notin {"start", "done"} => selected \in Models

ResponseThere ==
  pc \in {"quality", "aggregate", "escalate"} =>
    result # NoResponse /\ result.tier = tier

TypeInv == TypeOK /\ LastTierOK /\ ModelSelected /\ ResponseThere

LEMMA TypeInit == Init => TypeInv
<1> SUFFICES ASSUME Init PROVE TypeInv
  OBVIOUS
<1>1. tier \in Tiers
  BY RequestAssumption DEF Init, RequestType
<1>2. LastTierOK /\ ModelSelected /\ ResponseThere
  BY DEF Init, LastTierOK, ModelSelected, ResponseThere
<1>3. elapsed \in 0..Horizon /\ calling \in Nat
  BY TimeAssumption DEF Init
<1>4. TypeOK
  <2>1. req \in Requests /\ pc \in PCs /\ quality \in Verdicts
    BY DEF Init, PCs, Verdicts
  <2>2. result \in Response \cup {NoResponse} /\ lastTier \in 0..3
    BY DEF Init
  <2>3. /\ failed \in SUBSET Models
        /\ visitFailed \in SUBSET Models
        /\ tried \in SUBSET Tiers
        /\ selected \in Models \cup {NoModel}
    BY DEF Init
  <2>4. capFellBack \in BOOLEAN /\ escalations \in Nat /\ recorded \in Nat
    BY DEF Init
  <2> QED
    BY <1>1, <1>3, <2>1, <2>2, <2>3, <2>4 DEF Init, TypeOK
<1> QED
  BY <1>2, <1>4 DEF TypeInv

LEMMA TypeStep == TypeInv /\ [Next]_vars => TypeInv'
<1> SUFFICES ASSUME TypeInv, [Next]_vars PROVE TypeInv'
  OBVIOUS
<1> USE DEF TypeInv, TypeOK, LastTierOK, ModelSelected, ResponseThere, PCs,
         Verdicts, ErrorExits, AnswerExits
<1>r. req \in RequestType
  BY RequestAssumption
<1>n. NoResponse \notin Response
  BY ModelAssumption DEF NoResponse, Response
<1>1. CASE RejectIncapable
  BY <1>1 DEF RejectIncapable, Finish
<1>2. CASE SelectInitial
  <2>1. PICK t \in InitialTier :
          \/ ~BanditApplies(t) /\ tier' = t /\ selected' \in Capable(t)
          \/ /\ BanditApplies(t)
             /\ selected' = req.bandit
             /\ tier' = IF req.bandit \in Capable(t) THEN t
                                                  ELSE DefaultTier[req.bandit]
    BY <1>2 DEF SelectInitial
  <2>2. t \in Tiers
    BY <1>r, InitialTierTyped
  <2>3. tier' \in Tiers /\ selected' \in Models
    BY <1>r, <2>1, <2>2, CapableModels, ModelAssumption
    DEF BanditApplies, RequestType
  <2> QED
    BY <1>2, <2>3 DEF SelectInitial
<1>3. CASE BudgetExhausted
  BY <1>3 DEF BudgetExhausted, Finish
<1>4. CASE BeginDispatch
  BY <1>4 DEF BeginDispatch
<1>5. CASE FrontierAllowed
  BY <1>5, SpendTyped DEF FrontierAllowed, Tiers
<1>6. CASE FrontierDenied
  <2>1. selected' \in Models
    BY <1>6, CapableModels DEF FrontierDenied, Tiers
  <2> QED
    BY <1>6, <2>1, SpendTyped DEF FrontierDenied, Tiers
<1>7. CASE DispatchSucceeds
  <2>1. result' \in Response /\ result'.tier = tier
    BY <1>7 DEF DispatchSucceeds, Response
  <2>2. elapsed' \in 0..Horizon /\ calling' \in Nat
    BY <1>7, SpendTyped DEF DispatchSucceeds
  <2>3. tier \in 0..3
    BY DEF Tiers
  <2> QED
    BY <1>7, <1>n, <2>1, <2>2, <2>3 DEF DispatchSucceeds
<1>8. ASSUME NEW kind \in {"timeout", "provider", "other"}, DispatchFails(kind)
      PROVE  TypeInv'
  BY <1>8, SpendTyped DEF DispatchFails
<1>9. CASE SameTierFallback
  BY <1>9, CapableModels, SpendTyped DEF SameTierFallback, Fallbacks
<1>10. CASE EscalateAfterError
  BY <1>10, CapableModels, LandingTier, SpendTyped
  DEF EscalateAfterError, CountEscalation
<1>11. CASE DegradeToLast
  BY <1>11 DEF DegradeToLast, Finish, RestoreTier, RecordFailure, Response
<1>12. CASE RaiseError
  BY <1>12 DEF RaiseError, Finish
<1>13. ASSUME NEW verdict \in {"pass", "fail"}, CheckQuality(verdict)
       PROVE  TypeInv'
  BY <1>13, SpendTyped
  DEF CheckQuality, NoteVerdict, Finish, Response, NoResponse
<1>14. CASE AggregationSucceeds
  <2>1. Candidates \subseteq Models
    BY FilterSubset, CapableModels DEF Candidates, Visit!Candidates
  <2>2. result' \in Response /\ selected' \in Models
    BY <1>14, <2>1 DEF AggregationSucceeds, Response
  <2>3. result'.tier = tier /\ lastTier = tier
    BY <1>14 DEF AggregationSucceeds
  <2>4. elapsed' \in 0..Horizon /\ calling' \in Nat
    BY <1>14, SpendTyped DEF AggregationSucceeds
  <2> QED
    BY <1>14, <1>n, <2>1, <2>2, <2>3, <2>4 DEF AggregationSucceeds, Finish
<1>15. CASE AggregationFails
  BY <1>15, SpendTyped DEF AggregationFails
<1>16. CASE ReturnCurrent
  BY <1>16 DEF ReturnCurrent, Finish
<1>17. CASE EscalateAfterQuality
  BY <1>17, CapableModels, LandingTier, SpendTyped
  DEF EscalateAfterQuality, CountEscalation
<1>18. CASE ExhaustTiers
  BY <1>18, <1>r DEF ExhaustTiers, Finish, RequestType
<1>19. CASE GateRaises
  BY <1>19, SpendTyped DEF GateRaises, Finish
<1>20. CASE UNCHANGED vars
  BY <1>20 DEF vars
<1> QED
  BY <1>1, <1>2, <1>3, <1>4, <1>5, <1>6, <1>7, <1>8, <1>9, <1>10, <1>11,
     <1>12, <1>13, <1>14, <1>15, <1>16, <1>17, <1>18, <1>19, <1>20
  DEF Next, Step, Returned

(* Every variable keeps its type. *)
THEOREM TypeCorrect == Spec => []TypeOK
<1>1. Spec => []TypeInv
  BY TypeInit, TypeStep, PTL DEF Spec
<1>2. TypeInv => TypeOK
  BY DEF TypeInv
<1> QED
  BY <1>1, <1>2, PTL

LEMMA TypeInvariant == Spec => []TypeInv
BY TypeInit, TypeStep, PTL DEF Spec

-----------------------------------------------------------------------------
(* What the answer is reported as. *)

(* An exit is set on return only, a call starts without a response, and outside
   the quality gate every response has its verdict, unless judging it raised.
   _quality_passed describes the newest response there, unless aggregation
   replaced it. *)
ExitInv ==
  /\ exit # "none" => pc = "done"
  /\ pc = "start" => result = NoResponse
  /\ pc = "quality" => result.verdict = "unset"
  /\ pc # "quality" /\ exit # "gate_raised" =>
       /\ result # NoResponse => result.verdict # "unset"
       /\ exit # "aggregated" => quality = result.verdict
  /\ ReportedTier

LEMMA ExitStep == TypeInv /\ ExitInv /\ [Next]_vars => ExitInv'
<1> SUFFICES ASSUME TypeInv, ExitInv, [Next]_vars PROVE ExitInv'
  OBVIOUS
<1> USE DEF ExitInv, ReportedTier, AnswerExits, AheadExits, ErrorExits
<1>1. CASE RejectIncapable \/ RaiseError \/ BudgetExhausted
  BY <1>1 DEF RejectIncapable, RaiseError, BudgetExhausted, Finish
<1>2. CASE SelectInitial \/ BeginDispatch \/ FrontierAllowed \/ FrontierDenied
  BY <1>2 DEF SelectInitial, BeginDispatch, FrontierAllowed, FrontierDenied
<1>3. CASE DispatchSucceeds
  BY <1>3 DEF DispatchSucceeds
<1>4. ASSUME NEW kind \in {"timeout", "provider", "other"}, DispatchFails(kind)
      PROVE  ExitInv'
  BY <1>4 DEF DispatchFails
<1>5. CASE SameTierFallback \/ EscalateAfterError \/ EscalateAfterQuality
           \/ AggregationFails
  BY <1>5 DEF SameTierFallback, EscalateAfterError, EscalateAfterQuality,
              AggregationFails
<1>6. CASE DegradeToLast
  BY <1>6 DEF DegradeToLast, RestoreTier, Finish, TypeInv, LastTierOK
<1>7. ASSUME NEW verdict \in {"pass", "fail"}, CheckQuality(verdict)
      PROVE  ExitInv'
  <2>1. result \in Response /\ result.tier = tier
    BY <1>7 DEF CheckQuality, TypeInv, TypeOK, ResponseThere
  <2>2. result'.tier = tier /\ result'.verdict = verdict
    BY <1>7, <2>1 DEF CheckQuality, Response
  <2> QED
    BY <1>7, <2>2 DEF CheckQuality, NoteVerdict, Finish
<1>8. CASE AggregationSucceeds
  BY <1>8 DEF AggregationSucceeds, Finish
<1>9. CASE ReturnCurrent
  BY <1>9 DEF ReturnCurrent, Finish, TypeInv, ResponseThere
<1>10. CASE ExhaustTiers
  BY <1>10 DEF ExhaustTiers, Finish
<1>11. CASE GateRaises
  BY <1>11 DEF GateRaises, Finish
<1>12. CASE UNCHANGED vars
  BY <1>12 DEF vars
<1> QED
  BY <1>1, <1>2, <1>3, <1>4, <1>5, <1>6, <1>7, <1>8, <1>9, <1>10, <1>11,
     <1>12
  DEF Next, Step, Returned

LEMMA ExitInvariant == Spec => []ExitInv
<1>1. Init => ExitInv
  BY DEF Init, ExitInv, ReportedTier, AnswerExits, NoResponse
<1> QED
  BY <1>1, ExitStep, TypeInvariant, PTL DEF Spec

(* An answer is reported under the tier that produced it, unless it is returned
   by one of the two exits that leave current_tier ahead. *)
THEOREM ReportedTierCorrect == Spec => []ReportedTier
<1>1. ExitInv => ReportedTier
  BY DEF ExitInv
<1> QED
  BY <1>1, ExitInvariant, PTL

(* The reported quality flag is the verdict on the response that is returned,
   unless aggregation replaced it. *)
THEOREM ReportedVerdictCorrect == Spec => []ReportedVerdict
<1>1. ExitInv => ReportedVerdict
  BY DEF ExitInv, ReportedVerdict, AnswerExits
<1> QED
  BY <1>1, ExitInvariant, PTL

-----------------------------------------------------------------------------
(* What is dispatched to. *)

(* The models that failed during the visit of a tier are among _failed_models,
   which is what the fallback leaves out. *)
VisitInv ==
  /\ pc = "start" => visitFailed = {}
  /\ visitFailed \subseteq failed
  /\ pc \in {"loop", "dispatch"} => selected \notin visitFailed

LEMMA VisitStep == VisitInv /\ [Next]_vars => VisitInv'
<1> SUFFICES ASSUME VisitInv, [Next]_vars PROVE VisitInv'
  OBVIOUS
<1> USE DEF VisitInv
<1>1. CASE RejectIncapable \/ RaiseError \/ BudgetExhausted \/ ReturnCurrent
           \/ ExhaustTiers \/ DegradeToLast \/ GateRaises
  BY <1>1 DEF RejectIncapable, RaiseError, BudgetExhausted, ReturnCurrent,
              ExhaustTiers, DegradeToLast, GateRaises, Finish
<1>2. CASE SelectInitial \/ BeginDispatch \/ FrontierAllowed \/ FrontierDenied
  BY <1>2 DEF SelectInitial, BeginDispatch, FrontierAllowed, FrontierDenied
<1>3. CASE DispatchSucceeds
  BY <1>3 DEF DispatchSucceeds
<1>4. ASSUME NEW kind \in {"timeout", "provider", "other"}, DispatchFails(kind)
      PROVE  VisitInv'
  BY <1>4 DEF DispatchFails
<1>5. CASE SameTierFallback
  BY <1>5 DEF SameTierFallback, Fallbacks
<1>6. CASE EscalateAfterError \/ EscalateAfterQuality
  BY <1>6 DEF EscalateAfterError, EscalateAfterQuality
<1>7. ASSUME NEW verdict \in {"pass", "fail"}, CheckQuality(verdict)
      PROVE  VisitInv'
  BY <1>7 DEF CheckQuality, Finish
<1>8. CASE AggregationSucceeds \/ AggregationFails
  BY <1>8 DEF AggregationSucceeds, AggregationFails, Finish
<1>9. CASE UNCHANGED vars
  BY <1>9 DEF vars
<1> QED
  BY <1>1, <1>2, <1>3, <1>4, <1>5, <1>6, <1>7, <1>8, <1>9
  DEF Next, Step, Returned

(* No model that failed since the tier was entered is dispatched to again. *)
THEOREM NoRepeatInVisitCorrect == Spec => []NoRepeatInVisit
<1>1. Init => VisitInv
  BY DEF Init, VisitInv
<1>2. VisitInv => NoRepeatInVisit
  BY DEF VisitInv, NoRepeatInVisit
<1> QED
  BY <1>1, <1>2, VisitStep, PTL DEF Spec

(* The selected model is capable from the moment it is selected. *)
Qualified ==
  \/ selected \in Capable(tier)
  \/ selected = req.bandit
  \/ capFellBack /\ Capable(2) = {}

QualifiedInv == pc \in {"loop", "dispatch"} => Qualified

LEMMA QualifiedStep == QualifiedInv /\ [Next]_vars => QualifiedInv'
<1> SUFFICES ASSUME QualifiedInv, [Next]_vars PROVE QualifiedInv'
  OBVIOUS
<1>q. Qualified' <=> \/ selected' \in Capable(tier')
                     \/ selected' = req.bandit
                     \/ capFellBack' /\ Capable(2) = {}
  BY RequestFixed DEF Qualified, Capable
<1> USE DEF QualifiedInv
<1>1. CASE RejectIncapable \/ RaiseError \/ BudgetExhausted \/ ReturnCurrent
           \/ ExhaustTiers \/ DegradeToLast \/ GateRaises
  BY <1>1 DEF RejectIncapable, RaiseError, BudgetExhausted, ReturnCurrent,
              ExhaustTiers, DegradeToLast, GateRaises, Finish
<1>2. CASE SelectInitial
  BY <1>2, <1>q DEF SelectInitial
<1>3. CASE BeginDispatch \/ FrontierAllowed
  BY <1>3, <1>q DEF BeginDispatch, FrontierAllowed, Qualified
<1>4. CASE FrontierDenied
  BY <1>4, <1>q DEF FrontierDenied, BestModel, Visit!Chosen
<1>5. CASE DispatchSucceeds \/ AggregationSucceeds \/ AggregationFails
  BY <1>5 DEF DispatchSucceeds, AggregationSucceeds, AggregationFails, Finish
<1>6. ASSUME NEW kind \in {"timeout", "provider", "other"}, DispatchFails(kind)
      PROVE  QualifiedInv'
  BY <1>6 DEF DispatchFails
<1>7. CASE SameTierFallback
  BY <1>7, <1>q DEF SameTierFallback, Fallbacks
<1>8. CASE EscalateAfterError \/ EscalateAfterQuality
  BY <1>8, <1>q DEF EscalateAfterError, EscalateAfterQuality
<1>9. ASSUME NEW verdict \in {"pass", "fail"}, CheckQuality(verdict)
      PROVE  QualifiedInv'
  BY <1>9 DEF CheckQuality, Finish
<1>10. CASE UNCHANGED vars
  BY <1>10, <1>q DEF vars, Qualified
<1> QED
  BY <1>1, <1>2, <1>3, <1>4, <1>5, <1>6, <1>7, <1>8, <1>9, <1>10
  DEF Next, Step, Returned

(* A dispatch goes to a model with the capabilities the request needs, the
   bandit's choice and the denied frontier with an incapable tier 2 excepted. *)
THEOREM DispatchCapableCorrect == Spec => []DispatchCapable
<1>1. Init => QualifiedInv
  BY DEF Init, QualifiedInv
<1>2. QualifiedInv => DispatchCapable
  BY DEF QualifiedInv, Qualified, DispatchCapable
<1> QED
  BY <1>1, <1>2, QualifiedStep, PTL DEF Spec

(* Outcomes recorded for the dispatch in progress, by where run() is. *)
OutcomeInv ==
  /\ recorded \in 0..1
  /\ pc \in {"dispatch", "quality"} => recorded = 0
  /\ pc = "except" => recorded = IF error = "timeout" THEN 1 ELSE 0

LEMMA OutcomeStep == OutcomeInv /\ [Next]_vars => OutcomeInv'
<1> SUFFICES ASSUME OutcomeInv, [Next]_vars PROVE OutcomeInv'
  OBVIOUS
<1> USE DEF OutcomeInv
<1>1. CASE RejectIncapable \/ RaiseError \/ BudgetExhausted \/ ReturnCurrent
           \/ ExhaustTiers \/ GateRaises
  BY <1>1 DEF RejectIncapable, RaiseError, BudgetExhausted, ReturnCurrent,
              ExhaustTiers, GateRaises, Finish
<1>2. CASE SelectInitial \/ BeginDispatch \/ FrontierAllowed \/ FrontierDenied
  BY <1>2 DEF SelectInitial, BeginDispatch, FrontierAllowed, FrontierDenied
<1>3. CASE DispatchSucceeds
  BY <1>3 DEF DispatchSucceeds
<1>4. ASSUME NEW kind \in {"timeout", "provider", "other"}, DispatchFails(kind)
      PROVE  OutcomeInv'
  BY <1>4 DEF DispatchFails
<1>5. CASE SameTierFallback \/ EscalateAfterError \/ EscalateAfterQuality
           \/ AggregationFails \/ AggregationSucceeds
  BY <1>5 DEF SameTierFallback, EscalateAfterError, EscalateAfterQuality,
              AggregationFails, AggregationSucceeds, Finish
<1>6. CASE DegradeToLast
  BY <1>6 DEF DegradeToLast, RecordFailure, Finish
<1>7. ASSUME NEW verdict \in {"pass", "fail"}, CheckQuality(verdict)
      PROVE  OutcomeInv'
  BY <1>7 DEF CheckQuality, Finish
<1>8. CASE UNCHANGED vars
  BY <1>8 DEF vars
<1> QED
  BY <1>1, <1>2, <1>3, <1>4, <1>5, <1>6, <1>7, <1>8 DEF Next, Step, Returned

(* The learner is told of no dispatch twice. *)
THEOREM OneOutcomePerDispatchCorrect == Spec => []OneOutcomePerDispatch
<1>1. Init => OutcomeInv
  BY DEF Init, OutcomeInv
<1>2. OutcomeInv => OneOutcomePerDispatch
  BY DEF OutcomeInv, OneOutcomePerDispatch
<1> QED
  BY <1>1, <1>2, OutcomeStep, PTL DEF Spec

-----------------------------------------------------------------------------
(* Where escalation leads. *)

(* Nowhere to land means that no allowed tier ahead has a capable model. *)
LEMMA NoLanding ==
  ASSUME NEW t \in Tiers, Landing(t) = {}
  PROVE  \A n \in Tiers : n < t /\ n >= req.maxTier => Capable(n) = {}
<1> DEFINE S == {n \in Below(t) : Capable(n) # {}}
<1>1. ASSUME S # {} PROVE Nearest(S) # {}
  <2>1. S \subseteq 1..3
    BY DEF Below, Tiers
  <2>2. CASE 3 \in S
    BY <2>1, <2>2 DEF Nearest
  <2>3. CASE 3 \notin S /\ 2 \in S
    BY <2>1, <2>3 DEF Nearest
  <2>4. CASE 3 \notin S /\ 2 \notin S
    <3>1. \A n \in S : n = 1
      BY <2>1, <2>4
    <3> QED
      BY <1>1, <3>1 DEF Nearest
  <2> QED
    BY <2>2, <2>3, <2>4
<1>2. S = {}
  BY <1>1 DEF Landing
<1> QED
  BY <1>2 DEF Below

(* Between a tier that was tried and where the cascade now stands, every tier
   that is allowed and has a capable model was tried too. *)
GapInv ==
  /\ pc = "start" => tried = {}
  /\ pc # "done" =>
       \A u \in tried, t \in Tiers :
         /\ t < u /\ t >= req.maxTier /\ Capable(t) # {}
         /\ t > tier \/ (t = tier /\ pc # "loop")
         => t \in tried
  /\ NoTierLeftUntried

LEMMA GapStep == TypeInv /\ ExitInv /\ GapInv /\ [Next]_vars => GapInv'
<1> SUFFICES ASSUME TypeInv, ExitInv, GapInv, [Next]_vars PROVE GapInv'
  OBVIOUS
<1>r. req' = req /\ (\A t : Capable(t)' = Capable(t))
  BY RequestFixed DEF Capable
<1>t. /\ tier \in Tiers /\ tried \in SUBSET Tiers /\ req.maxTier \in Tiers
      /\ exit # "none" => pc = "done"
  BY RequestAssumption DEF TypeInv, TypeOK, ExitInv, RequestType
<1> USE <1>r DEF GapInv, NoTierLeftUntried
<1>1. CASE RejectIncapable \/ BudgetExhausted \/ ReturnCurrent \/ ExhaustTiers
           \/ DegradeToLast \/ AggregationSucceeds \/ GateRaises
  BY <1>1 DEF RejectIncapable, BudgetExhausted, ReturnCurrent, ExhaustTiers,
              DegradeToLast, AggregationSucceeds, GateRaises, Finish
<1>2. CASE SelectInitial
  BY <1>2, <1>t DEF SelectInitial
<1>3. CASE BeginDispatch \/ FrontierAllowed
  <2>1. /\ tried' = tried \cup {tier} /\ tier' = tier /\ exit' = exit
        /\ pc = "loop" /\ pc' = "dispatch"
    BY <1>3 DEF BeginDispatch, FrontierAllowed
  <2>2. exit' # "raised"
    BY <1>t, <2>1
  <2>3. ASSUME NEW u \in tried', NEW t \in Tiers,
               t < u, t >= req.maxTier, Capable(t) # {}, t >= tier
        PROVE  t \in tried'
    BY <1>t, <2>1, <2>3 DEF Tiers
  <2> QED
    BY <1>t, <2>1, <2>2, <2>3 DEF Tiers
<1>4. CASE FrontierDenied
  BY <1>4, <1>t DEF FrontierDenied, Tiers
<1>5. CASE DispatchSucceeds \/ SameTierFallback \/ AggregationFails
  BY <1>5, <1>t DEF DispatchSucceeds, SameTierFallback, AggregationFails
<1>6. ASSUME NEW kind \in {"timeout", "provider", "other"}, DispatchFails(kind)
      PROVE  GapInv'
  BY <1>6, <1>t DEF DispatchFails
<1>7. CASE EscalateAfterError \/ EscalateAfterQuality
  <2>1. /\ tier' \in Landing(tier)
        /\ tried' = tried /\ exit' = exit /\ pc' = "loop"
        /\ pc \in {"except", "escalate"}
    BY <1>7 DEF EscalateAfterError, EscalateAfterQuality
  <2>2. \A u \in Tiers : /\ u < tier /\ u >= req.maxTier /\ Capable(u) # {}
                         => u <= tier'
    BY <1>t, <2>1, LandingTier
  <2>3. tier' \in Tiers /\ tier' < tier
    BY <1>t, <2>1, LandingTier
  <2> QED
    BY <1>t, <2>1, <2>2, <2>3 DEF Tiers
<1>8. CASE RaiseError
  <2>1. \A n \in Tiers : n < tier /\ n >= req.maxTier => Capable(n) = {}
    BY <1>8, <1>t, NoLanding DEF RaiseError, NowhereToEscalate
  <2> QED
    BY <1>8, <1>t, <2>1 DEF RaiseError, Finish, Tiers
<1>9. ASSUME NEW verdict \in {"pass", "fail"}, CheckQuality(verdict)
      PROVE  GapInv'
  BY <1>9, <1>t DEF CheckQuality, Finish
<1>10. CASE UNCHANGED vars
  BY <1>10 DEF vars
<1> QED
  BY <1>1, <1>2, <1>3, <1>4, <1>5, <1>6, <1>7, <1>8, <1>9, <1>10
  DEF Next, Step, Returned

(* An error is raised only after every tier the request could be escalated to
   was dispatched to. *)
THEOREM NoTierLeftUntriedCorrect == Spec => []NoTierLeftUntried
<1>1. Init => GapInv
  BY DEF Init, GapInv, NoTierLeftUntried
<1>2. GapInv => NoTierLeftUntried
  BY DEF GapInv
<1> QED
  BY <1>1, <1>2, GapStep, TypeInvariant, ExitInvariant, PTL DEF Spec

(* After a denial the request is at tier 2 or 1; poor answers of tier 1 are
   never escalated. *)
DenialInv ==
  /\ capFellBack /\ pc # "done" => tier \in {1, 2}
  /\ pc \in {"aggregate", "escalate"} => tier # 1
  /\ pc = "start" => ~capFellBack

LEMMA DenialStep == TypeInv /\ DenialInv /\ [Next]_vars => DenialInv'
<1> SUFFICES ASSUME TypeInv, DenialInv, [Next]_vars PROVE DenialInv'
  OBVIOUS
<1> USE DEF DenialInv
<1>1. CASE RejectIncapable \/ RaiseError \/ BudgetExhausted \/ ReturnCurrent
           \/ ExhaustTiers \/ DegradeToLast \/ AggregationSucceeds
           \/ GateRaises
  BY <1>1 DEF RejectIncapable, RaiseError, BudgetExhausted, ReturnCurrent,
              ExhaustTiers, DegradeToLast, AggregationSucceeds, GateRaises,
              Finish
<1>2. CASE SelectInitial \/ BeginDispatch \/ FrontierAllowed \/ FrontierDenied
  BY <1>2 DEF SelectInitial, BeginDispatch, FrontierAllowed, FrontierDenied
<1>3. CASE DispatchSucceeds \/ SameTierFallback \/ AggregationFails
  BY <1>3 DEF DispatchSucceeds, SameTierFallback, AggregationFails
<1>4. ASSUME NEW kind \in {"timeout", "provider", "other"}, DispatchFails(kind)
      PROVE  DenialInv'
  BY <1>4 DEF DispatchFails
<1>5. CASE EscalateAfterError \/ EscalateAfterQuality
  <2>1. tier \in Tiers /\ tier' \in Landing(tier)
    BY <1>5 DEF EscalateAfterError, EscalateAfterQuality, TypeInv, TypeOK
  <2>2. tier' \in Tiers /\ tier' < tier
    BY <2>1, LandingTier
  <2> QED
    BY <1>5, <2>1, <2>2 DEF EscalateAfterError, EscalateAfterQuality, Tiers
<1>6. ASSUME NEW verdict \in {"pass", "fail"}, CheckQuality(verdict)
      PROVE  DenialInv'
  BY <1>6 DEF CheckQuality, Finish
<1>7. CASE UNCHANGED vars
  BY <1>7 DEF vars
<1> QED
  BY <1>1, <1>2, <1>3, <1>4, <1>5, <1>6, <1>7 DEF Next, Step, Returned

LEMMA DenialInvariant == Spec => []DenialInv
<1>1. Init => DenialInv
  BY DEF Init, DenialInv
<1> QED
  BY <1>1, DenialStep, TypeInvariant, PTL DEF Spec

(* A tier changes by an escalation no deeper than max_tier, by the fallback of
   a denied frontier dispatch, or on return. *)
THEOREM TierChangesAllowedCorrect == Spec => TierChangesAllowed
<1> DEFINE Allowed ==
      tier' # tier /\ pc # "start" /\ pc' # "done" =>
        \/ tier' < tier /\ tier' >= req.maxTier
        \/ tier = 1 /\ tier' = 2 /\ capFellBack'
<1>1. ASSUME TypeInv, [Next]_vars PROVE [Allowed]_vars
  <2>1. CASE RejectIncapable \/ RaiseError \/ BudgetExhausted \/ ReturnCurrent
             \/ ExhaustTiers \/ DegradeToLast \/ AggregationSucceeds
             \/ GateRaises
    BY <2>1 DEF RejectIncapable, RaiseError, BudgetExhausted, ReturnCurrent,
                ExhaustTiers, DegradeToLast, AggregationSucceeds, GateRaises,
                Finish
  <2>2. CASE SelectInitial \/ BeginDispatch \/ FrontierAllowed
             \/ FrontierDenied
    BY <2>2 DEF SelectInitial, BeginDispatch, FrontierAllowed, FrontierDenied
  <2>3. CASE DispatchSucceeds \/ SameTierFallback \/ AggregationFails
    BY <2>3 DEF DispatchSucceeds, SameTierFallback, AggregationFails
  <2>4. ASSUME NEW kind \in {"timeout", "provider", "other"},
               DispatchFails(kind)
        PROVE  Allowed
    BY <2>4 DEF DispatchFails
  <2>5. CASE EscalateAfterError \/ EscalateAfterQuality
    <3>1. tier \in Tiers /\ tier' \in Landing(tier)
      BY <1>1, <2>5 DEF EscalateAfterError, EscalateAfterQuality, TypeInv,
                       TypeOK
    <3> QED
      BY <3>1, LandingTier
  <2>6. ASSUME NEW verdict \in {"pass", "fail"}, CheckQuality(verdict)
        PROVE  Allowed
    BY <2>6 DEF CheckQuality
  <2>7. CASE UNCHANGED vars
    BY <2>7
  <2> QED
    BY <1>1, <2>1, <2>2, <2>3, <2>4, <2>5, <2>6, <2>7
    DEF Next, Step, Returned
<1> QED
  BY <1>1, TypeInvariant, PTL DEF Spec, TierChangesAllowed

(* After the frontier cap was hit, a poor answer is returned rather than sent
   to the frontier. *)
THEOREM QualityKeepsOffFrontierCorrect == Spec => QualityKeepsOffFrontier
<1> DEFINE KeptOff ==
      pc = "escalate" /\ capFellBack => tier' = tier \/ pc' = "done"
<1>1. ASSUME TypeInv, DenialInv, [Next]_vars PROVE [KeptOff]_vars
  <2>1. CASE EscalateAfterQuality
    <3>1. ~(pc = "escalate" /\ capFellBack)
      <4>1. ~(tier - 1 = 1 /\ capFellBack)
        BY <2>1 DEF EscalateAfterQuality, MayEscalate
      <4>2. pc = "escalate" /\ capFellBack => tier = 2
        BY <1>1 DEF DenialInv
      <4> QED
        BY <4>1, <4>2
    <3> QED
      BY <3>1
  <2>2. CASE ReturnCurrent \/ ExhaustTiers
    BY <2>2 DEF ReturnCurrent, ExhaustTiers, Finish
  <2>3. CASE RejectIncapable \/ RaiseError \/ BudgetExhausted \/ DegradeToLast
             \/ AggregationSucceeds \/ SelectInitial \/ BeginDispatch
             \/ FrontierAllowed \/ FrontierDenied \/ DispatchSucceeds
             \/ SameTierFallback \/ EscalateAfterError \/ AggregationFails
             \/ GateRaises
    BY <2>3 DEF RejectIncapable, RaiseError, BudgetExhausted, DegradeToLast,
         AggregationSucceeds, SelectInitial, BeginDispatch, FrontierAllowed,
         FrontierDenied, DispatchSucceeds, SameTierFallback,
         EscalateAfterError, AggregationFails, GateRaises
  <2>4. ASSUME NEW kind \in {"timeout", "provider", "other"},
               DispatchFails(kind)
        PROVE  KeptOff
    BY <2>4 DEF DispatchFails
  <2>5. ASSUME NEW verdict \in {"pass", "fail"}, CheckQuality(verdict)
        PROVE  KeptOff
    BY <2>5 DEF CheckQuality
  <2>6. CASE UNCHANGED vars
    BY <2>6
  <2> QED
    BY <1>1, <2>1, <2>2, <2>3, <2>4, <2>5, <2>6 DEF Next, Step, Returned
<1> QED
  BY <1>1, TypeInvariant, DenialInvariant, PTL
  DEF Spec, QualityKeepsOffFrontier

-----------------------------------------------------------------------------
(* Refinement.  A response held by the cascade is one the contract can name,
   and NoResponse is the contract's None. *)
LEMMA HeldResponse ==
  ASSUME result \in Response \cup {NoResponse}
  PROVE  result = NoResponse <=>
           [model |-> result.model, tier |-> result.tier]
             = [model |-> NoModel, tier |-> 0]
<1>1. CASE result = NoResponse
  BY <1>1 DEF NoResponse
<1>2. CASE result \in Response
  <2>1. result.model \in Models
    BY <1>2 DEF Response
  <2>2. result.model # NoModel
    BY <2>1, ModelAssumption
  <2>3. result # NoResponse
    BY <2>2 DEF NoResponse
  <2>4. [model |-> result.model, tier |-> result.tier].model
          # [model |-> NoModel, tier |-> 0].model
    BY <2>2
  <2> QED
    BY <2>3, <2>4
<1> QED
  BY <1>1, <1>2

LEMMA ContractStep ==
  TypeInv /\ ExitInv /\ [Next]_vars => [Contract!Next]_(Contract!vars)
<1> SUFFICES ASSUME TypeInv, ExitInv, [Next]_vars
             PROVE  [Contract!Next]_(Contract!vars)
  OBVIOUS
<1> USE DEF Contract!Next, Contract!vars, Contract!Receive, Contract!Answer,
            Contract!Judge, Contract!Fail, Contract!Break
<1>t. /\ result \in Response \cup {NoResponse}
      /\ exit # "none" => pc = "done"
      /\ pc # "quality" /\ exit # "gate_raised" /\ result # NoResponse =>
           result.verdict # "unset"
  BY DEF TypeInv, TypeOK, ExitInv
<1> USE DEF ErrorExits
<1>1. CASE SelectInitial \/ BeginDispatch \/ FrontierAllowed \/ FrontierDenied
           \/ SameTierFallback \/ EscalateAfterError \/ EscalateAfterQuality
           \/ AggregationFails
  BY <1>1 DEF SelectInitial, BeginDispatch, FrontierAllowed, FrontierDenied,
       SameTierFallback, EscalateAfterError, EscalateAfterQuality,
       AggregationFails
<1>2. ASSUME NEW kind \in {"timeout", "provider", "other"}, DispatchFails(kind)
      PROVE  [Contract!Next]_(Contract!vars)
  BY <1>2 DEF DispatchFails
<1>3. CASE UNCHANGED vars
  BY <1>3 DEF vars
<1>4. CASE DispatchSucceeds
  <2>1. selected \in Models /\ tier \in Tiers
    BY <1>4 DEF DispatchSucceeds, TypeInv, TypeOK, ModelSelected
  <2>2. /\ result'.model = selected /\ result'.tier = tier
        /\ result'.verdict = "unset"
    BY <1>4 DEF DispatchSucceeds
  <2>3. exit = "none" /\ exit' = exit
    BY <1>4, <1>t DEF DispatchSucceeds
  <2> QED
    BY <2>1, <2>2, <2>3
<1>5. CASE RejectIncapable \/ RaiseError
  <2>1. result' = result /\ exit = "none" /\ exit' \in ErrorExits
    BY <1>5, <1>t DEF RejectIncapable, RaiseError, Finish
  <2>. exit' # "gate_raised"
    BY <1>5 DEF RejectIncapable, RaiseError, Finish
  <2>2. result = NoResponse
    BY <1>5 DEF RaiseError, RejectIncapable, ExitInv
  <2> QED
    BY <2>1, <2>2 DEF NoResponse
<1>6. CASE BudgetExhausted
  BY <1>6, <1>t, HeldResponse DEF BudgetExhausted, Finish
<1>7. CASE DegradeToLast \/ ReturnCurrent \/ ExhaustTiers
  <2>1. /\ result' = result /\ result # NoResponse /\ exit = "none"
        /\ exit' \in {"degraded", "max_escalations", "no_next_tier",
                      "exhausted_tiers"}
    BY <1>7, <1>t DEF DegradeToLast, ReturnCurrent, ExhaustTiers, Finish,
                      TypeInv, ResponseThere
  <2> QED
    BY <1>t, <1>7, <2>1, HeldResponse
    DEF DegradeToLast, ReturnCurrent, ExhaustTiers
<1>8. ASSUME NEW verdict \in {"pass", "fail"}, CheckQuality(verdict)
      PROVE  [Contract!Next]_(Contract!vars)
  <2>1. result # NoResponse /\ result \in Response
    BY <1>8, <1>t DEF CheckQuality, TypeInv, ResponseThere
  <2>2. /\ result'.model = result.model /\ result'.tier = result.tier
        /\ result'.verdict # "unset"
    BY <1>8, <2>1 DEF CheckQuality, Response
  <2>3. exit = "none" /\ exit' \in {"none", "frontier", "passed"}
    BY <1>8, <1>t DEF CheckQuality, Finish
  <2> QED
    BY <1>t, <2>1, <2>2, <2>3, HeldResponse
<1>9. CASE AggregationSucceeds
  <2>1. PICK m \in Candidates :
          result' = [model |-> m, tier |-> tier, verdict |-> "pass"]
    BY <1>9 DEF AggregationSucceeds
  <2>2. m \in Models /\ tier \in Tiers
    BY FilterSubset, CapableModels DEF Candidates, Visit!Candidates, TypeInv, TypeOK
  <2>3. /\ result'.model = m /\ result'.tier = tier
        /\ result'.verdict # "unset"
    BY <2>1
  <2>4. exit = "none" /\ exit' = "aggregated"
    BY <1>9, <1>t DEF AggregationSucceeds, Finish
  <2>5. [model |-> m, tier |-> tier] # [model |-> NoModel, tier |-> 0]
    <3>1. [model |-> m, tier |-> tier].model
            # [model |-> NoModel, tier |-> 0].model
      BY <2>2, ModelAssumption
    <3> QED
      BY <3>1
  <2> QED
    BY <2>2, <2>3, <2>4, <2>5
<1>10. CASE GateRaises
  <2>1. result # NoResponse /\ result' = result /\ result.verdict = "unset"
    BY <1>10 DEF GateRaises, TypeInv, ResponseThere, ExitInv
  <2>2. exit = "none" /\ exit' = "gate_raised"
    BY <1>10, <1>t DEF GateRaises, Finish
  <2> QED
    BY <1>t, <2>1, <2>2, HeldResponse
<1> QED
  BY <1>1, <1>2, <1>3, <1>4, <1>5, <1>6, <1>7, <1>8, <1>9, <1>10
  DEF Next, Step, Returned

(* The cascade hands out the newest response it received, judged, and fails
   only when it received none or when judging the newest one raises. *)
THEOREM ContractCorrect == Spec => ContractSpec
<1>1. Init => Contract!Init
  BY DEF Init, NoResponse, Contract!Init
<1> QED
  BY <1>1, ContractStep, TypeInvariant, ExitInvariant, PTL
  DEF Spec, ContractSpec, Contract!Spec

-----------------------------------------------------------------------------
(* Time.  A product grows with its second factor. *)
LEMMA ProductMonotone ==
  ASSUME NEW a \in Nat, NEW x \in Nat, NEW y \in Nat, x <= y
  PROVE  a * x <= a * y
<1>1. a * (y - x) >= 0
  OBVIOUS
<1>2. a * (y - x) = a * y - a * x
  OBVIOUS
<1>3. a * x \in Int /\ a * y \in Int
  OBVIOUS
<1> QED
  BY <1>1, <1>2, <1>3

(* The attempts of a dispatch are limited to what is left of the budget when it
   begins, at e; with the calls c before it, which were within the budget and
   within e as long as that is, they take no more than the budget times the
   attempts, and the pauses. *)
LEMMA AttemptsBounded ==
  ASSUME NEW a \in Nat \ {0}, NEW b \in Nat, NEW e \in Nat, NEW c \in Nat,
         c < b, e < b => c <= e,
         NEW s \in Nat, NEW r \in Nat, NEW d \in Nat,
         d <= a * (IF Least(s, b - e) > 0 THEN Least(s, b - e) ELSE 0) + r
  PROVE  c + d <= a * b + r
<1> DEFINE l == IF Least(s, b - e) > 0 THEN Least(s, b - e) ELSE 0
<1>1. l \in Nat /\ l <= b - c
  BY DEF Least
<1> HIDE DEF l
<1>2. b - c \in Nat
  OBVIOUS
<1>3. a * l <= a * (b - c)
  BY <1>1, <1>2, ProductMonotone
<1>4. a * (b - c) = a * b - a * c
  OBVIOUS
<1>5. c <= a * c
  <2>1. (a - 1) * c >= 0
    OBVIOUS
  <2>2. (a - 1) * c = a * c - c
    OBVIOUS
  <2>3. a * c \in Int
    OBVIOUS
  <2> QED
    BY <2>1, <2>2, <2>3
<1>6. a * b \in Int /\ a * c \in Int /\ a * l \in Int
  BY <1>1
<1>7. d <= a * l + r
  BY DEF l
<1> QED
  BY <1>3, <1>4, <1>5, <1>6, <1>7

(* As long as the budget lasts the clock has counted every call.  A dispatch is
   decided on within the budget, whatever is awaited before it begins; its own
   attempts are all that can take the calls past it until the answer is
   judged. *)
TimeInv ==
  /\ elapsed < Budget => calling <= elapsed
  /\ pc = "dispatch" => calling < Budget
  /\ pc \in {"except", "quality", "aggregate"} =>
       calling <= Attempts * Budget + Pauses
  /\ ProviderTimeBounded

(* Waiting changes nothing of it. *)
LEMMA WaitCounted ==
  ASSUME TypeInv, elapsed < Budget => calling <= elapsed, Wait
  PROVE  calling' = calling /\ (elapsed' < Budget => calling' <= elapsed')
<1>1. PICK w \in Nat : Elapse(0, w)
  BY TimeAssumption DEF Wait
<1> QED
  BY <1>1, ElapseTyped, TimeAssumption DEF TypeInv, TypeOK

LEMMA CallsCounted ==
  ASSUME TypeInv, elapsed < Budget => calling <= elapsed,
         NEW d \in Nat, NEW w \in Nat, Elapse(d, w)
  PROVE  elapsed' < Budget => calling' <= elapsed'
BY ElapseTyped, TimeAssumption DEF TypeInv, TypeOK

LEMMA TimeStep == TypeInv /\ TimeInv /\ [Next]_vars => TimeInv'
<1> SUFFICES ASSUME TypeInv, TimeInv, [Next]_vars PROVE TimeInv'
  OBVIOUS
<1> USE DEF TimeInv, ProviderTimeBounded
<1>t. /\ elapsed \in Nat /\ calling \in Nat /\ elapsed \in 0..Horizon
      /\ Attempts * Budget \in Nat /\ Budget \in Nat
      /\ Attempts * DefaultTimeout \in Nat
      /\ Pauses \in Nat
  BY TimeAssumption DEF TypeInv, TypeOK
<1>d. ASSUME pc = "dispatch", Spend(EffectiveTimeout)
      PROVE  /\ calling' \in Nat /\ calling' <= Attempts * Budget + Pauses
             /\ elapsed' < Budget => calling' <= elapsed'
  <2>1. PICK d \in CallTime(EffectiveTimeout) : Elapse(d, 0)
    BY <1>d DEF Spend
  <2>2. d \in Nat /\ Slo[tier] \in Nat /\ calling < Budget
    BY <1>d, TimeAssumption DEF TypeInv, TypeOK, CallTime
  <2>3. calling' = calling + d
    BY <2>1, <2>2, <1>t, ElapseTyped
  <2>4. calling + d <= Attempts * Budget + Pauses
    BY <1>t, <2>1, <2>2, AttemptsBounded, TimeAssumption
    DEF CallTime, EffectiveTimeout
  <2> QED
    BY <1>t, <2>1, <2>2, <2>3, <2>4, CallsCounted
<1>a. ASSUME calling <= Attempts * Budget + Pauses, SpendAndWait
      PROVE  /\ ProviderTimeBounded'
             /\ elapsed' < Budget => calling' <= elapsed'
  <2>1. PICK d \in CallTime(DefaultTimeout), w \in Waits : Elapse(d, w)
    BY <1>a DEF SpendAndWait
  <2>2. /\ d \in Nat /\ w \in Nat
        /\ d <= Attempts * DefaultTimeout + Pauses
    BY TimeAssumption DEF CallTime
  <2>3. calling' = calling + d
    BY <2>1, <2>2, <1>t, ElapseTyped
  <2> QED
    BY <1>a, <1>t, <2>1, <2>2, <2>3, CallsCounted
<1>1. CASE RejectIncapable \/ RaiseError \/ BudgetExhausted \/ DegradeToLast
           \/ ReturnCurrent \/ ExhaustTiers \/ SelectInitial
  BY <1>1 DEF RejectIncapable, RaiseError, BudgetExhausted, DegradeToLast,
              ReturnCurrent, ExhaustTiers, SelectInitial, Finish
<1>2. CASE SameTierFallback \/ EscalateAfterError \/ EscalateAfterQuality
           \/ GateRaises
  BY <1>2, WaitCounted DEF SameTierFallback, EscalateAfterError,
                           EscalateAfterQuality, GateRaises, Finish
<1>3. CASE BeginDispatch
  BY <1>3, <1>t DEF BeginDispatch, OutOfTime
<1>4. CASE FrontierAllowed \/ FrontierDenied
  BY <1>4, <1>t, WaitCounted DEF FrontierAllowed, FrontierDenied, OutOfTime
<1>5. CASE DispatchSucceeds
  BY <1>5, <1>t, <1>d DEF DispatchSucceeds
<1>6. ASSUME NEW kind \in {"timeout", "provider", "other"}, DispatchFails(kind)
      PROVE  TimeInv'
  BY <1>6, <1>t, <1>d DEF DispatchFails
<1>7. ASSUME NEW verdict \in {"pass", "fail"}, CheckQuality(verdict)
      PROVE  TimeInv'
  BY <1>7, WaitCounted DEF CheckQuality, Finish
<1>8. CASE AggregationSucceeds
  BY <1>8, <1>a DEF AggregationSucceeds, Finish
<1>9. CASE AggregationFails
  BY <1>9, <1>a DEF AggregationFails
<1>10. CASE UNCHANGED vars
  BY <1>10 DEF vars
<1> QED
  BY <1>1, <1>2, <1>3, <1>4, <1>5, <1>6, <1>7, <1>8, <1>9, <1>10
  DEF Next, Step, Returned

(* However long the calls of a request, and all that it awaits between them,
   take: the calls are within the retried limits of one dispatch and one
   aggregation. *)
THEOREM ProviderTimeBoundedCorrect == Spec => []ProviderTimeBounded
<1>1. Init => TimeInv
  BY TimeAssumption DEF Init, TimeInv, ProviderTimeBounded
<1>2. TimeInv => ProviderTimeBounded
  BY DEF TimeInv
<1> QED
  BY <1>1, <1>2, TimeStep, TypeInvariant, PTL DEF Spec

-----------------------------------------------------------------------------
(* A bound on the steps a request can still take: each dispatch uses up some of
   the budget, and from one dispatch to the next there are few steps.  A dispatch
   that begins when none is left, after a long wait for the cap, is the last.
   Without the budget there is no such bound, since a denial of the frontier
   leads back to tier 2. *)
BudgetLeft == IF elapsed < Budget THEN Budget - elapsed ELSE 0

StepsToDispatch ==
  [done |-> 0, dispatch |-> IF OutOfTime THEN 6 ELSE 1, loop |-> 2, escalate |-> 3, aggregate |-> 4,
   quality |-> 5, except |-> 5, start |-> 6][pc]

StepsLeft == 7 * BudgetLeft + StepsToDispatch

LEMMA StepsLeftTyped ==
  /\ TypeInv => BudgetLeft \in Nat /\ StepsToDispatch \in 0..6
  /\ TypeInv' => BudgetLeft' \in Nat /\ StepsToDispatch' \in 0..6
BY TimeAssumption DEF TypeInv, TypeOK, PCs, BudgetLeft, StepsToDispatch

(* The budget never grows, and every dispatch takes of it. *)
LEMMA BudgetSpent ==
  ASSUME TypeInv, NEW d \in Nat, NEW w \in Nat, Elapse(d, w)
  PROVE  /\ BudgetLeft' \in Nat /\ BudgetLeft' <= BudgetLeft
         /\ elapsed < Budget /\ d # 0 => BudgetLeft' < BudgetLeft
         /\ OutOfTime => OutOfTime'
BY TimeAssumption
DEF TypeInv, TypeOK, Elapse, Least, BudgetLeft, OutOfTime

LEMMA WaitSpent ==
  ASSUME TypeInv, Wait \/ SpendAndWait
  PROVE  BudgetLeft' <= BudgetLeft
<1>1. PICK d \in Nat, w \in Nat : Elapse(d, w)
  BY TimeAssumption DEF Wait, SpendAndWait, CallTime
<1> QED
  BY <1>1, BudgetSpent

LEMMA StepsLeftDecreases ==
  TypeInv /\ TypeInv' /\ Step => StepsLeft' < StepsLeft
<1> SUFFICES ASSUME TypeInv, TypeInv', Step PROVE StepsLeft' < StepsLeft
  OBVIOUS
<1>t. /\ BudgetLeft \in Nat /\ BudgetLeft' \in Nat
      /\ StepsToDispatch \in 0..6 /\ StepsToDispatch' \in 0..6
  BY StepsLeftTyped
<1>u. /\ BudgetLeft' <= BudgetLeft /\ StepsToDispatch' < StepsToDispatch
           => StepsLeft' < StepsLeft
      /\ BudgetLeft' < BudgetLeft => StepsLeft' < StepsLeft
  <2> DEFINE b == BudgetLeft
             c == BudgetLeft'
             x == StepsToDispatch
             y == StepsToDispatch'
  <2>1. StepsLeft = 7 * b + x /\ StepsLeft' = 7 * c + y
    BY DEF StepsLeft
  <2>2. b \in Nat /\ c \in Nat /\ x \in 0..6 /\ y \in 0..6
    BY <1>t
  <2> HIDE DEF b, c, x, y
  <2>3. ((c <= b /\ y < x) \/ c < b) => 7 * c + y < 7 * b + x
    BY <2>2
  <2> QED
    BY <2>1, <2>3 DEF b, c, x, y
<1>k. elapsed' = elapsed => BudgetLeft' = BudgetLeft
  BY DEF BudgetLeft
<1> USE DEF StepsToDispatch
<1>1. CASE RejectIncapable \/ SelectInitial
  BY <1>1, <1>k, <1>t, <1>u DEF RejectIncapable, SelectInitial, Finish
<1>2. CASE BudgetExhausted
  BY <1>2, <1>k, <1>t, <1>u DEF BudgetExhausted, Finish
<1>3. CASE BeginDispatch
  BY <1>3, <1>k, <1>t, <1>u DEF BeginDispatch, OutOfTime
<1>4. CASE FrontierAllowed \/ FrontierDenied
  <2>1. /\ ~OutOfTime /\ pc = "loop" /\ pc' = "dispatch"
        /\ BudgetLeft' <= BudgetLeft
    BY <1>4, WaitSpent DEF FrontierAllowed, FrontierDenied
  <2>2. CASE OutOfTime'
    <3>1. elapsed \in Nat /\ elapsed' \in Nat /\ Budget \in Nat
      BY TimeAssumption DEF TypeInv, TypeOK
    <3>2. elapsed < Budget /\ ~(elapsed' < Budget)
      BY <2>1, <2>2, <3>1 DEF OutOfTime
    <3>3. BudgetLeft' = 0
      BY <3>2 DEF BudgetLeft
    <3>4. BudgetLeft = Budget - elapsed
      BY <3>2 DEF BudgetLeft
    <3> QED
      BY <3>1, <3>2, <3>3, <3>4, <1>u
  <2>3. CASE ~OutOfTime'
    BY <2>1, <2>3, <1>t, <1>u
  <2> QED
    BY <2>2, <2>3
<1>5. CASE DispatchSucceeds
           \/ \E kind \in {"timeout", "provider", "other"} : DispatchFails(kind)
  <2>1. pc = "dispatch" /\ Spend(EffectiveTimeout) /\ pc' \in {"quality", "except"}
    BY <1>5 DEF DispatchSucceeds, DispatchFails
  <2>2. PICK d \in Nat \ {0} : Elapse(d, 0)
    BY <2>1, TimeAssumption DEF Spend, CallTime
  <2>3. CASE OutOfTime
    BY <2>1, <2>2, <2>3, <1>t, <1>u, BudgetSpent
  <2>4. CASE ~OutOfTime
    <3>1. elapsed < Budget
      BY <2>4, TimeAssumption DEF OutOfTime, TypeInv, TypeOK
    <3> QED
      BY <2>2, <3>1, <1>u, BudgetSpent
  <2> QED
    BY <2>3, <2>4
<1>6. CASE SameTierFallback \/ EscalateAfterError \/ EscalateAfterQuality
           \/ GateRaises
  BY <1>6, <1>t, <1>u, WaitSpent
  DEF SameTierFallback, EscalateAfterError, EscalateAfterQuality, GateRaises,
      Finish
<1>7. CASE DegradeToLast \/ RaiseError \/ ReturnCurrent \/ ExhaustTiers
  BY <1>7, <1>k, <1>t, <1>u
  DEF DegradeToLast, RaiseError, ReturnCurrent, ExhaustTiers, Finish
<1>8. CASE \E verdict \in {"pass", "fail"} : CheckQuality(verdict)
  <2>1. pc = "quality" /\ pc' \in {"done", "aggregate"} /\ Wait
    BY <1>8 DEF CheckQuality, Finish
  <2> QED
    BY <2>1, <1>t, <1>u, WaitSpent
<1>9. CASE AggregationSucceeds \/ AggregationFails
  <2>1. pc = "aggregate" /\ pc' \in {"done", "escalate"}
    BY <1>9 DEF AggregationSucceeds, AggregationFails, Finish
  <2>2. BudgetLeft' <= BudgetLeft
    BY <1>9, <1>k, <1>t, WaitSpent DEF AggregationSucceeds, AggregationFails
  <2> QED
    BY <2>1, <2>2, <1>t, <1>u
<1> QED
  BY <1>1, <1>2, <1>3, <1>4, <1>5, <1>6, <1>7, <1>8, <1>9 DEF Step

(* No request goes on for ever: whatever fails, is denied or judged poor, each
   step of run() lowers a natural number.  That it does take its steps is what
   Returns needs fairness for. *)
THEOREM StepsBoundedCorrect ==
  Spec => [][Step => StepsLeft' < StepsLeft /\ StepsLeft' \in Nat]_vars
<1>1. TypeInv /\ TypeInv' /\ [Next]_vars
        => [Step => StepsLeft' < StepsLeft /\ StepsLeft' \in Nat]_vars
  <2> SUFFICES ASSUME TypeInv, TypeInv', Step
               PROVE  StepsLeft' < StepsLeft /\ StepsLeft' \in Nat
    OBVIOUS
  <2>1. BudgetLeft' \in Nat /\ StepsToDispatch' \in 0..6
    BY StepsLeftTyped
  <2> QED
    BY <2>1, StepsLeftDecreases DEF StepsLeft, BudgetLeft, StepsToDispatch
<1> QED
  BY <1>1, TypeInvariant, PTL DEF Spec

=============================================================================
