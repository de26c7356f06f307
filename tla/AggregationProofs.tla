------------------------- MODULE AggregationProofs --------------------------
(***************************************************************************)
(* Proofs about Aggregation, for any catalog, profiles, answers and limits: *)
(* whose answer an aggregation takes, when it is skipped, and that the     *)
(* score by which models are chosen respects domination.                   *)
(***************************************************************************)
EXTENDS Aggregation, SelectionProofs

LEMMA FiniteModels == \A S \in SUBSET Models : IsFiniteSet(S)
  BY TierAssumption, FS_Subset

(* The trusted models of a tier compete. *)
LEMMA TrustedCompete ==
  ASSUME NEW P \in ProfileTables, NEW S \in SUBSET Models, Trusted(P, S) # {}
  PROVE  Competitors(P, Trusted(P, S))
  <1>1. IsFiniteSet(Trusted(P, S)) /\ Trusted(P, S) \subseteq Models
    BY TierAssumption, FS_Subset DEF Trusted, Sampled
  <1>2. \A m \in Trusted(P, S) : P[m] \in ProfileType /\ P[m].success >= MinSuccess
    BY DataAssumption DEF Trusted, Sampled
  <1>3. \A m \in Trusted(P, S) : P[m].quality \in Nat /\ P[m].cost \in Nat
                                    /\ P[m].success \in MinSuccess..100
    BY <1>2, TierAssumption DEF ProfileType, MinSuccess
  <1> QED
    BY <1>1, <1>3 DEF Competitors

(* A dominating model has the higher fitness, if the other's is positive. *)
LEMMA DominatingFitter ==
  ASSUME NEW T, Competitors(profiles, T), NEW x \in 0..10, NEW m \in T, NEW k \in T,
         Dominates(m, k), Pareto(profiles, T, x, k) > 0
  PROVE  Fitness(profiles, T, x, k) < Fitness(profiles, T, x, m)
  <1> DEFINE d == Pareto(profiles, T, x, k)
             e == Pareto(profiles, T, x, m)
             s == profiles[k].success
             r == profiles[m].success
  <1>1. /\ profiles[m].quality \in Nat /\ profiles[k].quality \in Nat
        /\ profiles[m].cost \in Nat /\ profiles[k].cost \in Nat
        /\ s \in 50..100 /\ r \in 50..100
    BY DEF Competitors, MinSuccess
  <1>2. s <= r /\ profiles[m].quality >= profiles[k].quality
          /\ profiles[m].cost <= profiles[k].cost
    BY <1>1 DEF Dominates
  <1>3. d \in Int /\ e \in Int /\ d <= e
    BY <1>2, ParetoMonotone
  <1>4. profiles[m].quality > profiles[k].quality \/ profiles[m].cost < profiles[k].cost
          => d < e
    BY <1>2, ParetoMonotone
  <1>5. d < e \/ s < r
    BY <1>1, <1>4 DEF Dominates
  <1>6. d > 0
    OBVIOUS
  <1> HIDE DEF d, e, s, r
  <1>7. d * s < e * r
    BY <1>1, <1>2, <1>3, <1>5, <1>6, WeighedOrder
  <1> QED
    BY <1>7 DEF Fitness, Weighed, d, e, s, r

-----------------------------------------------------------------------------
(* What selection and gate look at stays what it may be. *)
Typed ==
  /\ pool \subseteq Models
  /\ req \in Requests
  /\ profiles \in ProfileTables
  /\ signal \in SignalTables

LEMMA TypedStep == ASSUME Typed, [Next]_vars PROVE Typed'
  <1>1. CASE Refresh
    BY <1>1 DEF Refresh, Typed
  <1>2. CASE UNCHANGED config
    BY <1>2 DEF Typed, config
  <1>3. ASSUME NEW m \in Models, Expert(m) PROVE UNCHANGED config
    BY <1>3 DEF Expert, TransientError, Retry, FatalError, Return
  <1>4. CASE Select \/ Explore \/ (\E a \in Answers : JudgeFirst(a) \/ GateRaises(a))
               \/ Skip \/ DispatchParallel \/ Join
               \/ (\E i \in DOMAIN asked : JudgeExpert(i)) \/ ConcludeAggregation
    BY <1>2, <1>4 DEF Select, Explore, JudgeFirst, GateRaises, Skip, DispatchParallel,
       Join, JudgeExpert, ConcludeAggregation
  <1>5. CASE UNCHANGED vars
    BY <1>2, <1>5 DEF vars
  <1> QED
    BY <1>1, <1>2, <1>3, <1>4, <1>5 DEF Next, Visit, Returned

LEMMA TypedAlways == Spec => []Typed
  <1>1. Init => Typed
    BY TierAssumption DEF Init, Typed
  <1> QED
    BY <1>1, TypedStep, PTL DEF Spec

(* Of models no learned signal tells apart, the fittest is dominated by none. *)
LEMMA FittestUndominated ==
  ASSUME Typed, NEW T \in SUBSET Models, Competitors(profiles, T), NEW x \in 0..10,
         NEW m \in Exploited(profiles, T, x, signal),
         \A k \in T : signal[k] = signal[m]
  PROVE  \A k \in T : ~Dominates(k, m)
  <1> DEFINE b == Spread(Qualities(profiles, T))
             a == Spread(Costs(profiles, T))
             bonus(k) == 100 * signal[k] * b * a
             F(k) == Fitness(profiles, T, x, k)
  <1>1. m \in T
    BY DEF Exploited
  <1>2. \A k \in T : F(k) \in Int
    BY FitnessType
  <1>3. a \in Nat /\ b \in Nat
    BY RangesPositive
  <1>4. \A k \in T : bonus(k) = bonus(m)
    OBVIOUS
  <1>5. bonus(m) \in Int
    <2>1. signal[m] \in Int
      BY <1>1, DataAssumption DEF Typed, Competitors
    <2> HIDE DEF a, b
    <2> QED
      BY <2>1, <1>3
  <1>6. \A k \in T : F(k) + bonus(k) <= F(m) + bonus(m)
    BY DEF Exploited, FitnessWithSignal
  <1> HIDE DEF bonus, F
  <1>7. \A k \in T : F(k) <= F(m)
    BY <1>1, <1>2, <1>4, <1>5, <1>6
  <1>8. F(m) > 0
    <2>1. PICK k \in T : Pareto(profiles, T, x, k) > 0
      BY SomePositive
    <2>2. F(k) > 0
      BY <2>1, FitnessType DEF F
    <2> QED
      BY <1>1, <1>2, <1>7, <2>2
  <1>9. Pareto(profiles, T, x, m) > 0
    BY <1>1, <1>8, FitnessType DEF F
  <1>10. ASSUME NEW k \in T, Dominates(k, m) PROVE FALSE
    <2>1. F(m) < F(k)
      BY <1>1, <1>9, <1>10, DominatingFitter DEF F
    <2> QED
      BY <1>1, <1>2, <1>7, <2>1
  <1> QED
    BY <1>10

(* get_best_model() never settles on a model that a trusted one dominates in
   quality, cost and success rate, unless learned signals tell them apart. *)
THEOREM UndominatedBestCorrect == Spec => UndominatedBest
  <1> DEFINE T == Trusted(profiles, pool)
             Undominated ==
               Select /\ T # {} =>
                 /\ selected' \in T
                 /\ \A m \in T :
                      Dominates(m, selected') => \E k \in T : signal[k] # signal[selected']
  <1>1. ASSUME Typed, Select, T # {} PROVE Undominated
    <2>1. selected' \in Exploited(profiles, T, req.complexity, signal)
      BY <1>1 DEF Select, BestModels
    <2>2. T \in SUBSET Models /\ Competitors(profiles, T)
      BY <1>1, TrustedCompete DEF Typed, Trusted, Sampled
    <2>3. req.complexity \in 0..10
      BY <1>1, DataAssumption DEF Typed, RequestType
    <2>4. selected' \in T
      BY <2>1 DEF Exploited
    <2> HIDE DEF T
    <2>5. (\A k \in T : signal[k] = signal[selected']) => \A k \in T : ~Dominates(k, selected')
      <3> DEFINE m == selected'
      <3>1. m \in Exploited(profiles, T, req.complexity, signal)
        BY <2>1
      <3> HIDE DEF m
      <3> QED
        BY <1>1, <2>2, <2>3, <3>1, FittestUndominated DEF m
    <2> QED
      BY <2>4, <2>5
  <1>2. Typed /\ [Next]_vars => [Undominated]_vars
    BY <1>1
  <1> QED
    BY <1>2, TypedAlways, PTL DEF Spec, UndominatedBest

-----------------------------------------------------------------------------
(* Where the experts asked come from: a list of the other models, or the first
   of a list of them, or of the trusted ones in the order of their fitness. *)
LEMMA CandidateShape ==
  ASSUME Typed, NEW c \in CandidateLists
  PROVE  LET T == Trusted(profiles, Others)
             few == Cardinality(Others) <= MaxParallel
         IN /\ c \in Seq(Models)
            /\ few => Len(c) = Cardinality(Others)
            /\ ~few /\ T = {} => Len(c) = MaxParallel
            /\ ~few /\ T # {} =>
                 \E s \in SetToSeqs(T) :
                   /\ c = FirstOf(MaxParallel, s)
                   /\ \A i, j \in DOMAIN s :
                        i < j => Fitness(profiles, T, req.complexity, s[i])
                                   >= Fitness(profiles, T, req.complexity, s[j])
  <1> DEFINE T == Trusted(profiles, Others)
             few == Cardinality(Others) <= MaxParallel
  <1>1. Others \in SUBSET Models /\ T \in SUBSET Models
    BY DEF Typed, Others, Trusted, Sampled
  <1>2. CASE few
    <2>1. c \in SetToSeqs(Others)
      BY <1>2 DEF CandidateLists
    <2>2. c \in Seq(Others) /\ Len(c) = Cardinality(Others)
      BY <1>1, <2>1, FiniteModels, ListOfSet
    <2> QED
      BY <1>1, <1>2, <2>2
  <1>3. CASE ~few /\ T = {}
    <2>1. PICK s \in SetToSeqs(Others) : c = FirstOf(MaxParallel, s)
      BY <1>3 DEF CandidateLists, TopModels
    <2>2. s \in Seq(Others) /\ Len(s) = Cardinality(Others) /\ Len(s) \in Nat
      BY <1>1, FiniteModels, ListOfSet
    <2>3. c \in Seq(Others) /\ Len(c) = MaxParallel
      BY <1>3, <2>1, <2>2, FirstOfList, LimitAssumption
    <2> QED
      BY <1>1, <1>3, <2>3
  <1>4. CASE ~few /\ T # {}
    <2>1. PICK s \in SetToSeqs(T) :
            /\ c = FirstOf(MaxParallel, s)
            /\ \A i, j \in DOMAIN s :
                 i < j => Fitness(profiles, T, req.complexity, s[i])
                            >= Fitness(profiles, T, req.complexity, s[j])
      BY <1>4, Zenon DEF CandidateLists, TopModels
    <2>2. s \in Seq(T)
      BY <1>1, FiniteModels, ListOfSet
    <2>3. c \in Seq(T)
      BY <2>1, <2>2, FirstOfList, LimitAssumption
    <2> QED
      BY <1>1, <1>4, <2>1, <2>3
  <1> QED
    BY <1>2, <1>3, <1>4

LEMMA SkipReason == ASSUME Typed, Skip PROVE SkippedForWant'
  <1> DEFINE T == Trusted(profiles, Others)
  <1>1. UNCHANGED <<pool, selected, profiles>>
    BY DEF Skip, config
  <1>2. CASE ~Eligible
    BY <1>2 DEF SkippedForWant, Eligible
  <1>3. ASSUME NEW c \in CandidateLists, Len(c) < MinModels
        PROVE  \/ Cardinality(Others) < MinModels
               \/ MaxParallel < MinModels
               \/ /\ Cardinality(Others) > MaxParallel
                  /\ Cardinality(T) \in 1..(MinModels - 1)
    <2>1. Others \in SUBSET Models /\ T \in SUBSET Models
      BY DEF Typed, Others, Trusted, Sampled
    <2>2. /\ Cardinality(Others) \in Nat /\ MaxParallel \in Nat /\ MinModels \in Nat
          /\ IsFiniteSet(T) /\ Cardinality(T) \in Nat
      BY <2>1, TierAssumption, LimitAssumption, FS_Subset, FS_CardinalityType
    <2>3. CASE Cardinality(Others) <= MaxParallel \/ T = {}
      BY <1>3, <2>2, <2>3, CandidateShape
    <2>4. CASE Cardinality(Others) > MaxParallel /\ T # {}
      <3>1. ~(Cardinality(Others) <= MaxParallel)
        BY <2>2, <2>4
      <3>2. PICK s \in SetToSeqs(T) : c = FirstOf(MaxParallel, s)
        BY <2>4, <3>1, CandidateShape
      <3>3. s \in Seq(T) /\ Len(s) = Cardinality(T)
        BY <2>1, FiniteModels, ListOfSet
      <3>4. Len(c) = IF Len(s) <= MaxParallel THEN Len(s) ELSE MaxParallel
        BY <2>2, <3>2, <3>3, FirstOfList
      <3>5. Cardinality(T) # 0
        BY <2>2, <2>4, FS_EmptySet
      <3> QED
        BY <1>3, <2>2, <2>4, <3>3, <3>4, <3>5
    <2> QED
      BY <2>2, <2>3, <2>4
  <1> HIDE DEF T
  <1>4. CASE \E c \in CandidateLists : Len(c) < MinModels
    <2>1. \/ Cardinality(Others) < MinModels
          \/ MaxParallel < MinModels
          \/ Cardinality(Others) > MaxParallel /\ Cardinality(T) \in 1..(MinModels - 1)
      BY <1>3, <1>4
    <2>2. Others' = Others /\ Trusted(profiles, Others)' = T
      BY <1>1 DEF Others, T, Trusted, Sampled
    <2> QED
      BY <2>1, <2>2 DEF SkippedForWant, T
  <1> QED
    BY <1>2, <1>4 DEF Skip

(* An eligible aggregation is skipped only for want of models, or because the
   ranking left out those that are not trusted yet. *)
THEOREM SkippedForWantCorrect == Spec => []SkippedForWant
  <1>1. Init => SkippedForWant
    BY DEF Init, SkippedForWant
  <1>2. ASSUME Typed, SkippedForWant, [Next]_vars PROVE SkippedForWant'
    <2>1. CASE Skip
      BY <1>2, <2>1, SkipReason
    <2>2. CASE Select \/ Explore \/ Refresh
                 \/ (\E a \in Answers : JudgeFirst(a) \/ GateRaises(a))
                 \/ DispatchParallel \/ (\E m \in Models : Expert(m)) \/ Join
                 \/ (\E i \in DOMAIN asked : JudgeExpert(i)) \/ ConcludeAggregation
      <3>1. pc' # "skipped"
        BY <2>2 DEF Select, Explore, Refresh, JudgeFirst, GateRaises, DispatchParallel,
           Expert, TransientError, Retry, FatalError, Return, Calling, Join, JudgeExpert,
           ConcludeAggregation
      <3> QED
        BY <3>1 DEF SkippedForWant
    <2>3. CASE UNCHANGED vars
      <3>1. UNCHANGED <<pc, pool, selected, profiles>>
        BY <2>3 DEF vars, config
      <3>2. Others' = Others
        BY <3>1 DEF Others
      <3>3. Trusted(profiles, Others)' = Trusted(profiles, Others)
        BY <3>1, <3>2 DEF Trusted, Sampled
      <3> QED
        BY <1>2, <3>1, <3>2, <3>3 DEF SkippedForWant, Eligible
    <2> QED
      BY <1>2, <2>1, <2>2, <2>3 DEF Next, Visit, Returned
  <1> QED
    BY <1>1, <1>2, TypedAlways, PTL DEF Spec

-----------------------------------------------------------------------------
(* Of the experts, no one asked is dominated by a trusted one that is not, if
   the score of the former is positive. *)
THEOREM RankedFairlyCorrect == Spec => RankedFairly
  <1> DEFINE T == Trusted(profiles, Others)
             Fairly ==
               DispatchParallel /\ T # {} /\ Cardinality(Others) > MaxParallel =>
                 \A m \in T \ ToSet(asked'), k \in ToSet(asked') :
                   Dominates(m, k) => Pareto(profiles, T, req.complexity, k) <= 0
  <1>1. ASSUME Typed, DispatchParallel, T # {}, Cardinality(Others) > MaxParallel,
               NEW m \in T \ ToSet(asked'), NEW k \in ToSet(asked'), Dominates(m, k)
        PROVE  Pareto(profiles, T, req.complexity, k) <= 0
    <2>1. Others \in SUBSET Models /\ T \in SUBSET Models
      BY <1>1 DEF Typed, Others, Trusted, Sampled
    <2>2. Cardinality(Others) \in Nat /\ MaxParallel \in Nat
      BY <2>1, TierAssumption, LimitAssumption, FS_Subset, FS_CardinalityType
    <2>3. asked' \in CandidateLists /\ ~(Cardinality(Others) <= MaxParallel)
      BY <1>1, <2>2 DEF DispatchParallel
    <2>4. PICK s \in SetToSeqs(T) :
            /\ asked' = FirstOf(MaxParallel, s)
            /\ \A i, j \in DOMAIN s :
                 i < j => Fitness(profiles, T, req.complexity, s[i])
                            >= Fitness(profiles, T, req.complexity, s[j])
      <3> DEFINE c == asked'
      <3>1. c \in CandidateLists
        BY <2>3
      <3> HIDE DEF c
      <3>2. \E s \in SetToSeqs(T) :
              /\ c = FirstOf(MaxParallel, s)
              /\ \A i, j \in DOMAIN s :
                   i < j => Fitness(profiles, T, req.complexity, s[i])
                              >= Fitness(profiles, T, req.complexity, s[j])
        BY <1>1, <2>3, <3>1, CandidateShape
      <3> QED
        BY <3>2 DEF c
    <2> DEFINE F(j) == Fitness(profiles, T, req.complexity, j)
               c == FirstOf(MaxParallel, s)
    <2>5. s \in Seq(T) /\ \E j \in 1..Len(s) : s[j] = m
      BY <1>1, <2>1, FiniteModels, ListOfSet
    <2>6. /\ c \in Seq(T)
          /\ Len(c) = IF Len(s) <= MaxParallel THEN Len(s) ELSE MaxParallel
          /\ \A i \in 1..Len(c) : i <= Len(s) /\ c[i] = s[i]
      BY <2>2, <2>5, FirstOfList
    <2>7. m \notin ToSet(c) /\ k \in ToSet(c)
      BY <1>1, <2>4
    <2> HIDE DEF c
    <2>8. PICK i \in 1..Len(c) : c[i] = k
      BY <2>6, <2>7 DEF ToSet
    <2>9. PICK j \in 1..Len(s) : s[j] = m
      BY <2>5
    <2>10. j \notin 1..Len(c)
      BY <2>6, <2>7, <2>9 DEF ToSet
    <2>11. i < j /\ i \in DOMAIN s /\ j \in DOMAIN s /\ s[i] = k /\ k \in T
      BY <2>5, <2>6, <2>8, <2>9, <2>10
    <2>12. F(k) >= F(m)
      BY <2>4, <2>9, <2>11
    <2>13. Competitors(profiles, T) /\ req.complexity \in 0..10
      BY <1>1, <2>1, TrustedCompete, DataAssumption DEF Typed, Others, RequestType
    <2> HIDE DEF T
    <2>14. F(k) \in Int /\ F(m) \in Int
      BY <1>1, <2>11, <2>13, FitnessType
    <2>15. ASSUME Pareto(profiles, T, req.complexity, k) > 0 PROVE FALSE
      <3>1. F(k) < F(m)
        BY <1>1, <2>11, <2>13, <2>15, DominatingFitter
      <3> QED
        BY <2>12, <2>14, <3>1
    <2>16. Pareto(profiles, T, req.complexity, k) \in Int
      BY <2>11, <2>13, FitnessType
    <2> QED
      BY <2>15, <2>16
  <1>2. Typed /\ [Next]_vars => [Fairly]_vars
    BY <1>1
  <1> QED
    BY <1>2, TypedAlways, PTL DEF Spec, RankedFairly

-----------------------------------------------------------------------------
(* Nothing is judged before the answers are gathered. *)
Before == {"select", "call", "called", "aggregate", "gather"}

(* The answer taken passed, and all the experts asked before it are done with
   and did not. *)
FirstPassing(i) ==
  /\ asked[i] = best
  /\ best \in DOMAIN judged /\ judged[best]
  /\ \A j \in DOMAIN asked : j < i => Considered(j)
  /\ \A j \in DOMAIN asked : j < i /\ asked[j] \in DOMAIN judged => ~judged[asked[j]]

BestInv ==
  /\ asked \in Seq(Models)
  /\ pc \in Before => DOMAIN judged = {} /\ best = NoModel
  /\ best = NoModel => \A m \in DOMAIN judged : ~judged[m]
  /\ best # NoModel => \E i \in DOMAIN asked : FirstPassing(i)
  /\ pc = "aggregated" => selected = best /\ best # NoModel

(* The verdict on the expert whose turn it is. *)
LEMMA BestJudgeStep ==
  ASSUME BestInv, NEW i \in DOMAIN asked, JudgeExpert(i) PROVE BestInv'
  <1> DEFINE m == asked[i]
  <1>1. m \in Models /\ m # NoModel /\ m \notin DOMAIN judged
    BY CatalogAssumption DEF BestInv, JudgeExpert, Considered
  <1>2. /\ pc = "judge" /\ reply[m] # Raised
        /\ \A j \in DOMAIN asked : j < i => Considered(j)
        /\ UNCHANGED <<pc, selected, asked, reply>>
    BY DEF JudgeExpert, Considered
  <1>3. PICK passed \in BOOLEAN :
          /\ judged' = [k \in DOMAIN judged \cup {m} |-> IF k = m THEN passed ELSE judged[k]]
          /\ best' = BestAfter(m, passed)
    <2>1. \A r, a : ExpertGate(r, a) \in BOOLEAN
      BY DEF ExpertGate, ConfiguredGate, LowGate, StructuralGate, StructurallyBad
    <2> QED
      BY <2>1 DEF JudgeExpert
  <1>4. \A j \in DOMAIN asked : j < i => asked[j] # m
    BY <1>1, <1>2 DEF Considered
  <1>5. \A j \in DOMAIN asked : Considered(j) => Considered(j)'
    BY <1>2, <1>3 DEF Considered
  <1>6. /\ DOMAIN judged' = DOMAIN judged \cup {m} /\ judged'[m] = passed
        /\ \A k \in DOMAIN judged : judged'[k] = judged[k]
    BY <1>1, <1>3
  <1>7. CASE best = NoModel /\ passed
    <2>1. best' = m
      BY <1>3, <1>7 DEF BestAfter
    <2>2. \A j \in DOMAIN asked : j < i /\ asked[j] \in DOMAIN judged' => ~judged'[asked[j]]
      BY <1>4, <1>6, <1>7 DEF BestInv
    <2>3. FirstPassing(i)'
      BY <1>2, <1>5, <1>6, <1>7, <2>1, <2>2 DEF FirstPassing
    <2> QED
      BY <1>1, <1>2, <2>1, <2>3 DEF BestInv, Before
  <1>8. CASE best = NoModel /\ ~passed
    BY <1>2, <1>3, <1>6, <1>8 DEF BestInv, BestAfter, Before
  <1>9. CASE best # NoModel
    <2>1. best' = best
      BY <1>3, <1>9 DEF BestAfter
    <2>2. PICK n \in DOMAIN asked : FirstPassing(n)
      BY <1>9 DEF BestInv
    <2>3. \A j \in DOMAIN asked : j < n => asked[j] # m
      BY <1>1, <1>2, <2>2 DEF FirstPassing, Considered
    <2>4. \A j \in DOMAIN asked : j < n /\ asked[j] \in DOMAIN judged' => ~judged'[asked[j]]
      BY <1>6, <2>2, <2>3 DEF FirstPassing
    <2>5. FirstPassing(n)'
      BY <1>2, <1>5, <1>6, <2>1, <2>2, <2>4 DEF FirstPassing
    <2> QED
      BY <1>2, <1>9, <2>1, <2>2, <2>5 DEF BestInv, Before
  <1> QED
    BY <1>7, <1>8, <1>9

LEMMA BestStep == ASSUME Typed, BestInv, [Next]_vars PROVE BestInv'
  <1>1. CASE DispatchParallel
    <2>1. asked' \in Seq(Models)
      <3> DEFINE c == asked'
      <3>1. c \in CandidateLists
        BY <1>1 DEF DispatchParallel
      <3> HIDE DEF c
      <3>2. c \in Seq(Models)
        BY <3>1, CandidateShape
      <3> QED
        BY <3>2 DEF c
    <2>2. /\ DOMAIN judged = {} /\ best = NoModel /\ pc' = "gather"
          /\ UNCHANGED <<judged, best>>
      BY <1>1 DEF DispatchParallel, BestInv, Before
    <2> QED
      BY <2>1, <2>2 DEF BestInv
  <1>2. ASSUME NEW m \in Models, Expert(m) PROVE BestInv'
    <2>1. /\ DOMAIN judged = {} /\ best = NoModel /\ pc' = "gather"
          /\ UNCHANGED <<asked, judged, best>>
      BY <1>2 DEF Expert, TransientError, Retry, FatalError, Return, Calling, BestInv, Before
    <2> QED
      BY <2>1 DEF BestInv
  <1>3. CASE Select \/ Explore \/ Refresh \/ (\E a \in Answers : JudgeFirst(a) \/ GateRaises(a))
               \/ Skip \/ Join
    <2>1. /\ pc \in Before /\ pc' # "aggregated"
          /\ UNCHANGED <<asked, reply, judged, best>>
      BY <1>3 DEF Select, Explore, Refresh, JudgeFirst, GateRaises, Skip, Join, work, Before
    <2> QED
      BY <2>1 DEF BestInv
  <1>4. ASSUME NEW i \in DOMAIN asked, JudgeExpert(i) PROVE BestInv'
    BY <1>4, BestJudgeStep
  <1>5. CASE ConcludeAggregation
    <2>1. /\ pc' \notin Before /\ UNCHANGED <<asked, reply, judged, best>>
          /\ pc' = "aggregated" => selected' = best /\ best # NoModel
      BY <1>5 DEF ConcludeAggregation, Before
    <2> QED
      BY <2>1 DEF BestInv, FirstPassing, Considered
  <1>6. CASE UNCHANGED vars
    BY <1>6 DEF vars, work, BestInv, FirstPassing, Considered
  <1> QED
    BY <1>1, <1>2, <1>3, <1>4, <1>5, <1>6 DEF Next, Visit, Returned

(* Whichever expert answers first, the answer taken is that of the first one in
   the order of asking whose answer passed. *)
THEOREM FirstPassingWinsCorrect == Spec => []FirstPassingWins
  <1>1. Init => BestInv
    BY DEF Init, BestInv, Before
  <1>2. ASSUME BestInv PROVE FirstPassingWins
    <2>1. SUFFICES ASSUME pc = "aggregated" PROVE FirstPassingWins
      BY DEF FirstPassingWins
    <2>2. PICK i \in DOMAIN asked : FirstPassing(i)
      BY <1>2, <2>1 DEF BestInv
    <2>3. selected = best /\ asked \in Seq(Models)
      BY <1>2, <2>1 DEF BestInv
    <2>4. \A j \in 1..(i - 1) : j \in DOMAIN asked /\ j < i
      BY <2>3
    <2> QED
      BY <2>2, <2>3, <2>4 DEF FirstPassing, FirstPassingWins
  <1> QED
    BY <1>1, <1>2, BestStep, TypedAlways, PTL DEF Spec

-----------------------------------------------------------------------------
(* What tier, experts, calls and verdicts have to do with each other, so that
   the types and the outcomes are right. *)
Early == {"select", "call", "called", "aggregate"}

VisitInv ==
  /\ Typed /\ BestInv
  /\ TypeOK
  /\ tier = ResolveTier(catalog, override)
  /\ pc \in Early => \A m \in Models : reply[m] # Pause
  /\ \A m \in Models : reply[m] = Pause => attempts[m] < MaxAttempts
  /\ \A m \in DOMAIN judged : reply[m] # Raised
  /\ OutcomesComplete

LEMMA TierResolved ==
  ASSUME catalog \in Catalogs, override \in Overrides, tier = ResolveTier(catalog, override)
  PROVE  /\ TierWellFormed
         /\ AvailableModels(tier) \subseteq Models
         /\ \A l \in 0..2 : ModelForComplexity(tier, l) \in AvailableModels(tier)
  <1>1. /\ catalog \in SUBSET Models /\ IsFiniteSet(catalog)
        /\ override \in Models \cup {NoModel}
    BY TierAssumption, FiniteModels
  <1> DEFINE M == IF override # NoModel THEN {override}
                  ELSE IF catalog = {} THEN {FallbackModel} ELSE catalog
  <1>2. /\ AvailableModels(tier) = M
        /\ M \subseteq Models
        /\ \A l \in 0..2 : ModelForComplexity(tier, l) \in M
        /\ \A l, k \in 0..2 :
             l < k => ~RanksBefore(ModelForComplexity(tier, k), ModelForComplexity(tier, l))
    BY <1>1, ResolvedTier
  <1>3. M = CASE override # NoModel -> {override}
              [] override = NoModel /\ catalog = {} -> {FallbackModel}
              [] OTHER -> catalog
    OBVIOUS
  <1> HIDE DEF M
  <1> QED
    BY <1>2, <1>3 DEF TierWellFormed

LEMMA VisitInit == Init => VisitInv
  <1> SUFFICES ASSUME Init PROVE VisitInv
    OBVIOUS
  <1>1. Typed
    BY TierAssumption DEF Init, Typed
  <1>2. BestInv
    BY DEF Init, BestInv, Before
  <1>3. \A m \in Models : reply[m] = NoAnswer /\ NoAnswer # Pause
    BY ReplyAssumption DEF Init
  <1>4. TypeOK
    BY <1>1, LimitAssumption DEF Init, TypeOK, Typed, ToSet
  <1> QED
    BY <1>1, <1>2, <1>3, <1>4 DEF Init, VisitInv, OutcomesComplete

(* Whichever way a model is chosen, it is capable, or at least of the tier. *)
LEMMA SelectedModel ==
  ASSUME VisitInv, Select \/ Explore
  PROVE  /\ selected' \in Models
         /\ selected' \in IF pool # {} THEN pool ELSE AvailableModels(tier)
  <1>1. CASE Explore
    <2>1. selected' \in pool
      BY <1>1 DEF Explore, Explored
    <2> QED
      BY <2>1 DEF VisitInv, Typed
  <1>2. CASE Select
    <2> DEFINE T == Trusted(profiles, pool)
    <2>1. selected' \in BestModels(tier, profiles, pool, req.complexity, signal)
      BY <1>2 DEF Select
    <2>2. CASE T # {}
      BY <2>1, <2>2 DEF BestModels, Exploited, Trusted, Sampled, VisitInv, Typed
    <2>3. CASE T = {} /\ pool # {}
      BY <2>1, <2>3 DEF BestModels, ColdStart, VisitInv, Typed
    <2>4. CASE T = {} /\ pool = {}
      <3>1. selected' = ModelForComplexity(tier, Discrete(req.complexity))
        BY <2>1, <2>4 DEF BestModels, ColdStart
      <3>2. req.complexity \in 0..10
        BY DataAssumption DEF VisitInv, Typed, RequestType
      <3>3. Discrete(req.complexity) \in 0..2
        BY <3>2 DEF Discrete
      <3>4. selected' \in AvailableModels(tier) /\ AvailableModels(tier) \subseteq Models
        BY <3>1, <3>3, TierResolved DEF VisitInv, TypeOK
      <3> QED
        BY <2>4, <3>4
    <2> QED
      BY <2>2, <2>3, <2>4
  <1> QED
    BY <1>1, <1>2

(* The list of outcomes has one for every expert asked, with its verdict. *)
LEMMA OutcomeListComplete ==
  ASSUME asked \in Seq(Models), judged \in [DOMAIN judged -> BOOLEAN],
         \A i \in DOMAIN asked : Considered(i), \A m \in DOMAIN judged : reply[m] # Raised
  PROVE  /\ OutcomeList \in Seq([model : Models, passed : BOOLEAN])
         /\ Len(OutcomeList) = Len(asked)
         /\ \A m \in ToSet(asked) :
              Outcome(m, m \in DOMAIN judged /\ judged[m]) \in ToSet(OutcomeList)
  <1> DEFINE O == [model : Models, passed : BOOLEAN]
             failed == {i \in DOMAIN asked : reply[asked[i]] = Raised}
             answered == {i \in DOMAIN asked : reply[asked[i]] # Raised}
             f == [i \in DOMAIN Failed |-> Outcome(Failed[i], FALSE)]
             a == [i \in DOMAIN Answered |-> Outcome(Answered[i], judged[Answered[i]])]
  <1>1. /\ IsFiniteSet(failed)
        /\ Failed \in Seq(Models) /\ Len(Failed) = Cardinality(failed)
        /\ \A i \in failed : \E n \in 1..Len(Failed) : Failed[n] = asked[i]
    <2>1. failed \in SUBSET (DOMAIN asked) /\ Failed = AtPlaces(asked, failed)
      BY DEF Failed
    <2> HIDE DEF failed
    <2> QED
      BY <2>1, PlacesList
  <1>2. /\ IsFiniteSet(answered)
        /\ Answered \in Seq(Models) /\ Len(Answered) = Cardinality(answered)
        /\ \A i \in answered : \E n \in 1..Len(Answered) : Answered[n] = asked[i]
        /\ \A n \in 1..Len(Answered) : \E i \in answered : Answered[n] = asked[i]
    <2>1. answered \in SUBSET (DOMAIN asked) /\ Answered = AtPlaces(asked, answered)
      BY DEF Answered
    <2> HIDE DEF answered
    <2> QED
      BY <2>1, PlacesList
  <1>3. \A i \in answered : asked[i] \in DOMAIN judged
    BY DEF Considered
  <1>4. Cardinality(failed) + Cardinality(answered) = Len(asked)
    <2>1. failed \cup answered = 1..Len(asked) /\ failed \cap answered = {}
      OBVIOUS
    <2>2. Len(asked) \in Nat /\ Cardinality(1..Len(asked)) = Len(asked)
      BY FS_Interval
    <2> HIDE DEF failed, answered
    <2>3. Cardinality(failed \cup answered)
            = Cardinality(failed) + Cardinality(answered) - Cardinality(failed \cap answered)
      BY <1>1, <1>2, FS_Union
    <2>4. Cardinality(failed \cap answered) = 0
      BY <2>1, FS_EmptySet
    <2>5. Cardinality(failed \cup answered) = Len(asked)
      BY <2>1, <2>2
    <2>6. Cardinality(failed) \in Nat /\ Cardinality(answered) \in Nat
      BY <1>1, <1>2, FS_CardinalityType
    <2> QED
      BY <2>2, <2>3, <2>4, <2>5, <2>6
  <1>5. f \in Seq(O) /\ Len(f) = Len(Failed)
    <2>1. \A n \in 1..Len(Failed) : Failed[n] \in Models
      BY <1>1
    <2>2. Len(Failed) \in Nat /\ DOMAIN Failed = 1..Len(Failed)
      BY <1>1
    <2>3. f \in [1..Len(Failed) -> O]
      BY <2>1, <2>2 DEF Outcome
    <2> HIDE DEF f, O
    <2> QED
      BY <2>2, <2>3
  <1>6. a \in Seq(O) /\ Len(a) = Len(Answered)
    <2>1. \A n \in 1..Len(Answered) : Answered[n] \in Models /\ Answered[n] \in DOMAIN judged
      BY <1>2, <1>3
    <2>2. Len(Answered) \in Nat /\ a \in [1..Len(Answered) -> O]
      BY <1>2, <2>1 DEF Outcome
    <2> HIDE DEF a, O
    <2> QED
      BY <2>2
  <1>7. OutcomeList = f \o a
    BY DEF OutcomeList
  <1>8. /\ \A n \in 1..Len(Failed) : f[n] = Outcome(Failed[n], FALSE)
        /\ \A n \in 1..Len(Answered) : a[n] = Outcome(Answered[n], judged[Answered[n]])
    BY <1>1, <1>2
  <1> HIDE DEF f, a, O
  <1>9. f \o a \in Seq(O) /\ Len(f \o a) = Len(f) + Len(a)
    BY <1>5, <1>6
  <1>10. \A n \in 1..Len(f) : f[n] \in ToSet(f \o a)
    <2> TAKE n \in 1..Len(f)
    <2>1. n \in DOMAIN (f \o a) /\ (f \o a)[n] = f[n]
      BY <1>5, <1>6
    <2> QED
      BY <2>1 DEF ToSet
  <1>11. \A n \in 1..Len(a) : a[n] \in ToSet(f \o a)
    <2> TAKE n \in 1..Len(a)
    <2>1. Len(f) + n \in DOMAIN (f \o a) /\ (f \o a)[Len(f) + n] = a[n]
      BY <1>5, <1>6
    <2> QED
      BY <2>1 DEF ToSet
  <1>12. ASSUME NEW i \in DOMAIN asked
         PROVE  Outcome(asked[i], asked[i] \in DOMAIN judged /\ judged[asked[i]])
                  \in ToSet(f \o a)
    <2>1. CASE i \in failed
      <3>1. (asked[i] \in DOMAIN judged /\ judged[asked[i]]) = FALSE
        BY <2>1
      <3>2. PICK n \in 1..Len(Failed) : Failed[n] = asked[i]
        BY <1>1, <2>1
      <3> QED
        BY <1>5, <1>8, <1>10, <3>1, <3>2
    <2>2. CASE i \in answered
      <3>1. asked[i] \in DOMAIN judged /\ judged[asked[i]] \in BOOLEAN
        BY <1>3, <2>2
      <3>2. (asked[i] \in DOMAIN judged /\ judged[asked[i]]) = judged[asked[i]]
        BY <3>1
      <3>3. PICK n \in 1..Len(Answered) : Answered[n] = asked[i]
        BY <1>2, <2>2
      <3> QED
        BY <1>6, <1>8, <1>11, <3>2, <3>3
    <2> QED
      BY <2>1, <2>2
  <1>13. \A m \in ToSet(asked) : \E i \in DOMAIN asked : asked[i] = m
    BY DEF ToSet
  <1>14. Len(OutcomeList) = Len(asked)
    BY <1>1, <1>2, <1>4, <1>5, <1>6, <1>7, <1>9
  <1> QED
    BY <1>7, <1>9, <1>12, <1>13, <1>14 DEF O

(* Tier and calls stay as they are where an action says so. *)
LEMMA VisitChoice == ASSUME VisitInv, Select \/ Explore PROVE VisitInv'
  <1>1. Typed' /\ BestInv'
    <2>1. [Next]_vars
      BY DEF Next, Visit
    <2> QED
      BY <2>1, TypedStep, BestStep DEF VisitInv
  <1>2. selected' \in Models /\ selected' # NoModel
    BY SelectedModel, CatalogAssumption
  <1>3. pc = "select" /\ pc' = "call" /\ UNCHANGED <<config, work>>
    BY DEF Select, Explore
  <1>4. TypeOK'
    BY <1>2, <1>3 DEF VisitInv, TypeOK, config, work
  <1>5. OutcomesComplete'
    BY <1>3 DEF VisitInv, OutcomesComplete, work
  <1> QED
    BY <1>1, <1>3, <1>4, <1>5 DEF VisitInv, Early, config, work

(* So does a step that only moves on. *)
LEMMA VisitMove ==
  ASSUME VisitInv,
         Refresh \/ (\E a \in Answers : JudgeFirst(a) \/ GateRaises(a)) \/ Skip \/ Join
  PROVE  VisitInv'
  <1>1. Typed' /\ BestInv'
    <2>1. [Next]_vars
      BY DEF Next, Visit
    <2> QED
      BY <2>1, TypedStep, BestStep DEF VisitInv
  <1>2. /\ pc \notin {"select", "aggregated"}
        /\ pc' \notin {"select", "aggregated"}
        /\ pc' \in Early => pc \in Early
        /\ pc' \in {"select", "call", "called", "aggregate", "gather", "judge"} \cup Final
        /\ UNCHANGED <<catalog, override, tier, pool, req, signal, selected, work>>
    BY DEF Refresh, JudgeFirst, GateRaises, Skip, Join, Early, Final, config
  <1>3. TypeOK'
    BY <1>1, <1>2 DEF VisitInv, TypeOK, Typed, work
  <1>4. OutcomesComplete'
    BY <1>2 DEF VisitInv, OutcomesComplete, work
  <1> QED
    BY <1>1, <1>2, <1>3, <1>4 DEF VisitInv, work

LEMMA VisitDispatch == ASSUME VisitInv, DispatchParallel PROVE VisitInv'
  <1>1. Typed' /\ BestInv'
    <2>1. [Next]_vars
      BY DEF Next, Visit
    <2> QED
      BY <2>1, TypedStep, BestStep DEF VisitInv
  <1>2. /\ pc = "aggregate" /\ pc' = "gather"
        /\ attempts' = [m \in Models |-> IF m \in ToSet(asked') THEN 1 ELSE 0]
        /\ UNCHANGED <<config, selected, reply, judged, best, recorded>>
    BY DEF DispatchParallel
  <1>3. attempts' \in [Models -> 0..MaxAttempts]
    BY <1>2, LimitAssumption
  <1>4. \A m \in Models : reply[m] # Pause
    BY <1>2 DEF VisitInv, Early
  <1>5. DOMAIN judged = {} /\ best = NoModel
    BY <1>2 DEF VisitInv, BestInv, Before
  <1>6. asked' \in Seq(Models)
    BY <1>1 DEF BestInv
  <1>7. TypeOK'
    BY <1>2, <1>3, <1>5, <1>6 DEF VisitInv, TypeOK, config
  <1>8. OutcomesComplete'
    BY <1>2 DEF VisitInv, OutcomesComplete
  <1> QED
    BY <1>1, <1>2, <1>4, <1>5, <1>7, <1>8 DEF VisitInv, Early, config

(* An expert's call ends, is tried again or is given up. *)
LEMMA VisitExpert == ASSUME VisitInv, NEW m \in Models, Expert(m) PROVE VisitInv'
  <1>1. Typed' /\ BestInv'
    <2>1. [Next]_vars
      BY DEF Next, Visit
    <2> QED
      BY <2>1, TypedStep, BestStep DEF VisitInv
  <1>2. /\ pc = "gather" /\ pc' = "gather"
        /\ UNCHANGED <<config, selected, asked, judged, best, recorded>>
    BY DEF Expert, TransientError, Retry, FatalError, Return, Calling
  <1>3. DOMAIN judged = {}
    BY <1>2 DEF VisitInv, BestInv, Before
  <1>4. attempts \in [Models -> 0..MaxAttempts] /\ MaxAttempts \in Nat
          /\ reply \in [Models -> Answers \cup {NoAnswer, Pause, Raised}]
    BY LimitAssumption DEF VisitInv, TypeOK
  <1>5. /\ attempts' \in [Models -> 0..MaxAttempts]
        /\ reply' \in [Models -> Answers \cup {NoAnswer, Pause, Raised}]
        /\ \A k \in Models : reply'[k] = Pause => attempts'[k] < MaxAttempts
    <2>1. CASE Retry(m)
      <3>1. reply[m] = Pause /\ attempts[m] < MaxAttempts
        BY <2>1 DEF Retry, VisitInv
      <3> QED
        BY <1>4, <2>1, <3>1, ReplyAssumption DEF Retry, AttemptsAfter, VisitInv
    <2>2. CASE TransientError(m)
      BY <1>4, <2>2, ReplyAssumption DEF TransientError, AttemptsLeft, VisitInv
    <2>3. CASE FatalError(m) \/ \E a \in Answers : Return(m, a)
      BY <1>4, <2>3, ReplyAssumption DEF FatalError, Return, VisitInv
    <2> QED
      BY <2>1, <2>2, <2>3 DEF Expert
  <1>6. TypeOK'
    BY <1>2, <1>5 DEF VisitInv, TypeOK, config
  <1>7. OutcomesComplete'
    BY <1>2 DEF VisitInv, OutcomesComplete
  <1> QED
    BY <1>1, <1>2, <1>3, <1>5, <1>6, <1>7 DEF VisitInv, Early, config

LEMMA VisitJudge ==
  ASSUME VisitInv, NEW i \in DOMAIN asked, JudgeExpert(i) PROVE VisitInv'
  <1> DEFINE m == asked[i]
  <1>1. Typed' /\ BestInv'
    <2>1. [Next]_vars
      BY DEF Next, Visit
    <2> QED
      BY <2>1, TypedStep, BestStep DEF VisitInv
  <1>2. /\ pc = "judge" /\ pc' = "judge" /\ reply[m] # Raised
        /\ UNCHANGED <<config, selected, asked, attempts, reply, recorded>>
    BY DEF JudgeExpert, Considered
  <1>3. m \in ToSet(asked)
    BY DEF ToSet
  <1>4. PICK passed \in BOOLEAN :
          /\ judged' = [k \in DOMAIN judged \cup {m} |-> IF k = m THEN passed ELSE judged[k]]
          /\ best' = BestAfter(m, passed)
    <2>1. \A r, a : ExpertGate(r, a) \in BOOLEAN
      BY DEF ExpertGate, ConfiguredGate, LowGate, StructuralGate, StructurallyBad
    <2> QED
      BY <2>1 DEF JudgeExpert
  <1>5. /\ judged \in [DOMAIN judged -> BOOLEAN] /\ DOMAIN judged \subseteq ToSet(asked)
        /\ best \in ToSet(asked) \cup {NoModel}
    BY DEF VisitInv, TypeOK
  <1>6. /\ DOMAIN judged' = DOMAIN judged \cup {m} /\ judged' \in [DOMAIN judged' -> BOOLEAN]
        /\ best' \in ToSet(asked) \cup {NoModel}
    BY <1>3, <1>4, <1>5 DEF BestAfter
  <1>7. TypeOK'
    BY <1>2, <1>3, <1>5, <1>6 DEF VisitInv, TypeOK, config
  <1>8. OutcomesComplete'
    BY <1>2 DEF VisitInv, OutcomesComplete
  <1> QED
    BY <1>1, <1>2, <1>6, <1>7, <1>8 DEF VisitInv, Early, config

LEMMA VisitConclude == ASSUME VisitInv, ConcludeAggregation PROVE VisitInv'
  <1>1. Typed' /\ BestInv'
    <2>1. [Next]_vars
      BY DEF Next, Visit
    <2> QED
      BY <2>1, TypedStep, BestStep DEF VisitInv
  <1>2. /\ pc = "judge" /\ pc' \in {"failed", "aggregated"}
        /\ UNCHANGED <<config, asked, attempts, reply, judged, best>>
    BY DEF ConcludeAggregation
  <1>3. /\ OutcomeList \in Seq([model : Models, passed : BOOLEAN])
        /\ Len(OutcomeList) = Len(asked)
        /\ \A m \in ToSet(asked) :
             Outcome(m, m \in DOMAIN judged /\ judged[m]) \in ToSet(OutcomeList)
    BY OutcomeListComplete DEF ConcludeAggregation, VisitInv, TypeOK
  <1>4. CASE best = NoModel
    <2>1. pc' = "failed" /\ UNCHANGED <<selected, recorded>>
      BY <1>4 DEF ConcludeAggregation
    <2> QED
      BY <1>1, <1>2, <2>1 DEF VisitInv, TypeOK, OutcomesComplete, Early, Final, config
  <1>5. CASE best # NoModel
    <2>1. pc' = "aggregated" /\ selected' = best /\ recorded' = OutcomeList
      BY <1>5 DEF ConcludeAggregation
    <2>2. best \in Models
      BY <1>5 DEF VisitInv, TypeOK, ToSet
    <2> HIDE DEF OutcomeList
    <2>3. TypeOK'
      BY <1>2, <1>3, <1>5, <2>1, <2>2 DEF VisitInv, TypeOK, Final, config
    <2>4. OutcomesComplete'
      BY <1>2, <1>3, <2>1 DEF OutcomesComplete
    <2> QED
      BY <1>1, <1>2, <2>1, <2>3, <2>4 DEF VisitInv, Early, config
  <1> QED
    BY <1>4, <1>5

LEMMA VisitStep == ASSUME VisitInv, [Next]_vars PROVE VisitInv'
  <1>1. CASE UNCHANGED vars
    <2>1. Typed' /\ BestInv'
      BY <1>1, TypedStep, BestStep DEF VisitInv
    <2> QED
      BY <1>1, <2>1 DEF VisitInv, TypeOK, OutcomesComplete, vars, config, work
  <1> QED
    BY <1>1, VisitChoice, VisitMove, VisitDispatch, VisitExpert, VisitJudge, VisitConclude
    DEF Next, Visit, Returned

LEMMA VisitAlways == Spec => []VisitInv
  BY VisitInit, VisitStep, PTL DEF Spec

(* Every variable has its type: no selection, ranking, retry or verdict leads
   out of the models and the answers. *)
THEOREM TypeCorrect == Spec => []TypeOK
  <1>1. VisitInv => TypeOK
    BY DEF VisitInv
  <1> QED
    BY <1>1, VisitAlways, PTL

(* Whatever models the catalog has, splitting them into three levels and the
   rest loses none, and a more complex request is given no earlier model. *)
THEOREM TierWellFormedCorrect == Spec => []TierWellFormed
  <1>1. VisitInv => TierWellFormed
    BY TierResolved DEF VisitInv, TypeOK
  <1> QED
    BY <1>1, VisitAlways, PTL

(* However many experts were asked and in whatever order they answered, an
   aggregation that succeeds schedules one outcome for each, with its own
   verdict; one that does not schedules none. *)
THEOREM OutcomesCompleteCorrect == Spec => []OutcomesComplete
  <1>1. VisitInv => OutcomesComplete
    BY DEF VisitInv
  <1> QED
    BY <1>1, VisitAlways, PTL

-----------------------------------------------------------------------------
(* What is left of a visit: the places it still comes by, of each call the
   moments it still has (replies and ends of pauses), and the answers to judge. *)
Phase ==
  [select |-> 0, call |-> 1, called |-> 2, aggregate |-> 3, gather |-> 4, judge |-> 5,
   passed |-> 6, error |-> 6, skipped |-> 6, failed |-> 6, aggregated |-> 6][pc]

Moments(m) ==
  CASE reply[m] = NoAnswer -> 2 * (MaxAttempts - attempts[m]) + 1
    [] reply[m] = Pause -> 2 * (MaxAttempts - attempts[m])
    [] OTHER -> 0

MomentsLeft == {e \in Models \X (1..2 * MaxAttempts + 1) : e[2] <= Moments(e[1])}

Unjudged == {i \in DOMAIN asked : ~Considered(i)}

Smaller(S, T) == S \subseteq T /\ S # T

Progress ==
  \/ Phase < Phase'
  \/ pc = "gather" /\ pc' = "gather" /\ Smaller(MomentsLeft', MomentsLeft)
  \/ pc = "judge" /\ pc' = "judge" /\ Smaller(Unjudged', Unjudged)

(* What a call comes to uses up one of its moments and none of another's. *)
LEMMA ExpertProgress ==
  ASSUME VisitInv, NEW m \in Models, Expert(m)
  PROVE  Smaller(MomentsLeft', MomentsLeft)
  <1> DEFINE N == 2 * MaxAttempts + 1
  <1>1. /\ MaxAttempts \in Nat /\ attempts \in [Models -> 0..MaxAttempts]
        /\ reply \in [Models -> Answers \cup {NoAnswer, Pause, Raised}]
        /\ \A k \in Models : reply[k] = Pause => attempts[k] < MaxAttempts
    BY LimitAssumption DEF VisitInv, TypeOK
  <1>2. \A k \in Models : Moments(k) \in 0..N
    BY <1>1 DEF Moments
  <1>3. Moments(m)' \in Nat /\ Moments(m)' < Moments(m)
    <2>1. CASE Retry(m)
      <3>1. /\ reply[m] = Pause /\ attempts[m] < MaxAttempts
            /\ reply'[m] = NoAnswer /\ attempts'[m] = attempts[m] + 1
        BY <1>1, <2>1 DEF Retry, AttemptsAfter
      <3> QED
        BY <1>1, <3>1, ReplyAssumption DEF Moments
    <2>2. CASE TransientError(m)
      <3>1. /\ reply[m] = NoAnswer /\ attempts' = attempts
            /\ reply'[m] = IF attempts[m] < MaxAttempts THEN Pause ELSE Raised
        BY <1>1, <2>2 DEF TransientError, Calling, AttemptsLeft
      <3> QED
        BY <1>1, <3>1, ReplyAssumption DEF Moments
    <2>3. CASE FatalError(m) \/ \E a \in Answers : Return(m, a)
      <3>1. /\ reply[m] = NoAnswer /\ attempts' = attempts
            /\ reply'[m] \in Answers \cup {Raised}
        BY <1>1, <2>3 DEF FatalError, Return, Calling
      <3>2. reply'[m] # NoAnswer /\ reply'[m] # Pause
        BY <3>1, ReplyAssumption
      <3> QED
        BY <1>1, <3>1, <3>2 DEF Moments
    <2> QED
      BY <2>1, <2>2, <2>3 DEF Expert
  <1>4. ASSUME NEW k \in Models, k # m PROVE Moments(k)' = Moments(k)
    <2>1. reply'[k] = reply[k] /\ attempts'[k] = attempts[k]
      BY <1>1, <1>4 DEF Expert, TransientError, Retry, FatalError, Return, AttemptsAfter
    <2> QED
      BY <2>1 DEF Moments
  <1>5. MomentsLeft = {e \in Models \X (1..N) : e[2] <= Moments(e[1])}
    BY DEF MomentsLeft
  <1>6. MomentsLeft' = {e \in Models \X (1..N) : e[2] <= Moments(e[1])'}
    BY DEF MomentsLeft
  <1>7. MomentsLeft' \subseteq MomentsLeft
    <2> SUFFICES ASSUME NEW k \in Models, NEW n \in 1..N, n <= Moments(k)'
                 PROVE  n <= Moments(k)
      BY <1>5, <1>6
    <2>1. CASE k = m
      BY <1>2, <1>3, <2>1
    <2>2. CASE k # m
      BY <1>4, <2>2
    <2> QED
      BY <2>1, <2>2
  <1>8. <<m, Moments(m)>> \in MomentsLeft /\ <<m, Moments(m)>> \notin MomentsLeft'
    <2>1. Moments(m) \in 1..N /\ ~(Moments(m) <= Moments(m)')
      BY <1>2, <1>3
    <2> QED
      BY <1>5, <1>6, <2>1
  <1> QED
    BY <1>7, <1>8 DEF Smaller

(* An answer judged is not judged again. *)
LEMMA JudgeProgress ==
  ASSUME NEW i \in DOMAIN asked, JudgeExpert(i)
  PROVE  Smaller(Unjudged', Unjudged)
  <1>1. UNCHANGED <<asked, reply>> /\ DOMAIN judged' = DOMAIN judged \cup {asked[i]}
    BY DEF JudgeExpert
  <1>2. i \in Unjudged /\ i \notin Unjudged'
    BY <1>1 DEF JudgeExpert, Unjudged, Considered
  <1>3. Unjudged' \subseteq Unjudged
    BY <1>1 DEF Unjudged, Considered
  <1> QED
    BY <1>2, <1>3 DEF Smaller

(* There are finitely many of either, so there is no endless progress. *)
LEMMA LeftFinite == TypeOK => IsFiniteSet(MomentsLeft) /\ IsFiniteSet(Unjudged)
  <1>1. IsFiniteSet(Models \X (1..2 * MaxAttempts + 1))
    <2>1. IsFiniteSet(1..2 * MaxAttempts + 1)
      BY LimitAssumption, FS_Interval
    <2> QED
      BY <2>1, TierAssumption, FS_Product
  <1>2. MomentsLeft \subseteq Models \X (1..2 * MaxAttempts + 1)
    BY DEF MomentsLeft
  <1>3. TypeOK => IsFiniteSet(DOMAIN asked)
    <2> SUFFICES ASSUME asked \in Seq(Models) PROVE IsFiniteSet(DOMAIN asked)
      BY DEF TypeOK
    <2>1. Len(asked) \in Nat /\ DOMAIN asked = 1..Len(asked)
      OBVIOUS
    <2>2. IsFiniteSet(1..Len(asked))
      BY <2>1, FS_Interval
    <2> QED
      BY <2>1, <2>2
  <1>4. Unjudged \subseteq DOMAIN asked
    BY DEF Unjudged
  <1> QED
    BY <1>1, <1>2, <1>3, <1>4, FS_Subset

(* However many models are asked and however often their providers fail, every
   step of a visit brings its end nearer: control moves on, or one of finitely
   many replies and pauses is over, or one of finitely many answers is judged.
   That the steps are taken is what VisitEnds needs fairness for. *)
THEOREM ProgressCorrect ==
  Spec => [][Visit => Progress /\ IsFiniteSet(MomentsLeft) /\ IsFiniteSet(Unjudged)]_vars
  <1>1. ASSUME VisitInv, Visit PROVE Progress
    <2>1. CASE Select \/ Explore \/ Refresh \/ (\E a \in Answers : JudgeFirst(a) \/ GateRaises(a))
                 \/ Skip \/ DispatchParallel \/ Join \/ ConcludeAggregation
      <3>1. \/ pc = "select" /\ pc' = "call"
            \/ pc = "call" /\ pc' = "called"
            \/ pc \in {"call", "called"} /\ pc' \in {"passed", "aggregate", "error"}
            \/ pc = "aggregate" /\ pc' \in {"skipped", "gather"}
            \/ pc = "gather" /\ pc' \in {"failed", "judge"}
            \/ pc = "judge" /\ pc' \in {"failed", "aggregated"}
        BY <2>1 DEF Select, Explore, Refresh, JudgeFirst, GateRaises, Skip, DispatchParallel,
           Join, ConcludeAggregation
      <3>2. Phase < Phase'
        BY <3>1 DEF Phase
      <3> QED
        BY <3>2 DEF Progress
    <2>2. ASSUME NEW m \in Models, Expert(m) PROVE Progress
      <3>1. pc = "gather" /\ pc' = "gather"
        BY <2>2 DEF Expert, TransientError, Retry, FatalError, Return, Calling
      <3> QED
        BY <1>1, <2>2, <3>1, ExpertProgress DEF Progress
    <2>3. ASSUME NEW i \in DOMAIN asked, JudgeExpert(i) PROVE Progress
      <3>1. pc = "judge" /\ pc' = "judge"
        BY <2>3 DEF JudgeExpert
      <3> QED
        BY <2>3, <3>1, JudgeProgress DEF Progress
    <2> QED
      BY <1>1, <2>1, <2>2, <2>3 DEF Visit
  <1>2. VisitInv => IsFiniteSet(MomentsLeft) /\ IsFiniteSet(Unjudged)
    BY LeftFinite DEF VisitInv
  <1>3. VisitInv /\ [Next]_vars
          => [Visit => Progress /\ IsFiniteSet(MomentsLeft) /\ IsFiniteSet(Unjudged)]_vars
    BY <1>1, <1>2
  <1> QED
    BY <1>3, VisitAlways, PTL DEF Spec

-----------------------------------------------------------------------------
(* The experts asked are other models than the one that answered poorly, and
   no more than there are. *)
LEMMA CandidatesAreOthers ==
  ASSUME Typed, NEW c \in CandidateLists
  PROVE  /\ c \in Seq(Others)
         /\ Len(c) <= Cardinality(Others)
  <1> DEFINE T == Trusted(profiles, Others)
  <1>1. T \subseteq Others /\ Others \in SUBSET Models
    BY DEF Typed, Others, Trusted, Sampled
  <1>2. /\ IsFiniteSet(Others) /\ IsFiniteSet(T)
        /\ Cardinality(T) \in Nat /\ Cardinality(Others) \in Nat
        /\ Cardinality(T) <= Cardinality(Others)
    BY <1>1, FiniteModels, FS_Subset, FS_CardinalityType
  <1> HIDE DEF T
  <1>3. CASE Cardinality(Others) <= MaxParallel
    <2>1. c \in SetToSeqs(Others)
      BY <1>3 DEF CandidateLists
    <2> QED
      BY <1>2, <2>1, ListOfSet
  <1>4. ASSUME Cardinality(Others) > MaxParallel
        PROVE  \E S \in {T, Others} : \E s \in SetToSeqs(S) : c = FirstOf(MaxParallel, s)
    <2>1. c \in TopModels(profiles, Others, req.complexity, MaxParallel)
      BY <1>2, <1>4, LimitAssumption DEF CandidateLists
    <2> QED
      BY <2>1, Zenon DEF TopModels, T
  <1>5. CASE Cardinality(Others) > MaxParallel
    <2>1. PICK S \in {T, Others} : \E s \in SetToSeqs(S) : c = FirstOf(MaxParallel, s)
      BY <1>4, <1>5
    <2>2. PICK s \in SetToSeqs(S) : c = FirstOf(MaxParallel, s)
      BY <2>1
    <2>3. IsFiniteSet(S) /\ S \subseteq Others /\ Cardinality(S) <= Cardinality(Others)
      BY <1>1, <1>2, <2>1
    <2>4. s \in Seq(S) /\ Len(s) = Cardinality(S)
      BY <2>2, <2>3, ListOfSet
    <2>5. c \in Seq(S) /\ Len(c) <= Len(s)
      BY <2>2, <2>4, FirstOfList, LimitAssumption
    <2> QED
      BY <1>2, <2>3, <2>4, <2>5
  <1> QED
    BY <1>2, <1>3, <1>5, LimitAssumption

PromiseInv ==
  /\ VisitInv
  /\ pool \subseteq AvailableModels(tier)
  /\ pc \in {"gather", "judge"} => asked \in Seq(Others)

LEMMA PromiseInit == Init => PromiseInv /\ Promise!Init
  <1> SUFFICES ASSUME Init PROVE PromiseInv /\ Promise!Init
    OBVIOUS
  <1>1. pool \subseteq AvailableModels(tier) /\ pc = "select" /\ selected = NoModel
    BY DEF Init
  <1> QED
    BY <1>1, VisitInit DEF PromiseInv, Promise!Init, Stage, Eligible

LEMMA PromiseInvStep == ASSUME PromiseInv, [Next]_vars PROVE PromiseInv'
  <1>1. VisitInv'
    BY VisitStep DEF PromiseInv
  <1>2. UNCHANGED <<tier, pool>>
    BY DEF Next, Visit, Returned, Select, Explore, Refresh, JudgeFirst, GateRaises, Skip,
       DispatchParallel, Expert, TransientError, Retry, FatalError, Return, Join,
       JudgeExpert, ConcludeAggregation, vars, config
  <1>3. CASE DispatchParallel
    <2>1. asked' \in CandidateLists /\ UNCHANGED selected
      BY <1>3 DEF DispatchParallel
    <2>2. asked' \in Seq(Others) /\ Others' = Others
      BY <1>2, <2>1, CandidatesAreOthers DEF PromiseInv, VisitInv, Others
    <2> QED
      BY <1>1, <1>2, <2>2 DEF PromiseInv
  <1>4. CASE ~DispatchParallel
    <2>1. pc' \in {"gather", "judge"} =>
            pc \in {"gather", "judge"} /\ UNCHANGED <<asked, selected>>
      BY <1>4 DEF Next, Visit, Returned, Select, Explore, Refresh, JudgeFirst, GateRaises,
         Skip, Expert, TransientError, Retry, FatalError, Return, Calling, Join,
         JudgeExpert, ConcludeAggregation, vars, work
    <2> QED
      BY <1>1, <1>2, <2>1 DEF PromiseInv, Others
  <1> QED
    BY <1>3, <1>4

(* A model is chosen within the bounds. *)
LEMMA ChooseWithinBounds ==
  ASSUME PromiseInv, Select \/ Explore PROVE Promise!Choose
  <1>1. selected' \in IF pool # {} THEN pool ELSE AvailableModels(tier)
    BY SelectedModel DEF PromiseInv
  <1>2. pc = "select" /\ pc' = "call" /\ UNCHANGED <<tier, pool>>
    BY DEF Select, Explore, config
  <1> QED
    BY <1>1, <1>2 DEF Promise!Choose, Promise!Chosen, Stage, Eligible

(* The number of candidates is the same number on both sides. *)
LEMMA SameNumber ==
  /\ Promise!Candidates = Others
  /\ Promise!Cardinality(Others) = Cardinality(Others)
  <1>1. Promise!Candidates = Others
    BY DEF Promise!Candidates, Others
  <1>2. ASSUME NEW S PROVE Promise!Cardinality(S) = Cardinality(S)
    BY DEF Promise!Cardinality, Cardinality
  <1> QED
    BY <1>1, <1>2

(* Aggregation is skipped only where the cascade reckons with it. *)
LEMMA SkipWithinBounds == ASSUME PromiseInv, Skip PROVE Promise!Skip
  <1>1. /\ pc = "aggregate" /\ pc' = "skipped" /\ UNCHANGED <<tier, pool, selected>>
        /\ ~Eligible \/ \E c \in CandidateLists : Len(c) < MinModels
    BY DEF Skip, config
  <1>2. Typed /\ IsFiniteSet(Others) /\ Cardinality(Others) \in Nat
    BY FiniteModels, FS_CardinalityType DEF PromiseInv, VisitInv, Typed, Others
  <1>3. ~(Eligible /\ Cardinality(Others) >= MinModels) \/ Cardinality(Others) > MaxParallel
    <2>1. ASSUME NEW c \in CandidateLists, Len(c) < MinModels,
                 Cardinality(Others) <= MaxParallel
          PROVE  Cardinality(Others) < MinModels
      BY <1>2, <2>1, CandidateShape
    <2> QED
      BY <1>1, <1>2, <2>1, LimitAssumption
  <1>4. Promise!Skippable
    BY <1>3, SameNumber DEF Promise!Skippable, Promise!Possible
  <1> QED
    BY <1>1, <1>4 DEF Promise!Skip, Stage, Eligible

(* Experts are asked only when there are enough. *)
LEMMA AskWithinBounds == ASSUME PromiseInv, DispatchParallel PROVE Promise!Ask
  <1>1. /\ pc = "aggregate" /\ pc' = "gather" /\ UNCHANGED <<tier, pool, selected>>
        /\ Eligible /\ asked' \in CandidateLists /\ Len(asked') >= MinModels
    BY DEF DispatchParallel, config
  <1>2. IsFiniteSet(Others) /\ Cardinality(Others) \in Nat
    BY FiniteModels, FS_CardinalityType DEF PromiseInv, VisitInv, Typed, Others
  <1>3. asked' \in Seq(Others) /\ Len(asked') <= Cardinality(Others)
    BY <1>1, CandidatesAreOthers DEF PromiseInv, VisitInv
  <1>4. Cardinality(Others) >= MinModels
    BY <1>1, <1>2, <1>3, LimitAssumption
  <1>5. Promise!Possible
    BY <1>1, <1>4, SameNumber DEF Promise!Possible
  <1> QED
    BY <1>1, <1>5 DEF Promise!Ask, Stage, Eligible

(* The answer taken is that of another capable model. *)
LEMMA ConcludeWithinBounds ==
  ASSUME PromiseInv, ConcludeAggregation PROVE Promise!Replace \/ Promise!GiveUp
  <1>1. pc = "judge" /\ UNCHANGED <<tier, pool>>
    BY DEF ConcludeAggregation, config
  <1>2. CASE best = NoModel
    <2>1. pc' = "failed" /\ UNCHANGED selected
      BY <1>2 DEF ConcludeAggregation
    <2> QED
      BY <1>1, <2>1 DEF Promise!GiveUp, Stage, Eligible
  <1>3. CASE best # NoModel
    <2>1. pc' = "aggregated" /\ selected' = best
      BY <1>3 DEF ConcludeAggregation
    <2>2. PICK i \in DOMAIN asked : asked[i] = best
      BY <1>3 DEF PromiseInv, VisitInv, BestInv, FirstPassing
    <2>3. asked \in Seq(Others)
      BY <1>1 DEF PromiseInv
    <2>4. best \in Others
      BY <2>2, <2>3
    <2> QED
      BY <1>1, <2>1, <2>4 DEF Promise!Replace, Promise!Candidates, Others, Stage, Eligible
  <1> QED
    BY <1>2, <1>3

(* Whatever profiles, scores, answers and failures there are, a visit does to
   the cascade what TierVisit, and with it Cascade, allows: the model chosen is
   capable or there is none that is; aggregation is skipped only for want of
   candidates or when there are more than are asked; and the answer that
   replaces a poor one is that of another capable model of the tier. *)
THEOREM PromiseCorrect == Spec => PromiseSpec
  <1>1. ASSUME PromiseInv, [Next]_vars PROVE [Promise!Next]_(Promise!visit)
    <2>1. CASE Select \/ Explore
      BY <1>1, <2>1, ChooseWithinBounds DEF Promise!Next
    <2>2. CASE Skip
      BY <1>1, <2>2, SkipWithinBounds DEF Promise!Next
    <2>3. CASE DispatchParallel
      BY <1>1, <2>3, AskWithinBounds DEF Promise!Next
    <2>4. CASE ConcludeAggregation
      BY <1>1, <2>4, ConcludeWithinBounds DEF Promise!Next
    <2>5. CASE \E a \in Answers : JudgeFirst(a) \/ GateRaises(a)
      <3>1. /\ pc \in {"call", "called"} /\ pc' \in {"passed", "aggregate", "error"}
            /\ UNCHANGED <<tier, pool, selected>>
        BY <2>5 DEF JudgeFirst, GateRaises, config
      <3> QED
        BY <3>1 DEF Promise!Next, Promise!Judge, Stage, Eligible
    <2>6. CASE Join
      <3>1. pc = "gather" /\ pc' \in {"failed", "judge"} /\ UNCHANGED <<tier, pool, selected>>
        BY <2>6 DEF Join, config
      <3> QED
        BY <3>1 DEF Promise!Next, Promise!GiveUp, Promise!visit, Stage, Eligible
    <2>7. CASE Refresh \/ (\E m \in Models : Expert(m))
                 \/ (\E i \in DOMAIN asked : JudgeExpert(i)) \/ UNCHANGED vars
      <3>1. UNCHANGED <<tier, pool, selected, Stage>>
        BY <2>7 DEF Refresh, Expert, TransientError, Retry, FatalError, Return, JudgeExpert,
           vars, config, Stage
      <3> QED
        BY <3>1 DEF Promise!visit, Eligible
    <2> QED
      BY <1>1, <2>1, <2>2, <2>3, <2>4, <2>5, <2>6, <2>7 DEF Next, Visit, Returned
  <1> QED
    BY <1>1, PromiseInit, PromiseInvStep, PTL DEF Spec, PromiseSpec, Promise!Spec

=============================================================================
