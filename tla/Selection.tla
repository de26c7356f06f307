----------------------------- MODULE Selection ------------------------------
(***************************************************************************)
(* How a tier gets its models and how one of them is chosen, as operators: *)
(* _cold_start_rank(), _resolve_tiers() and get_model_for_complexity() in  *)
(* cascade/policy.py, get_models_for_tier() in catalog/registry.py, and    *)
(* get_best_model() and get_top_models() in cascade/reliability.py.        *)
(*                                                                         *)
(* Scores are kept as integers: complexity in tenths, rates, qualities and *)
(* signals in hundredths, each score multiplied by the ranges it would be  *)
(* divided by, so that comparisons come out as they do over the reals.     *)
(* Where the code goes through a set, or draws at random, the operator is  *)
(* the set of everything that can come out.                                *)
(***************************************************************************)
EXTENDS Integers, SequencesExt, FiniteSetsExt

CONSTANTS
  Models,        \* every model string
  NoModel,       \* no override, no model
  LatencyRank,   \* catalog: typical_latency_class as 0, 1 or 2
  Price,         \* catalog: cost_per_1m_input
  FilePosition,  \* catalog: the place of its entry in models.yaml
  FallbackModel, \* the model of a tier without any
  NoProfile,     \* no profile is known
  MinSamples     \* min_samples

ASSUME CatalogAssumption ==
  /\ NoModel \notin Models
  /\ FallbackModel \in Models
  /\ LatencyRank \in [Models -> 0..2]
  /\ Price \in [Models -> Nat]
  /\ FilePosition \in [Models -> Nat]
  /\ \A m, k \in Models : FilePosition[m] = FilePosition[k] => m = k

MinSuccess == 50   \* _MIN_SUCCESS_RATE

-----------------------------------------------------------------------------
(* Latency class, then price; sorted() keeps ties in the order of the file. *)
RanksBefore(m, k) ==
  \/ LatencyRank[m] < LatencyRank[k]
  \/ /\ LatencyRank[m] = LatencyRank[k]
     /\ \/ Price[m] < Price[k]
        \/ Price[m] = Price[k] /\ FilePosition[m] < FilePosition[k]

(* The elements of a finite set in the order of R, pairs that order it totally. *)
Arranged(S, R) ==
  [i \in 1..Cardinality(S) |->
     CHOOSE x \in S : Cardinality({y \in S : <<y, x>> \in R}) = i - 1]

(* What a list has at some of its places, in the order of the list. *)
AtPlaces(list, places) ==
  LET order == Arranged(places, {p \in places \X places : p[1] < p[2]})
  IN [n \in DOMAIN order |-> list[order[n]]]

ColdStartRank(catalog) ==
  Arranged(catalog, {p \in catalog \X catalog : RanksBefore(p[1], p[2])})

(* Models for complexity 0, 1 and 2: the first, the median and the last. *)
ComplexityModels(ranked) ==
  CASE Len(ranked) < 2 -> [level \in {} |-> NoModel]
    [] Len(ranked) = 2 -> [level \in {0, 2} |-> IF level = 0 THEN ranked[1] ELSE ranked[2]]
    [] OTHER -> [level \in 0..2 |-> CASE level = 0 -> Head(ranked)
                                      [] level = 1 -> ranked[(Len(ranked) \div 2) + 1]
                                      [] level = 2 -> Last(ranked)]

(* Those of the ranking that have no place of their own. *)
Remaining_AfterThird(ranked, placed) == {ranked[i] : i \in 4..Len(ranked)}

Remaining(ranked, placed) == ToSet(ranked) \ placed

(* A tier from its active catalog models; an override is its only model. *)
ResolveTier(catalog, override) ==
  LET ranked == IF override # NoModel THEN <<>> ELSE ColdStartRank(catalog)
      byLevel == ComplexityModels(ranked)
      primary == CASE override # NoModel -> override
                   [] override = NoModel /\ catalog = {} -> FallbackModel
                   [] OTHER -> Head(ranked)
  IN [model |-> primary,
      complexityModels |-> byLevel,
      additional |-> Remaining(ranked, {primary} \cup {byLevel[l] : l \in DOMAIN byLevel})]

ModelForComplexity(tier, level) ==
  LET fits == {l \in DOMAIN tier.complexityModels : l <= level}
  IN IF fits = {} THEN tier.model ELSE tier.complexityModels[Max(fits)]

AvailableModels(tier) ==
  {tier.model} \cup tier.additional
    \cup {tier.complexityModels[l] : l \in DOMAIN tier.complexityModels}

(* complexity_to_discrete(), of tenths. *)
Discrete(complexity) ==
  CASE complexity < 4 -> 0
    [] complexity \in 4..6 -> 1
    [] OTHER -> 2

-----------------------------------------------------------------------------
(* The models whose profile may be relied on. *)
Sampled(profiles, pool) ==
  {m \in pool : profiles[m] # NoProfile /\ profiles[m].samples >= MinSamples}

Trusted(profiles, pool) ==
  {m \in Sampled(profiles, pool) : profiles[m].success >= MinSuccess}

Samples(profiles, m) == IF profiles[m] = NoProfile THEN 0 ELSE profiles[m].samples

Spread(values) == IF Max(values) > Min(values) THEN Max(values) - Min(values) ELSE 1

Qualities(profiles, T) == {profiles[k].quality : k \in T}
Costs(profiles, T) == {profiles[k].cost : k \in T}

(* Quality against cost, both relative to the models T that compete, and the
   hundredth that every success adds; to be weighed with the success rate. *)
Pareto_NoBonus(profiles, T, complexity, m) ==
  LET qs == Qualities(profiles, T)
      cs == Costs(profiles, T)
      qualityWeight == 30 + 6 * complexity
  IN qualityWeight * (profiles[m].quality - Min(qs)) * Spread(cs)
       - (100 - qualityWeight) * (profiles[m].cost - Min(cs)) * Spread(qs)

Pareto(profiles, T, complexity, m) ==
  LET qs == Qualities(profiles, T)
      cs == Costs(profiles, T)
      qualityWeight == 30 + 6 * complexity
  IN qualityWeight * (profiles[m].quality - Min(qs)) * Spread(cs)
       - (100 - qualityWeight) * (profiles[m].cost - Min(cs)) * Spread(qs)
       + Spread(qs) * Spread(cs)

Weighed_BySamples(profiles, m, score) == score * profiles[m].samples

Weighed(profiles, m, score) == score * profiles[m].success

Fitness(profiles, T, complexity, m) ==
  Weighed(profiles, m, Pareto(profiles, T, complexity, m))

(* get_best_model() adds what case memory, expert bank and the learned
   preferences say of the model. *)
FitnessWithSignal(profiles, T, complexity, signal, m) ==
  Fitness(profiles, T, complexity, m)
    + 100 * signal[m] * Spread(Qualities(profiles, T)) * Spread(Costs(profiles, T))

(* Cold start: the fewest samples, ties at random. *)
ColdStart(tier, profiles, pool, complexity) ==
  IF pool = {} THEN {ModelForComplexity(tier, Discrete(complexity))}
  ELSE {m \in pool : \A k \in pool : Samples(profiles, m) <= Samples(profiles, k)}

(* The first with the highest score, in an order that is not fixed. *)
Exploited(profiles, T, complexity, signal) ==
  {m \in T : \A k \in T : FitnessWithSignal(profiles, T, complexity, signal, k)
                            <= FitnessWithSignal(profiles, T, complexity, signal, m)}

Explored(pool) == IF Cardinality(pool) > 1 THEN pool ELSE {}

(* What get_best_model() may return without exploring. *)
BestModels(tier, profiles, pool, complexity, signal) ==
  LET T == Trusted(profiles, pool)
  IN IF T = {} THEN ColdStart(tier, profiles, pool, complexity)
     ELSE Exploited(profiles, T, complexity, signal)

-----------------------------------------------------------------------------
FirstOf(n, seq) == IF Len(seq) <= n THEN seq ELSE SubSeq(seq, 1, n)

(* What get_top_models() may return: the trusted models by falling fitness, or
   any n when none is trusted. *)
TopModels(profiles, pool, complexity, n) ==
  LET T == Trusted(profiles, pool)
      Ranked(seq) == \A i, j \in DOMAIN seq :
                       i < j => Fitness(profiles, T, complexity, seq[i])
                                  >= Fitness(profiles, T, complexity, seq[j])
  IN IF T = {} THEN {FirstOf(n, seq) : seq \in SetToSeqs(pool)}
     ELSE {FirstOf(n, seq) : seq \in {s \in SetToSeqs(T) : Ranked(s)}}

=============================================================================
