# A TLA+ model of sriti-core

sriti-core answers chat completions with the cheapest model that is good enough.
A request is classified, looked up in a semantic cache, compressed, and handed
to a *cascade* over three tiers of models (3 cheap, 2 mid, 1 frontier): the
cascade dispatches, judges the answer, and retries, aggregates or escalates
until it returns a response. This directory holds TLA+ modules that model the
cascade, the tier visit inside it with its selection and aggregation, what the
cascade learns and how it notices slow providers, the traffic cap on its
frontier, and the completion service with its cache and vector store; TLC
configurations that check them; and proofs of their main properties checked by
TLAPS.

Paths below are relative to the repository; line numbers refer to
`sriti/core/cascade/engine.py` unless another file is named.

## Inventory

| Component | State it keeps | Operations | Correct when |
|---|---|---|---|
| Cascade engine `cascade/engine.py` | locals of one `run()`: tier, model, failed models, result, verdict, escalation count, clock | select, dispatch, fall back, escalate, deny, degrade, aggregate, return | it returns the newest response under its own tier and verdict, fails only without one or when judging it raises, and does not spend more on providers than its budget allows |
| Frontier cap `cascade/policy.py` 351-420 | two Redis counters per scope and minute | check and count | the share of frontier dispatches stays near the cap, whoever checks at the same time |
| Tier policy `cascade/policy.py` | tier table, read-only after import | getters | every tier resolves to at least one model |
| Aggregation `cascade/aggregation.py` | none | rank, dispatch in parallel, pick | one passing answer, recorded once per candidate |
| Reliability engine `cascade/reliability.py` | cached profiles, refreshed every 60 s under a lock | best model, top models, refresh, record | picks from what it is given, never a dominated model; the cache is as old as it says |
| Reliability store `cascade/reliability_store.py` | one Redis key per model and task | fold an outcome in, load all | samples are counted once, and lost only to overlapping recordings |
| Provider health `cascade/provider_health.py` | latency samples per provider and minute, a latch | record, read, filter | no provider is flagged without slow calls, whatever is late, lost or expired |
| Case memory, expert bank | vector store records; affinities | store, retrieve, bias | breaks ties only |
| Classifier, complexity, media detection | the trained head | classify, reload | one head per classification |
| Semantic cache `cache/semantic_cache.py` | entries in a vector store, encrypted | get, set, schedule_set | keeps only answers that may be shared, whatever crashes or fails |
| Local vector store `local_vector_store.py` | an in-memory list and its Redis copy | load, add, search | what a restart finds is what was stored and has not expired |
| Retry and provider client `execution/` | none | call, stream, with_retry | transient errors are retried, others not |
| Compression `compression/` | a lazily loaded compressor | maybe_compress | the original is sent when compression is not good enough |
| Service, app, client | the cache singleton, telemetry | complete | cache, cascade and cache write in order; no bad answer cached |

How they interact. `service.complete` awaits the classifier, the cache,
compression and `engine.run` one after the other, and starts the cache write as
a background task. `engine.run` awaits the frontier cap, the health filter, the
reliability engine, the provider client, the quality gate and aggregation; it
starts the recording of outcomes, health samples and case memory as background
tasks that it never waits for. Everything shared between requests is in Redis
(cap counters, profiles, samples) or in a process-wide object (cached profiles,
the vector stores' lists), and is read and written across awaits without locks,
apart from the refresh of the profiles.

What is hard: a request meets provider errors, timeouts, poor answers and cap
denials in any order, and each of a dozen exits of one loop must leave half a
dozen locals consistent; concurrent requests share counters that are read and
incremented in two round trips; limits on time apply per attempt while the
budget is per request; and a crash or a lost reply may fall between any two
awaits. `PROJECT.json` lists these hazards at their lines.

## Modules

| Module | What it is |
|---|---|
| `AnswerContract` | what a call promises: responses arrive and are judged, the newest is handed out; it fails only empty-handed, or when judging raises |
| `Cascade` | `engine.run()` for one request, one action per step of the code |
| `MCCascade` | ten requests over a small catalog, for TLC |
| `CascadeProofs` | its invariants, action properties, the refinement of `AnswerContract` and the bounds on provider time and steps, proved |
| `FrontierCap` | `check_and_record_frontier` for concurrent callers |
| `MCFrontierCap` | three callers, three minutes |
| `FrontierCapProofs` | its invariants, proved |
| `VectorStore` | `LocalVectorStore`: add, load and what a search may return |
| `MCVectorStore` | one record with a time to live, one without |
| `VectorStoreProofs` | its invariants and the refinement of `EntryStore`, proved |
| `EntryStore` | what a store promises whose entries are in memory and, later or never, on disk |
| `SharedAnswers` | what the service promises about answers given more than once, and how they may come out when an earlier process left them |
| `Service` | `complete()` with the semantic cache, for concurrent requests and restarts |
| `MCService` | four requests that ask nearly the same |
| `ServiceProofs` | its invariants, the refinements of `SharedAnswers` and `EntryStore`, and that what is gone stays gone, proved |
| `Selection` | operators: how a tier is built, and which model is chosen from it |
| `SelectionProofs` | lemmas: lists arranged by counting, resolved tiers, what a score respects |
| `TierVisit` | what a visit of a tier may do to the cascade |
| `Aggregation` | one visit of a tier: choice, gate, parallel experts with retries |
| `MCAggregation` | tiers of none to four models, seven tables of profiles |
| `AggregationProofs` | all its safety properties, progress, and the refinement of `TierVisit`, proved |
| `ReliabilityProfiles` | the learned profiles in Redis and in memory |
| `MCReliabilityProfiles` | three outcomes of two profiles, three calls |
| `ReliabilityProofs` | all its safety properties and the order of the lock, proved |
| `ProviderHealth` | the latency breaker and what selection makes of it |
| `MCProviderHealth` | two requests, two providers, three minutes |
| `ProviderHealthProofs` | all its safety properties, proved |

`Cascade` takes the frontier cap, the gate, selection and aggregation as
choices; `FrontierCap` and `Aggregation` model what is behind these. For
selection and aggregation the bounds of the choices are a module of their own,
`TierVisit`: `Cascade` is written with its operators, and `Aggregation` is
proved to implement it. In the same way `Service` is written with the actions of
`EntryStore` for the store under its cache, and `VectorStore` is proved to
implement `EntryStore`. `Service` takes the cascade as the grade of its answer.
`Aggregation` and `ProviderHealth` extend `Selection`. The contracts
`AnswerContract` and `SharedAnswers` are what the cascade promises to the
service, and the service to its clients.

### Cascade

The variables are the locals of `run()` (the declaration names each), a program
counter `pc`, the clock `elapsed`, and three history variables (`visitFailed`,
`tried`, `calling`) that the properties need and no action reads. `pc` stands at
the places where the code decides something:

- `start`: tier and model are chosen (516-568), or HTTP 400 is raised;
- `loop`: the top of `while True` (619-669), where the budget and the frontier
  cap are checked;
- `dispatch`: the provider call (691-703);
- `except`: the handler (704-938), which falls back, escalates, degrades or
  raises again;
- `quality`: the gate and everything up to the return of a good answer
  (961-1045);
- `aggregate`, `escalate`: 1060-1152 and 1154-1213;
- `done`: after the loop.

Within one request nothing runs concurrently with `run()`, so an action may
cover all the code between two decisions. The awaits are choices:

- *the provider* answers, times out, raises a provider error, or raises anything
  else, after one of `Durations`, within `Attempts` times the timeout it was
  given plus the pauses of `with_retry`;
- *the quality gate* passes, fails, or raises while it computes an embedding
  (`GateRaises`), which nothing in `run()` catches: the response is lost. At the
  frontier and for media it has no embedding to compute;
- *the frontier cap* allows or denies, whatever the counters: `FrontierCap`
  models those;
- *Redis, the health filter, selection and the gate* take one of `Waits`, which
  nothing in the code limits. The budget is looked at before the cap is asked
  and again after (684), so the limit of a dispatch to the frontier may have
  passed; the HTTP client is assumed to end such an attempt at once;
- *the reliability engine* returns any of the models it is given, or, given
  none, any model of the tier (`get_best_model` then returns the tier's model
  for the complexity). Exploration, Pareto scores and cold start only choose
  among these, and the health filter only reorders them;
- *aggregation* finds a passing answer of a candidate, or none. When there are
  more candidates than are asked, the ranking keeps only the profiled ones and
  may leave too few, so it may also be skipped.

Abstracted or left out: the routing trail, costs and latencies in the metadata,
`tier_overrides` (they replace a tier's thresholds and limits but not the pool
that `_get_available_models_for_tier` reads), the two background tasks that
record health samples and cases, and which outcomes were recorded beyond how
many per dispatch (`recorded`). `lowest tier number = most expensive` as in the
code. The clock is only ever compared with the budget, so it saturates at
`Horizon`, above that; `calling`, the part of the time that providers and their
pauses took, does not.
`escalations` saturates above the request's `maxEscalations`, the only thing it
is compared with; a request without a limit has 99, the code's default.

### FrontierCap

A check is two round trips to Redis, `Read` (MGET) and `Write` (the MULTI
pipeline), with the other callers in between. `RedisFails` is an exception in
either; a pipeline that is executed while its reply is lost is a `Write`, since
the counters change and the check returns. The time to live (120 s) is two
minutes of the bucket's own clock; because every pipeline that increments
`frontier` also increments and renews `total`, the total does not expire first.
The cap is the fraction `CapNum / CapDen`.

### VectorStore

`Add` appends to the index (`memory`) and sends a SET, which `SetArrives` or
`SetLost` later, perhaps after a `Crash`: memory counts the time to live from
`Add`, Redis from the arrival. `load()` reads a key in two round trips
(`LoadGet`, `LoadTtl`) and appends a record (`LoadRecord`); `Tick` may come
between any of these, so a key can expire in between and a reply can be old when
it is used. TTL replies are whole seconds rounded to the nearest, and a clock
unit is a fraction of a second, so a reply may be early, late, or 0. `LoadFails`
is any exception during the load. `scan_iter` may yield a key twice, and a key
that is set during the scan or not. The process and Redis are taken to share a
clock, and Redis keeps what it has until it expires. Vectors, filters and
payloads are left out; `Served` is what a search chooses from. Records that have
expired are never removed from `memory`, in the model as in the code.

### Service

A request goes through `stage`: `Ask` classifies it, `Hit` answers it from the
index, `GoOn` covers a miss, a skipped and a failing lookup, and the cascade
answers or raises. `CascadeReturns` both gives the answer and schedules the
cache write, which goes on as a task of its own (`Write` or `DropWrite`); the
SET it sends to Redis arrives later or not at all (`Persist`), perhaps after a
`Crash`. At start-up `Load` reads the index entry by entry, while others expire
or arrive; `LoadFails` is the exception that leaves it empty; `Start` then
serves requests with whatever encryption key is configured by then. An entry is
named after the request that wrote it and stands for that request's answer, so
`reply` is what the entry holds: `KeptAnswersSound` and the proof of the
contract show that this answer no longer changes. What a `Hit` serves is that
answer as `decrypt` gives it back: an entry sealed with another key than the
present one comes out as ciphertext, which the field `clear` of an answer tells.
Expiry is a choice, in memory and in Redis separately; `BoundedLateness` of
`VectorStore` says how far the two may be apart.

The guards are those of the code: `skip_cache` for media and opting out, the
uncacheable tasks and what `_is_cacheable` looks at in the content (`complete`)
in the cache, `quality_passed is not False` in the service. The lookup is
nearest-neighbour with k = 1 and the threshold of the asking request's task.

### Selection and Aggregation

`Selection` has no state. It translates `_resolve_tiers` (a tier's ranking by
latency class, price and place in the file, its models for three levels of
complexity, the rest), `get_model_for_complexity`, `get_best_model` and
`get_top_models`. Averages are integers: rates and qualities in percent,
complexity in tenths. The score is the code's formula multiplied by both ranges,
which keeps it an integer and the order as it is. `Pareto` contains the
hundredth that every success adds and `Fitness` weighs it with the success rate,
as the code's sum does. What case memory, expert bank and preferences contribute
is one number per model (`SignalTables`). Where the code's order comes from a
Python set, all orders are possible. Sorting is by counting (`Arranged`: an
element's place is the number of those that rank before it) and filtering by
places (`AtPlaces`), because the provers cannot see into the library's
`SetToSortSeq` and `SelectSeq`, which recur; the ASSUMEs of `MCAggregation` let
TLC check that they give the same lists.

`Aggregation` is one visit: `Select` or `Explore`, a possible `Refresh` of the
profiles during the call, `JudgeFirst`, then aggregation. The experts' calls
proceed in any order, each with the attempts and pauses of `with_retry`
(`TransientError`, `Retry`, `FatalError`); after `Join` they are judged in the
order in which they were asked. The gate is a function of what it looks at:
length, finish reason, hedging, JSON validity, and for what is left the
similarity of the answer to the request. A raised embedding error ends the
request in `run()` (`GateRaises`) and counts as a failed verdict in aggregation.
The structural check is case by case that of `_quality_check_structural`;
wording and thresholds in words are the constants of answers and requests. Every
catalog entry supports JSON mode, so the capable models of the selection are
those of the experts as well (1088 passes the request's own flag).

### ReliabilityProfiles

A profile is the moving average of the outcomes folded into it, and is modelled
by their sequence; its length is `sample_count`. A recording is `GetProfile` and
`SetProfile`, with anything in between. A call of `get_best_model` finds the
cache fresh, or takes the time, queues for the lock (`queue`, first come first
served, as asyncio's lock is), finds the cache refreshed by another, or loads it
key by key and publishes. The scan yields the keys there were when it began and
any that are stored while it goes on (`AddedMeanwhile`); one that it yields
twice is read once in the model. `BreakLoad` is an exception in the scan: what
was read so far is published. History variables (`setDuring`, `readAt`,
`loadedAt`, `broken`) only serve the properties.

### ProviderHealth

A request checks the providers of its candidates one after another: the latch,
the current window, the baseline, the latch again, each a round trip that may
fail, with keys computed before the reply comes. `Filtered` moves degraded
providers' models to the end, and `Choose` settles on what the scores leave, by
position only in a tie. The scores contain what case memory, expert bank and
preferences say of each model (`SignalTables`), whatever they say by then.
Latencies of answered calls are pushed to the list of the minute in which the
call ended. A list is a bag of latencies. The percentile is the code's, with its
rounding of halves to the even.

## Runs

| Run | States | What it shows |
|---|---|---|
| `cascade` | 198 thousand | all invariants, action properties, the contract and termination, over ten requests |
| `frontier_cap` | 986 thousand | the overshoot is at most the callers minus one |
| `vector_store` | 1.4 million | records expire in time, loads find everything, across crashes |
| `service` | 161 thousand | only answers that may be shared are kept, in Redis too; own entries are readable; the contract |
| `reliability_profiles` | 216 thousand | which samples may be lost, how old the cache may be, when a profile is forgotten, that calls return |
| `aggregation` | 724 thousand | no dominated model chosen, fair ranking, the first passing expert, complete outcomes, that visits end |
| `provider_health` | 499 thousand | baseline compared in full, no false alarm, health breaks ties only |
| `no_ping_pong`, `reported_tier_always`, `incapable_never_seen`, `expired_excluded`, `media_judged_by_form` | | disagreements of the code with its own comments, each with a counterexample |

`cascade`: one model in tier 1, as shipped, and three in tiers 2 and 3, so that
aggregation has the two candidates it needs beside the model that answered
poorly. The catalog lacks two pool models (fail-open for JSON and tools) and has
two models outside the pools (bandit choices: a tier-1 vision model, and a
tier-2 model that leaves three candidates to aggregation). The requests cover
each input that steers the loop: a tier floor, a learned capability with no
escalation allowed, a learned cap with an avoided model, vision (with and
without a cap), video that nothing supports, bandits inside and outside the
pool. A unit of time is 30 s: the budget is 9 units, the SLOs 1, 1 and 8, the
timeout of an aggregated call 3, and the pauses of a call (at most 4 s) are
rounded up to 1. The durations 1, 4, 10 and 25 are one quick call and calls that
use up all three attempts against each of the limits. Other awaits take no time,
two units, or ten, which is more than the budget; the clock stops at ten. These
instances reach every exit of the loop and every action; larger pools repeat the
same fallbacks.

`frontier_cap`: a cap of one third after two checks replaces 0.08 after twenty,
so that the cap bites within the five checks counted per minute (`MaxTotal`).
Three callers show that the overshoot does not add up; three minutes
(`LastMinute`) let a bucket expire under a check that is still running. The run
stops when both bounds are reached and the buckets have expired, so deadlock is
not checked there. Callers are symmetric.

`vector_store`: a second is three clock units, the fewest with which a reply can
be rounded to 0, up and down. The key with a time to live of one second passes
through every age at every step of a load within six units; the key without one
is what a load interrupted by the other's expiry would miss. Crashes and loads
are not limited in number.

`service`: two requests with different thresholds, near enough to each other in
one direction only, a request with an image and the same text, and a task that
is not cached; answers that passed, failed, and were cut off unchecked; two keys
and none. Nothing limits crashes and restarts. Each request is asked once, so
the run stops when all are answered and everything has expired; deadlock is not
checked there.

`reliability_profiles`: two recordings of one profile race, another profile
exists from before; three calls contend for the lock, over a clock (`LastTick`)
that lets the cache become stale a second time under calls that queued the first
time. It stops when everything is recorded and the clock at its bound; deadlock
is not checked.

`aggregation`: catalogs of none, one, two, three and four models, with the
median of each and an override; capable sets that leave all, two and none;
tables with profiles missing, too thin, unreliable, good, and dear and poor in
two degrees, the ones with negative scores. At most two experts are asked, so
that three others must be ranked; two attempts per call. Six answers meet each
clause of the gate, the embedding one on both sides.

`provider_health`: windows of one and two minutes instead of 1 and 60, two ticks
to the minute, so that a bucket's life exceeds the baseline window by one tick
as 3700 s exceeds an hour by 100 s. The percentile is the median, with which one
slow call beside two fast ones shows. What was learned either says the same of
both models, or outweighs the better profile of one. Two samples are recorded by
the process (`MaxSamples`) on top of two fast ones per provider.

**Fairness.** `FairSpec` adds weak fairness of the step relation of one call: a
coroutine that can continue is continued. Calls to providers time out in the
HTTP client. The Redis clients are created without a socket timeout (`app.py`
37, `cache/semantic_cache.py` 381), so for them this is an assumption: Redis
answers or the connection fails. Nothing is assumed about which answer arrives.
`Returns` then rests on two facts of the code: every dispatch takes time, so the
budget ends the loop, and below it tiers and models run out. It says that a call
ends, not when: how long Redis takes to answer is left open.
`ReliabilityProfiles` assumes weak fairness of each call's steps once it waits
for the lock or loads, not of its being made and not of recordings: the event
loop resumes a task that can go on, and Redis answers or fails. `CallsReturn`
holds because every load ends by publishing, whatever failed, and because the
lock is fair. `Aggregation` assumes weak fairness of the visit as a whole: some
call proceeds while one can. Provider calls have a timeout. It says nothing of
whether they succeed, and `VisitEnds` rests on the attempts being counted.

**Mutated forms.** Definitions whose name is another one's with a suffix
(`Below_IgnoresMaxTier`, `AllowedBy_OneMore`, ...) are the other one with a
plausible mistake. No specification uses them; `PROJECT.json` names the property
that tells each from the original.

## What the disagreements are

With a run that finds the counterexample:

1. *Ping-pong* (`NoPingPong`): after a denial the quality path stays off tier 1
   (1166), the error path does not (803). `QualityKeepsOffFrontier` states what
   does hold.
2. *Reported tier* (`ReportedTierAlways`): two exits leave `current_tier` ahead
   of the response (627, 1198). `ReportedTier` states the rest.
3. *Incapable model* (`IncapableNeverSeen`): a denial may dispatch to a tier 2
   that has no capable model (656). `DispatchCapable` states the rest.
4. *Expired records* (`ExpiredExcluded`): a load that gets the TTL reply 0 or -2
   gives the record no expiry (`local_vector_store.py` 64). `BoundedLateness`
   states the bound for records that have one.
5. *Media judged by embedding* (`MediaJudgedByForm`): the experts' answers to a
   request with an image are judged in the configured mode (1081) although the
   comment on the quality check (962-963) says why they should not be.

Seen while modelling, and described by the properties of the passing runs:

6. *Verdict after aggregation*: a good aggregated answer keeps the verdict FALSE
   of the one it replaced (1111) and is therefore not cached, although
   `service.py` 191-197 takes FALSE for "a response that failed the quality
   gate". `ReportedVerdict` excepts aggregated answers.
7. *Budget*: the remaining budget limits each attempt, not the dispatch (687 and
   `execution/retry.py` 50), where 678 speaks of not overshooting the deadline.
   Waiting for Redis and the gate is not limited at all, and the budget may be
   gone when it is looked at again (684). `ProviderTimeBounded` states the bound
   there is, which is one on calls to providers.
8. *Cap*: checks that read before others write overshoot it (`policy.py` 382),
   where the docstring (365) states the ratio as kept. `BoundedOvershoot` states
   by how much.
9. *Order of health*: `filter_candidates` only reorders the list, and
   `get_best_model` looks at its order only among exactly equal scores, or not
   at all when it explores; the fallback within a tier (764) does not use the
   filtered list. "Deprioritise" (510) is thus hardly more than a tie-break,
   which is what `HealthBreaksTies` states. The current minute is part of its
   own baseline, so a provider that stays slow is in the end no longer flagged.
10. *Partial load*: the docstring of `load_all_profiles` (78-81) says that an
    error gives `{}`; it gives what was read before, and models not read are in
    cold start for a minute. `ForgottenOnlyByError`.
11. *Dominated experts*: a negative score is multiplied with the success rate
    like a positive one (`reliability.py` 309), so of two models with negative
    scores the less reliable one ranks first. In `get_best_model` the cheapest
    competitor always scores at least zero and the bonus is positive, so the
    chosen model is never dominated (`UndominatedBest`); in `get_top_models` the
    second expert may be (`RankedFairly`). Signals may outweigh the Pareto term,
    although the comments call them tie-breakers. The docstring of
    `get_top_models` promises an empty list without profiles; the code gives the
    first candidates (382).
12. *Complexity levels*: level 2 is "most capable (expensive)" (`policy.py` 192)
    but the ranking is latency class before price. *Empty answers*: 95-98 says
    they must fail even for tier 1, while `_quality_check_low` returns at 205
    for tier 1 before looking. *Hits*: `service.py` 41-45 applies a tier floor
    to every request, a hit ignores it. *Uncacheable tasks*: `policy.yaml` 31
    lists "unknown", which `_UNCACHEABLE_TASKS` does not. *Gate errors*: an
    embedding error fails the request in `run()` although it has a response
    (977-986), where aggregation counts a failed verdict; hence "broken" in
    `AnswerContract`. *Ciphertext*: an entry that cannot be decrypted is served
    as it is (`cache/encryption.py` 40-50); hence
    `ReuseSealed` in `SharedAnswers`.

## Proofs

The theorems hold for every value of the constants that satisfies the named
assumptions: every tier has a model (`ModelAssumption`), requests have their
type and learned capabilities are JSON mode and tool use only
(`RequestAssumption`), limits are positive (`TimeAssumption`), tier 1 is not
aggregated and no fewer candidates are asked than are required
(`AggregationAssumption`); for the cap, finitely many callers, a minimum traffic
of at least one (`CapAssumption`) and a cap of at most one; for the vector
store, positive times to live and a clock unit that divides a second
(`TimeAssumption`); for the service, that no request's answer is one of the two
replies that are none (`ReplyAssumption`); for the profiles, at most one outcome
of each profile from an earlier process (`OutcomeAssumption`) and finitely many
profiles (`ProfileAssumption`); for aggregation, finitely many models with
distinct places in the file and bounded averages (`TierAssumption`,
`DataAssumption`, `CatalogAssumption`), and at least one expert to ask
(`LimitAssumption`); for provider health, positive windows and a time to live
longer than the baseline window (`WindowAssumption`), finitely many positive
latencies, typed profiles and integer signals (`HealthAssumption`), and a
percentile and a ratio that compare (`ComparisonAssumption`).

None of the cascade's invariants is inductive alone. `CascadeProofs` strengthens
them:

- `TypeInv` adds to `TypeOK` that a held response's tier is
  `_last_successful_tier` (degrading assigns one to the other), that a model is
  selected from the first loop on, and that the response being judged is the
  current tier's;
- `ExitInv`, for `ReportedTier` and `ReportedVerdict`: outside the gate
  every response has its verdict, and `_quality_passed` describes the newest one
  unless aggregation replaced it;
- `VisitInv`, for `NoRepeatInVisit`: what failed in this visit of the tier is in
  `_failed_models`, and the selected model is not among it whenever a dispatch
  is still to come;
- `QualifiedInv`, `OutcomeInv`: the selected model's capability and the number
  of outcomes, at each `pc`;
- `GapInv`, for `NoTierLeftUntried`: of the tiers between the most expensive and
  any one dispatched to, those with a capable model were dispatched to, down to
  the current tier;
- `DenialInv`, for the action properties: once the cap was hit the request is in
  tier 2 or 1.

`CascadeProofs` also maps the response and the exit to the contract's
variables and shows that every step is a step of the contract or a stutter. Its
`TimeInv` bounds the time spent on providers at each `pc`: as long as the clock
is below the budget *B* it has counted every call, so a dispatch is decided on
after less than *B* of them, and one whose limit is *B - e* takes at most
*A(B - e) + P* more, which is at most *AB + P* together; after a limit that has
passed only pauses are added.

`FrontierCapProofs` proves `BoundedOvershoot` from `PendingOvershoot`, which
also counts the places given away but not yet counted: a check that is granted
one saw the present counters, so with all other callers pending there is room
for it; counting moves a place from pending to counted and raises the total;
giving one back costs at most what the last check added, because the cap is at
most one.

`VectorStoreProofs` needs `KeyInv` (a key on its way to Redis is not there yet,
so its deadline is set once) and `ReplyInv` (a pending TTL reply is within half
a second of the deadline it was computed from). From these `LoadedInTime` bounds
the expiry of a loaded record by the deadline plus the wait, and `InTimeStep`
shows that the bound only grows. `RestartFindsAll` follows from `FoundInv`:
until the load ends, each key that was there at its beginning is still to be
read, being read, or has a record that covers what Redis keeps of it.
`StoreCorrect` maps what a search may find, or a load has read, and has not
expired (`Indexed`) to `index`, and the keys that have not expired to `disk`. A
tick of the clock, a crash and a failing load forget entries. By `PhaseInv` only
a serving process has an index and only a loading one has records of its own, so
that nothing is added when the load ends and one becomes the other.

`ServiceProofs` proves its invariants together: what is scheduled for writing is
a sound own answer (`WritesSound`), so what is kept is, so what a hit hands on
is what its entry's request was given. The refinement follows: a `Hit` is a
`Reuse` when the entry is readable and a `ReuseSealed` when it is not, since
`OwnEntriesReadable` makes it an earlier process's, a `Crash` fails the running
requests at once, and writes, SETs, expiry and restarts are stutters.
`StoreOnlyCorrect` says that the service does to its store only what
`EntryStore` allows, which `VectorStore` implements. `GoneForGoodCorrect` draws
the consequence a user of the cache relies on: an answer that is in neither
place and on no way to Redis is never served again, since nothing but its own
request's write adds it.

`ReliabilityProofs` has an invariant per property over a common `TypeInv`, which
adds that nobody stands in the lock's queue twice and that who loads is at its
head:

- `SamplesInv`: what Redis stores, a recording got, a refresh read and the cache
  serves of a profile is made of recorded outcomes of its own, which is the
  property itself;
- `LostInv`: an outcome that is set is in whatever is got later, or set during
  it, or already overlapped;
- `AgeInv`: a load has read its profiles no earlier than the time its call took;
- `OrderInv`: calls stand in the queue in the order of the times they took, none
  earlier than the last refresh. Without the order of the queue a waiting call
  could set the refresh time back;
- `CompleteInv`: what was cached is in Redis, and is read or still to be read by
  a load that did not break.

`FirstComeFirstServedCorrect` rests on `CompleteInv`. Of the calls that queue or
load, each step moves none but the head of the queue, which reads one of
finitely many keys or leaves; a call that joins does so at the end; and
recordings and the clock disturb nobody.

`AggregationProofs` proves what is chosen from arithmetic: a score is monotone
in quality and cost (`ParetoMonotone`), the cheapest competitor's is positive
(`SomePositive`), so the best is, and among positive scores a higher success
rate is higher (`DominatingFitter`). `RankedFairly` drops the last step.
`SkippedForWant` counts: a list in which each model of a finite set stands once
is as long as the set is large (`ListOfSet`). `FirstPassingWins` follows from
`BestInv`: the best so far passed, and nothing judged before it did.

`TierWellFormed` rests on lists made by counting. The number of elements that
rank before one differs from element to element when the ranking is a strict
order, so `ArrangedList` shows that every element of a finite set gets a place
of its own and the list is in order, and `ResolvedTier` that three levels and
the rest lose none of them, whatever their number. `VisitInv` joins to the types
what they depend on: nobody pauses without an attempt left, and only answers
were judged. `OutcomeListComplete` then shows that the failed and the answered
places together are all places (`PlacesList`), so that each expert asked has its
outcome.

`PromiseCorrect` maps the visit to `TierVisit`. Its invariant adds that the
experts asked are capable models other than the one that answered poorly
(`CandidatesAreOthers`), so the answer that replaces the poor one is one
`Cascade` may take; `SkipWithinBounds` shows that the ranking leaves too few
only where `Cascade` reckons with it, whether or not fewer may be asked than are
required.

`ProviderHealthProofs` proves `BaselineKept` from `LivesInv`: a list lives until
`BucketTTL` after the beginning of its minute at least, since every push renews
it, and until then has every sample pushed to it. `NoFalseAlarm` follows from
`AlarmInv`: what is in Redis was pushed, what a check has read was in Redis, and
who is latching or latched, or was taken for degraded, has `Grounds`, two pushed
latencies that differ by more than the ratio. Its arithmetic is `P95Sampled`:
the percentile of a list of samples is one of them, wherever the rounding puts
it, so that an alarm always has two real calls to show; a read that failed is an
empty list and compares with nothing (`SlowerSampled`). `HealthBreaksTies`
follows from `FilteredOrder` and `SettledBeats`: filtering puts every healthy
model before every degraded one, and among equal scores the first place wins,
whatever the learned signals add to them (`ScoreType` is all that is needed of
a score).

*Towards liveness.* Three theorems are the safety half of the liveness
properties: `StepsBoundedCorrect` (every step of a call lowers a natural number:
seven times the budget left and the steps to the next dispatch, which takes from
the budget, or is the last when none is left), `ProgressCorrect` (every step of
a visit moves control on, or strictly shrinks the finite set of the replies and
pauses or of the verdicts still to come), and `FirstComeFirstServedCorrect`.
What is left to TLC is that fairness makes the steps happen.

TLC checked the two refinements whose abstract specification is no property of a
run (`StoreSpec` of `VectorStore` and `PromiseSpec` of `Aggregation`) on the
instances of `vector_store` and `aggregation`; `StoreSpec` and `PromiseSpec` can
be added to `MCVectorStore.cfg` and `MCAggregation.cfg` to repeat that.

Only model-checked: `Returns`, `CallsReturn` and `VisitEnds`, because liveness
under fairness, ENABLED and well-founded induction are beyond the prover.

## Not modelled

- *Classifier, complexity score, media detection*: functions of text and
  embeddings without state. The trained head is loaded once at start-up.
- *Compression*: `maybe_compress` runs a model and falls back to the original
  messages; it keeps nothing between requests. (When its quality gate raises,
  the fallback is built without a required field and raises in turn,
  `compression/llmlingua.py` 431: a defect of data, not of order.)
- *Case memory and expert bank*: what they say of a model is the number
  `SignalTables` gives. Case memory's records behave as those of `VectorStore`
  without a time to live; the bank never changes.
- *Streaming, embedding cache, `rank_candidates`, the catalog's listing
  functions*: nothing that serves a request calls them.
- *The medium quality check*: a stub that calls the low one (255-268), so that
  it is the low gate of `Aggregation` and a verdict like the others in
  `Cascade`.
- *Several tenants and conversations in the cache*: the filters are equalities
  on two fields of an entry. All requests of `Service` have the same.
- *Settings, schemas, telemetry, request parsing, the HTTP client*: data and its
  form.
- *YAML files*: their contents are constants.

## Plan

Done: the cascade and its contract, the frontier cap, the vector store and the
entry store it implements, the service with its cache and its contract,
selection and aggregation with the bounds the cascade takes them in, the learned
profiles, provider health; and proofs of every safety property of the passing
runs. Next:

1. several frontier checks and cascades together: the cap under requests that
   come back after a denial;
2. `FrontierCap` below `Cascade`, as `TierVisit` is.
