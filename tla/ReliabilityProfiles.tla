------------------------ MODULE ReliabilityProfiles -------------------------
(***************************************************************************)
(* What the reliability engine learns, and how requests come to see it:    *)
(* record_outcome() and load_all_profiles() in cascade/reliability_store.py,*)
(* and _maybe_refresh_profiles() and schedule_record_outcome() in          *)
(* cascade/reliability.py.                                                 *)
(*                                                                         *)
(* A profile is a moving average over outcomes, so it is modelled by what  *)
(* it averages: the sequence of the outcomes folded into it, oldest first, *)
(* whose length is sample_count.  The empty sequence is a profile that     *)
(* does not exist.  Recordings are background tasks that GET a profile and *)
(* SET it again; refreshes read Redis key by key under a lock.             *)
(***************************************************************************)
EXTENDS Naturals, Sequences, FiniteSets

CONSTANTS
  Profiles,      \* the (model, task type) pairs
  Outcomes,      \* the outcomes recorded, or to be recorded
  ProfileOf,     \* outcome -> the profile it belongs to
  Earlier,       \* outcomes an earlier process recorded, at most one per profile
  Callers,       \* calls of get_best_model(), each of which refreshes first
  TTL,           \* _CACHE_TTL_S
  LastTick       \* bound: ticks of the clock

ASSUME ProfileAssumption == IsFiniteSet(Profiles)
ASSUME OutcomeAssumption ==
  /\ ProfileOf \in [Outcomes -> Profiles]
  /\ Earlier \subseteq Outcomes
  /\ \A o, q \in Earlier : ProfileOf[o] = ProfileOf[q] => o = q
ASSUME TimeAssumption == TTL \in Nat \ {0} /\ LastTick \in Nat

VARIABLES
  clock,         \* time.monotonic()
  redis,         \* profile -> the outcomes folded into the stored value
  recording,     \* outcome -> "scheduled", "got", "set" or "failed"
  profile,       \* outcome -> what its task got from Redis
  cache,         \* _profiles
  refreshed,     \* _profiles_last_refresh
  caller,        \* call -> "idle", "queued", "loading" or "done"
  now,           \* call -> its time.monotonic() before it waits for the lock
  queue,         \* _profiles_lock: its holder, then those waiting, first come first
  pending,       \* call -> keys its scan has still to read
  loaded,        \* call -> the profiles it read so far
  setDuring,     \* history: outcome -> those SET to its profile since its GET
  readAt,        \* history: profile -> when its cached value was read
  loadedAt,      \* history: call -> profile -> when it read it
  broken         \* history: loading calls whose scan an error cut short

(* The elements of a sequence. *)
In(s) == {s[i] : i \in 1..Len(s)}

Distinct(s) == \A i, j \in 1..Len(s) : s[i] = s[j] => i = j

store == <<redis, recording, profile, setDuring>>
loads == <<now, pending, loaded, loadedAt, broken>>
refresh == <<cache, refreshed, readAt, caller, queue, loads>>
vars == <<clock, store, refresh>>

Nothing == [p \in Profiles |-> <<>>]
NeverRead == [p \in Profiles |-> 0]

EarlierOf(p) == {o \in Earlier : ProfileOf[o] = p}

(* A client is registered, Redis has what an earlier process left, nothing is
   cached, and the last refresh is long enough ago. *)
Init ==
  /\ clock = TTL
  /\ redis = [p \in Profiles |->
                IF EarlierOf(p) = {} THEN <<>> ELSE <<CHOOSE o \in EarlierOf(p) : TRUE>>]
  /\ recording = [o \in Outcomes |-> IF o \in Earlier THEN "set" ELSE "scheduled"]
  /\ profile = [o \in Outcomes |-> <<>>]
  /\ cache = Nothing /\ refreshed = 0
  /\ caller = [c \in Callers |-> "idle"]
  /\ now = [c \in Callers |-> 0]
  /\ queue = <<>>
  /\ pending = [c \in Callers |-> {}]
  /\ loaded = [c \in Callers |-> Nothing]
  /\ setDuring = [o \in Outcomes |-> {}]
  /\ readAt = NeverRead
  /\ loadedAt = [c \in Callers |-> NeverRead]
  /\ broken = {}

-----------------------------------------------------------------------------
(* record_outcome(): GET the profile. *)
GetProfile(o) ==
  /\ recording[o] = "scheduled"
  /\ recording' = [recording EXCEPT ![o] = "got"]
  /\ profile' = [profile EXCEPT ![o] = redis[ProfileOf[o]]]
  /\ UNCHANGED <<clock, redis, setDuring, refresh>>

(* The profile with one more outcome, whether there was one or not. *)
Fold_StartsAnew(prior, o) == <<o>>

Fold_CountsTwice(prior, o) == prior \o <<o, o>>

Fold(prior, o) == Append(prior, o)

(* SET it, on top of whatever was SET since. *)
SetProfile(o) ==
  LET p == ProfileOf[o]
      open == {q \in Outcomes : recording[q] = "got" /\ ProfileOf[q] = p} \ {o}
  IN /\ recording[o] = "got"
     /\ recording' = [recording EXCEPT ![o] = "set"]
     /\ redis' = [redis EXCEPT ![p] = Fold(profile[o], o)]
     /\ setDuring' = [q \in Outcomes |->
                        IF q \in open THEN setDuring[q] \cup {o} ELSE setDuring[q]]
     /\ profile' = [profile EXCEPT ![o] = <<>>]
     /\ UNCHANGED <<clock, refresh>>

(* Either round trip fails: the outcome is dropped. *)
RecordFails(o) ==
  /\ recording[o] \in {"scheduled", "got"}
  /\ recording' = [recording EXCEPT ![o] = "failed"]
  /\ profile' = [profile EXCEPT ![o] = <<>>]
  /\ setDuring' = [setDuring EXCEPT ![o] = {}]
  /\ UNCHANGED <<clock, redis, refresh>>

-----------------------------------------------------------------------------
Stale == clock - refreshed >= TTL

(* What a scan of Redis is sure to yield: the keys there when it begins. *)
KeysToScan_NotCached == {p \in Profiles : redis[p] # <<>> /\ cache[p] = <<>>}

KeysToScan == {p \in Profiles : redis[p] # <<>>}

(* The cache is fresh: the call goes on with it. *)
CallFresh(c) ==
  /\ caller[c] = "idle"
  /\ ~Stale
  /\ caller' = [caller EXCEPT ![c] = "done"]
  /\ UNCHANGED <<clock, store, cache, refreshed, readAt, queue, loads>>

(* It is stale: the call takes the time and its place at the lock. *)
CallStale(c) ==
  /\ caller[c] = "idle"
  /\ Stale
  /\ caller' = [caller EXCEPT ![c] = "queued"]
  /\ now' = [now EXCEPT ![c] = clock]
  /\ queue' = Append(queue, c)
  /\ UNCHANGED <<clock, store, cache, refreshed, readAt, pending, loaded, loadedAt, broken>>

(* c has the lock. *)
HasLock_Always(c) == queue # <<>>

HasLock(c) == queue # <<>> /\ Head(queue) = c

(* With the lock, the time is checked again: another call refreshed meanwhile. *)
FindRefreshed(c) ==
  /\ caller[c] = "queued"
  /\ HasLock(c)
  /\ ~Stale
  /\ caller' = [caller EXCEPT ![c] = "done"]
  /\ queue' = Tail(queue)
  /\ now' = [now EXCEPT ![c] = 0]
  /\ UNCHANGED <<clock, store, cache, refreshed, readAt, pending, loaded, loadedAt, broken>>

BeginLoad(c) ==
  /\ caller[c] = "queued"
  /\ HasLock(c)
  /\ Stale
  /\ caller' = [caller EXCEPT ![c] = "loading"]
  /\ pending' = [pending EXCEPT ![c] = KeysToScan]
  /\ UNCHANGED <<clock, store, cache, refreshed, readAt, queue, now, loaded, loadedAt, broken>>

(* What it may yield besides: a key that was stored while it went on. *)
AddedMeanwhile(c, p) == c \notin broken /\ loaded[c][p] = <<>> /\ redis[p] # <<>>

(* load_all_profiles(): the scan yields a key and GET reads it. *)
LoadProfile(c, p) ==
  /\ caller[c] = "loading"
  /\ p \in pending[c] \/ AddedMeanwhile(c, p)
  /\ pending' = [pending EXCEPT ![c] = @ \ {p}]
  /\ loaded' = [loaded EXCEPT ![c][p] = redis[p]]
  /\ loadedAt' = [loadedAt EXCEPT ![c][p] = clock]
  /\ UNCHANGED <<clock, store, cache, refreshed, readAt, caller, queue, now, broken>>

(* A round trip fails: what was read so far is returned. *)
AfterBreak_LockKept == "done"

AfterBreak == "loading"

BreakLoad(c) ==
  /\ caller[c] = "loading"
  /\ pending[c] # {}
  /\ pending' = [pending EXCEPT ![c] = {}]
  /\ broken' = broken \cup {c}
  /\ caller' = [caller EXCEPT ![c] = AfterBreak]
  /\ UNCHANGED <<clock, store, cache, refreshed, readAt, queue, now, loaded, loadedAt>>

(* What was read replaces the cache, as of the time the call took before it
   waited, and the lock is released. *)
RefreshTime_AtTheEnd(c) == clock

RefreshTime(c) == now[c]

Publish(c) ==
  /\ caller[c] = "loading"
  /\ pending[c] = {}
  /\ cache' = loaded[c]
  /\ readAt' = loadedAt[c]
  /\ refreshed' = RefreshTime(c)
  /\ caller' = [caller EXCEPT ![c] = "done"]
  /\ queue' = Tail(queue)
  /\ now' = [now EXCEPT ![c] = 0]
  /\ loaded' = [loaded EXCEPT ![c] = Nothing]
  /\ loadedAt' = [loadedAt EXCEPT ![c] = NeverRead]
  /\ broken' = broken \ {c}
  /\ UNCHANGED <<clock, store, pending>>

Tick ==
  /\ clock < LastTick
  /\ clock' = clock + 1
  /\ UNCHANGED <<store, refresh>>

Record(o) == GetProfile(o) \/ SetProfile(o) \/ RecordFails(o)

Refresh(c) ==
  \/ FindRefreshed(c) \/ BeginLoad(c) \/ BreakLoad(c) \/ Publish(c)
  \/ \E p \in Profiles : LoadProfile(c, p)

Next ==
  \/ \E o \in Outcomes : Record(o)
  \/ \E c \in Callers : CallFresh(c) \/ CallStale(c) \/ Refresh(c)
  \/ Tick

(* The event loop runs every task that can go on, and Redis answers or fails:
   a call that waits, loads or holds the lock takes its next step in the end. *)
Spec == Init /\ [][Next]_vars /\ \A c \in Callers : WF_vars(Refresh(c))

-----------------------------------------------------------------------------
TypeOK ==
  /\ clock \in Nat
  /\ redis \in [Profiles -> Seq(Outcomes)]
  /\ recording \in [Outcomes -> {"scheduled", "got", "set", "failed"}]
  /\ profile \in [Outcomes -> Seq(Outcomes)]
  /\ cache \in [Profiles -> Seq(Outcomes)]
  /\ refreshed \in Nat
  /\ caller \in [Callers -> {"idle", "queued", "loading", "done"}]
  /\ now \in [Callers -> Nat]
  /\ queue \in Seq(Callers)
  /\ \A c \in Callers : caller[c] \in {"queued", "loading"} <=> c \in In(queue)
  /\ pending \in [Callers -> SUBSET Profiles]
  /\ loaded \in [Callers -> [Profiles -> Seq(Outcomes)]]
  /\ setDuring \in [Outcomes -> SUBSET Outcomes]
  /\ readAt \in [Profiles -> Nat]
  /\ loadedAt \in [Callers -> [Profiles -> Nat]]
  /\ broken \subseteq Callers

(* Every sample is an outcome recorded for p, and it is counted once. *)
Sound(p, s) ==
  /\ \A o \in In(s) : recording[o] = "set" /\ ProfileOf[o] = p
  /\ Distinct(s)

(* Whatever recordings and refreshes overlap, what Redis stores, a recording
   got, a refresh has read and the cache serves of a profile averages outcomes
   of its own: sample_count never runs ahead of what happened. *)
SamplesSound ==
  /\ \A p \in Profiles :
       /\ Sound(p, redis[p])
       /\ Sound(p, cache[p])
       /\ \A c \in Callers : Sound(p, loaded[c][p])
  /\ \A o \in Outcomes : Sound(ProfileOf[o], profile[o])

(* GET and SET are two round trips, so samples get lost; but only those that
   another recording overlapped, which got the profile before and set it after. *)
LostOnlyToOverlap ==
  \A o \in Outcomes :
    recording[o] = "set" =>
      \/ o \in In(redis[ProfileOf[o]])
      \/ \E q \in Outcomes : recording[q] = "set" /\ o \in setDuring[q]

(* The cache is never older than it says: whatever is served during TTL after
   _profiles_last_refresh was read from Redis no earlier than that. *)
NeverOlderThanStated == \A p \in Profiles : cache[p] # <<>> => readAt[p] >= refreshed

(* Calls that waited long take their time along, yet a refresh never sets
   _profiles_last_refresh back. *)
RefreshTimeAdvances == [][refreshed' >= refreshed]_refreshed

(* A model that had a profile is back in cold start only when an error cut a
   scan short. *)
ForgottenOnlyByError ==
  [][\A p \in Profiles :
       cache[p] # <<>> /\ cache'[p] = <<>> => broken # {}]_vars

(* However scans fail, no call waits for the lock forever. *)
CallsReturn == \A c \in Callers : caller[c] = "queued" ~> caller[c] = "done"

=============================================================================
