---------------------------- MODULE VectorStore -----------------------------
(***************************************************************************)
(* LocalVectorStore in sriti/core/local_vector_store.py: an index in       *)
(* memory, each record of which is also SET in Redis, with the same time   *)
(* to live, so that load() can rebuild the index when the process starts   *)
(* again.  add() appends first and persists afterwards; load() reads each  *)
(* key in two round trips, GET and TTL, while time passes and SETs of the  *)
(* process that crashed still arrive.  Similarity, filters and payloads    *)
(* are left out: a record is its key and the time it expires.  Every key   *)
(* is fresh (both users of the store draw a UUID), and nothing is added    *)
(* before load() has returned (both load while the application starts).    *)
(***************************************************************************)
EXTENDS Integers

CONSTANTS
  Keys,
  NoKey,
  Second,        \* clock units per second, the unit TTL replies are in
  Lifetime,      \* key -> ttl_seconds in clock units, or Never for None
  LastTick       \* bound: clock units considered

Never == -1      \* expires_at is None; TTL's reply for a key without expiry
Gone == -2       \* TTL's reply for a key that does not exist
Absent == -2     \* the deadline in Redis of a key that was never SET

ASSUME KeyAssumption == NoKey \notin Keys
ASSUME TimeAssumption ==
  /\ Second \in Nat \ {0}
  /\ Lifetime \in [Keys -> (Nat \ {0}) \cup {Never}]
  /\ LastTick \in Nat

Ticks == 0..LastTick

VARIABLES
  clock,         \* wall clock of the process and of Redis
  phase,         \* "down", in load(): "scan", "got" or "timed", and "serving"
  memory,        \* self._records, as [key, expires]
  redis,         \* key -> its deadline in Redis, Never or Absent
  sending,       \* keys of the SETs that are on their way
  added,         \* key -> the time it was added, or Never
  pending,       \* load(): keys that scan_iter has still to yield
  records,       \* load(): records so far
  at,            \* load(): the key being read, or NoKey
  reply,         \* load(): TTL's reply for it
  repliedAt,     \* load(): when Redis gave that reply
  durable,       \* history: keys in Redis when the last load() began, {} once it fails
  lateness       \* history: longest wait between a TTL reply and its record

outside == <<clock, redis, sending, added>>
cursor == <<at, reply, repliedAt>>
load == <<pending, records, cursor>>
history == <<durable, lateness>>
vars == <<outside, phase, memory, load, history>>

Record == [key : Keys, expires : Nat \cup {Never}]
Loading == phase \in {"scan", "got", "timed"}

Init ==
  /\ clock = 0
  /\ phase = "down"
  /\ memory = {}
  /\ redis = [k \in Keys |-> Absent]
  /\ sending = {}
  /\ added = [k \in Keys |-> Never]
  /\ pending = {} /\ records = {}
  /\ at = NoKey /\ reply = Gone /\ repliedAt = 0
  /\ durable = {} /\ lateness = 0

(* When a record that gets its time to live now expires. *)
ExpiryFrom(now, k) == IF Lifetime[k] = Never THEN Never ELSE now + Lifetime[k]

(* Redis still has the key. *)
Live(k) == redis[k] = Never \/ redis[k] > clock

LaterOf(a, b) == IF a < b THEN b ELSE a

-----------------------------------------------------------------------------
(* No key is being read. *)
NoCursor == at' = NoKey /\ reply' = Gone /\ repliedAt' = 0

(* add(): the record is in memory at once, the SET is sent. *)
Add(k) ==
  /\ phase = "serving"
  /\ added[k] = Never
  /\ memory' = memory \cup {[key |-> k, expires |-> ExpiryFrom(clock, k)]}
  /\ added' = [added EXCEPT ![k] = clock]
  /\ sending' = sending \cup {k}
  /\ UNCHANGED <<clock, phase, redis, load, history>>

(* Redis executes a SET, perhaps of a process that is gone: the time to live
   counts from now.  A scan in progress may or may not yield the key. *)
SetArrives(k) ==
  /\ k \in sending
  /\ redis' = [redis EXCEPT ![k] = ExpiryFrom(clock, k)]
  /\ sending' = sending \ {k}
  /\ \/ UNCHANGED pending
     \/ Loading /\ pending' = pending \cup {k}
  /\ UNCHANGED <<clock, phase, memory, added, records, cursor, history>>

(* The SET fails: add() logs it and the record stays in memory only. *)
SetLost(k) ==
  /\ k \in sending
  /\ sending' = sending \ {k}
  /\ UNCHANGED <<clock, phase, memory, redis, added, load, history>>

(* The process ends.  Redis and what is on its way to it do not. *)
Crash ==
  /\ phase # "down"
  /\ phase' = "down"
  /\ memory' = {}
  /\ pending' = {} /\ records' = {} /\ NoCursor
  /\ durable' = {}
  /\ UNCHANGED <<outside, lateness>>

(* The process starts and load() begins to scan. *)
LoadBegins ==
  /\ phase = "down"
  /\ phase' = "scan"
  /\ pending' = {k \in Keys : Live(k)}
  /\ durable' = {k \in Keys : Live(k)}
  /\ UNCHANGED <<outside, memory, records, cursor, lateness>>

(* What is left to read after a key that GET did not find: continue. *)
RestAfterGone_Break(k) == {}

RestAfterGone(k) == pending \ {k}

(* scan_iter yields a key, which SCAN may do more than once, and GET finds it
   or finds that it has expired; then the next key follows. *)
LoadGet(k) ==
  /\ phase = "scan"
  /\ k \in pending
  /\ \/ /\ Live(k)
        /\ pending' \in {pending, pending \ {k}}
        /\ phase' = "got"
        /\ at' = k
     \/ /\ ~Live(k)
        /\ pending' = RestAfterGone(k)
        /\ UNCHANGED <<phase, at>>
  /\ UNCHANGED <<outside, memory, records, reply, repliedAt, history>>

(* n is the time left until the deadline d, in seconds, as TTL reports it:
   rounded to the nearest. *)
SecondsLeft(n, d) ==
  /\ 2 * (Second * n) <= 2 * (d - clock) + Second
  /\ 2 * (d - clock) < 2 * (Second * n) + Second

(* TTL replies. *)
LoadTtl ==
  /\ phase = "got"
  /\ phase' = "timed"
  /\ repliedAt' = clock
  /\ \/ /\ redis[at] = Never
        /\ reply' = Never
     \/ /\ ~Live(at)
        /\ reply' = Gone
     \/ /\ redis[at] > clock
        /\ \E n \in 0..LastTick : SecondsLeft(n, redis[at]) /\ reply' = n
  /\ UNCHANGED <<outside, memory, pending, records, at, history>>

(* The expiry load() gives the record: time.time() + ttl if ttl and ttl > 0. *)
LoadedExpiry_AnyReply == clock + Second * reply

LoadedExpiry_Milliseconds == IF reply > 0 THEN clock + 1000 * (Second * reply) ELSE Never

LoadedExpiry == IF reply > 0 THEN clock + Second * reply ELSE Never

(* The record is appended, and the next key follows. *)
LoadRecord ==
  /\ phase = "timed"
  /\ records' = records \cup {[key |-> at, expires |-> LoadedExpiry]}
  /\ lateness' = LaterOf(lateness, clock - repliedAt)
  /\ phase' = "scan"
  /\ NoCursor
  /\ UNCHANGED <<outside, memory, pending, durable>>

(* The scan is over: the records replace the index. *)
LoadEnds ==
  /\ phase = "scan"
  /\ pending = {}
  /\ memory' = records
  /\ phase' = "serving"
  /\ records' = {}
  /\ UNCHANGED <<outside, pending, cursor, history>>

(* A round trip fails or a record cannot be read: the store starts empty. *)
LoadFails ==
  /\ Loading
  /\ memory' = {}
  /\ phase' = "serving"
  /\ pending' = {} /\ records' = {} /\ NoCursor
  /\ durable' = {}
  /\ UNCHANGED <<outside, lateness>>

Tick ==
  /\ clock < LastTick
  /\ clock' = clock + 1
  /\ UNCHANGED <<phase, memory, redis, sending, added, load, history>>

Next ==
  \/ \E k \in Keys : Add(k) \/ SetArrives(k) \/ SetLost(k) \/ LoadGet(k)
  \/ LoadBegins \/ LoadTtl \/ LoadRecord \/ LoadEnds \/ LoadFails
  \/ Crash \/ Tick

Spec == Init /\ [][Next]_vars

-----------------------------------------------------------------------------
TypeOK ==
  /\ clock \in Ticks
  /\ phase \in {"down", "scan", "got", "timed", "serving"}
  /\ memory \subseteq Record
  /\ redis \in [Keys -> Nat \cup {Never, Absent}]
  /\ sending \subseteq Keys
  /\ added \in [Keys -> Nat \cup {Never}]
  /\ pending \subseteq Keys
  /\ records \subseteq Record
  /\ at \in Keys \cup {NoKey}
  /\ at = NoKey <=> phase \notin {"got", "timed"}
  /\ reply \in Nat \cup {Never, Gone}
  /\ repliedAt \in 0..clock
  /\ durable \subseteq Keys
  /\ lateness \in Nat

(* What search() can return. *)
Served == {r \in memory : r.expires = Never \/ r.expires > clock}

(* The keys a search can find, or that are already read when it can. *)
Indexed ==
  {k \in Keys : k = at \/ \E r \in memory \cup records :
                             r.key = k /\ (r.expires = Never \/ r.expires > clock)}

(* To its user it is a store as EntryStore describes it: whatever expires,
   arrives late or is read twice while it loads, memory and Redis forget entries
   but never make one up. *)
Store == INSTANCE EntryStore WITH
  Entries <- Keys,
  index <- Indexed,
  disk <- {k \in Keys : Live(k)}

StoreSpec == Store!Spec

(* The last moment a record with a time to live could rightly be served: Redis
   counts from the arrival of the SET, memory from add(). *)
Deadline(k) == LaterOf(added[k] + Lifetime[k], redis[k])

(* A record that has an expiry, in memory or loaded, outlives its deadline by
   half a second of rounding and the wait for its TTL reply at most, whatever
   crashes, late SETs and slow loads it went through. *)
BoundedLateness ==
  \A r \in memory \cup records :
    r.expires # Never
      => /\ Lifetime[r.key] # Never
         /\ 2 * r.expires <= 2 * (Deadline(r.key) + lateness) + Second

(* A load that does not fail misses nothing: what was in Redis when it began is
   served for as long as Redis keeps it, up to the rounding. *)
RestartFindsAll ==
  phase = "serving" =>
    \A k \in durable :
      redis[k] = Never \/ 2 * (redis[k] - clock) > Second
        => \E r \in Served : r.key = k

(* What test_expired_records_excluded_from_search says of every search: a
   record with a time to live is not served when that is over, give or take the
   second TTL replies are rounded to and the wait for the reply. *)
ExpiredExcluded ==
  \A r \in Served :
    Lifetime[r.key] # Never => clock < Deadline(r.key) + Second + lateness

=============================================================================
