------------------------------ MODULE Service -------------------------------
(***************************************************************************)
(* complete() in sriti/core/service.py with the semantic cache it reads    *)
(* and writes: concurrent requests each classify, look the cache up, run   *)
(* the cascade on a miss and schedule a cache write that goes on after the *)
(* answer was returned.  The process may crash at any moment and start     *)
(* again on what Redis kept, perhaps with another encryption key.          *)
(*                                                                         *)
(* The cascade is reduced to the grade of its answer, and the store under  *)
(* the cache to EntryStore, which VectorStore implements.  Every request   *)
(* here is one user message of one tenant, so the filters on tenant and    *)
(* conversation exclude nothing, and compression, finding no history,      *)
(* returns the messages as they are.                                       *)
(***************************************************************************)
EXTENDS Naturals

CONSTANTS
  Requests,
  Tasks,
  Uncacheable,   \* _UNCACHEABLE_TASKS
  TaskOf,        \* request -> what classify() makes of its text
  Media,         \* requests whose content is a list of parts
  OptOut,        \* requests sent with cacheable=False
  Similarity,    \* request -> request -> the dot product of their embeddings
  Threshold,     \* task -> similarity a hit needs
  Grades,        \* [tier, verdict, complete] of a cascade's answer
  Keys,          \* encryption keys an operator may configure
  NoKey,         \* no encryption
  Pending, Failed

Verdicts == {"passed", "failed", "unchecked"}   \* quality_passed: True, False, None

ASSUME RequestAssumption ==
  /\ TaskOf \in [Requests -> Tasks]
  /\ Similarity \in [Requests -> [Requests -> Nat]]
  /\ Threshold \in [Tasks -> Nat]
  /\ Grades \subseteq [tier : 1..3, verdict : Verdicts, complete : BOOLEAN]

(* clear: the text was decrypted, or never encrypted. *)
Answer == [from : Requests, grade : Grades, clear : BOOLEAN]

ASSUME ReplyAssumption == Pending # Failed /\ {Pending, Failed} \cap Answer = {}

ASSUME KeyAssumption == NoKey \notin Keys

VARIABLES
  up,            \* the process serves requests
  key,           \* the process's encryption key, or NoKey
  stage,         \* request -> "new", "lookup", "cascade" or "done"
  reply,         \* request -> Pending, Failed or the answer it was given
  writing,       \* requests whose cache.set() task has not indexed the entry yet
  index,         \* requests whose answers are in the index in memory
  sending,       \* entries whose SET is on its way to Redis
  disk,          \* entries Redis has
  sealed,        \* entry -> the key its content was encrypted with
  loaded         \* history: entries of the index that an earlier process wrote

store == <<index, sending, disk, sealed, loaded>>
Store == INSTANCE EntryStore WITH Entries <- Requests
vars == <<up, key, stage, reply, writing, store>>

Init ==
  /\ up = FALSE /\ key = NoKey
  /\ stage = [r \in Requests |-> "new"]
  /\ reply = [r \in Requests |-> Pending]
  /\ writing = {} /\ index = {} /\ sending = {} /\ disk = {}
  /\ sealed = [r \in Requests |-> NoKey]
  /\ loaded = {}

-----------------------------------------------------------------------------
(* skip_cache *)
SkipCache_OptOutOnly(r) == r \in OptOut

SkipCache(r) == r \in Media \cup OptOut

(* The entry search() ranks first, k being 1, and its similarity suffices. *)
Close(r, s) == Similarity[r][s] >= Threshold[TaskOf[r]]

Nearest(r, s) ==
  s \in index /\ \A e \in index : Similarity[r][e] <= Similarity[r][s]

(* What the service and _is_cacheable() ask of an answer before it is kept. *)
Scheduled_Always(g) == TRUE

Scheduled(g) == g.verdict # "failed"

IsCacheable(r, g) == TaskOf[r] \notin Uncacheable /\ g.complete

(* decrypt() gives back the text; of other entries it returns the ciphertext
   as it is, and a hit serves that. *)
Readable(s) == sealed[s] \in {key, NoKey}

(* encrypt() uses the key of this process. *)
SealingKey_BuiltIn(s) == CHOOSE k \in Keys : TRUE

SealingKey(s) == key

-----------------------------------------------------------------------------
(* lifespan(): before requests are served the index is rebuilt from Redis,
   entry by entry; the load is fail-open. *)
Load(s) ==
  /\ ~up
  /\ Store!Read(s)
  /\ loaded' = loaded \cup {s}
  /\ UNCHANGED <<up, key, stage, reply, writing, sealed>>

LoadFails ==
  /\ ~up
  /\ Store!Forget(index, {})
  /\ loaded' = {}
  /\ UNCHANGED <<up, key, stage, reply, writing, sealed>>

(* The process serves requests, with the key it was configured with. *)
Start ==
  /\ ~up
  /\ up' = TRUE
  /\ key' \in Keys \cup {NoKey}
  /\ UNCHANGED <<stage, reply, writing, store>>

(* A request arrives and is classified in a thread. *)
Ask(r) ==
  /\ up
  /\ stage[r] = "new"
  /\ stage' = [stage EXCEPT ![r] = "lookup"]
  /\ UNCHANGED <<up, key, reply, writing, store>>

(* The lookup is skipped, finds nothing near enough, or fails. *)
GoOn(r) ==
  /\ stage[r] = "lookup"
  /\ stage' = [stage EXCEPT ![r] = "cascade"]
  /\ UNCHANGED <<up, key, reply, writing, store>>

(* The answer an entry holds is returned, as decrypt() gives it back, and
   nothing is written. *)
Hit(r, s) ==
  /\ stage[r] = "lookup"
  /\ ~SkipCache(r)
  /\ TaskOf[r] \notin Uncacheable
  /\ Nearest(r, s)
  /\ Close(r, s)
  /\ reply' = [reply EXCEPT ![r] = [reply[s] EXCEPT !.clear = Readable(s)]]
  /\ stage' = [stage EXCEPT ![r] = "done"]
  /\ UNCHANGED <<up, key, writing, store>>

(* The cascade returns: the answer is, and its cache write is scheduled. *)
CascadeReturns(r, g) ==
  /\ stage[r] = "cascade"
  /\ stage' = [stage EXCEPT ![r] = "done"]
  /\ reply' = [reply EXCEPT ![r] = [from |-> r, grade |-> g, clear |-> TRUE]]
  /\ writing' = IF SkipCache(r) \/ ~Scheduled(g) THEN writing ELSE writing \cup {r}
  /\ UNCHANGED <<up, key, store>>

CascadeRaises_NoReply(r) ==
  /\ stage[r] = "cascade"
  /\ stage' = [stage EXCEPT ![r] = "done"]
  /\ UNCHANGED <<up, key, reply, writing, store>>

(* The cascade raises, and the request fails. *)
CascadeRaises(r) ==
  /\ stage[r] = "cascade"
  /\ stage' = [stage EXCEPT ![r] = "done"]
  /\ reply' = [reply EXCEPT ![r] = Failed]
  /\ UNCHANGED <<up, key, writing, store>>

(* set(): the entry joins the index and its SET is sent. *)
Write(r) ==
  /\ r \in writing
  /\ IsCacheable(r, reply[r].grade)
  /\ writing' = writing \ {r}
  /\ Store!Add(r)
  /\ sealed' = [sealed EXCEPT ![r] = SealingKey(r)]
  /\ UNCHANGED <<up, key, stage, reply, loaded>>

(* set(): the answer is not cacheable, or the embedding fails. *)
DropWrite(r) ==
  /\ r \in writing
  /\ writing' = writing \ {r}
  /\ UNCHANGED <<up, key, stage, reply, store>>

(* The SET reaches Redis or is lost, perhaps after the process is gone. *)
Persist(s) ==
  /\ Store!Arrive(s) \/ Store!Lose(s)
  /\ UNCHANGED <<up, key, stage, reply, writing, sealed, loaded>>

(* The time to live ends, in memory and in Redis each by its own clock. *)
Expire(s) ==
  /\ \/ s \in index /\ Store!Forget({s}, {}) /\ loaded' = loaded \ {s}
     \/ s \in disk /\ Store!Forget({}, {s}) /\ UNCHANGED loaded
  /\ UNCHANGED <<up, key, stage, reply, writing, sealed>>

(* The process ends, with it the requests and background tasks it runs. *)
Crash ==
  LET running == {r \in Requests : stage[r] \in {"lookup", "cascade"}}
  IN /\ up
     /\ up' = FALSE
     /\ Store!Forget(index, {})
     /\ writing' = {} /\ loaded' = {}
     /\ stage' = [r \in Requests |-> IF r \in running THEN "done" ELSE stage[r]]
     /\ reply' = [r \in Requests |-> IF r \in running THEN Failed ELSE reply[r]]
     /\ UNCHANGED <<key, sealed>>

Next ==
  \/ Start \/ LoadFails \/ Crash
  \/ \E r \in Requests :
       \/ Load(r) \/ Ask(r) \/ GoOn(r) \/ CascadeRaises(r)
       \/ Write(r) \/ DropWrite(r) \/ Persist(r) \/ Expire(r)
       \/ \E g \in Grades : CascadeReturns(r, g)
       \/ \E s \in Requests : Hit(r, s)

Spec == Init /\ [][Next]_vars

-----------------------------------------------------------------------------
TypeOK ==
  /\ up \in BOOLEAN
  /\ key \in Keys \cup {NoKey}
  /\ stage \in [Requests -> {"new", "lookup", "cascade", "done"}]
  /\ reply \in [Requests -> {Pending, Failed} \cup Answer]
  /\ \A r \in Requests : stage[r] = "done" <=> reply[r] # Pending
  /\ \A S \in {writing, index, sending, disk, loaded} : S \subseteq Requests
  /\ sealed \in [Requests -> Keys \cup {NoKey}]
  /\ \A r \in writing : reply[r] \in Answer
  /\ ~up => /\ writing = {} /\ index = loaded
            /\ \A r \in Requests : stage[r] \in {"new", "done"}

(* An answer others may be given: of a cacheable task, complete, not a failure
   of the quality gate. *)
Worthy(s, g) == TaskOf[s] \notin Uncacheable /\ g.complete /\ g.verdict # "failed"

Sharing == Requests \ (Media \cup OptOut)

(* Whatever was answered, crashed, expired or reloaded before: what the index
   holds, Redis keeps or is about to get is the own answer of a request that
   shares, and may be shared. *)
KeptAnswersSound ==
  \A s \in index \cup sending \cup disk :
    /\ s \in Sharing
    /\ reply[s] \notin {Pending, Failed}
    /\ reply[s].from = s
    /\ reply[s].clear
    /\ Worthy(s, reply[s].grade)

(* A hit serves a ciphertext only from an entry that an earlier process wrote:
   what a process writes, it can read, however keys changed before. *)
OwnEntriesReadable == \A s \in index \ loaded : Readable(s)

(* The service keeps the promise of SharedAnswers: an answer is the request's
   own or, second-hand but never third-hand, that of a near enough request and
   fit to be shared.  Second-hand it is what its request was given, except that
   an entry an earlier process wrote may be served as ciphertext. *)
Contract == INSTANCE SharedAnswers WITH old <- loaded

ContractSpec == Contract!Spec

=============================================================================
