---------------------------- MODULE FrontierCap -----------------------------
(***************************************************************************)
(* check_and_record_frontier in sriti/core/cascade/policy.py: requests of  *)
(* one scope that are about to be dispatched to tier 1 share two counters  *)
(* per minute in Redis.  A check reads both in one round trip (MGET),      *)
(* decides, and counts itself in a second one (a MULTI pipeline); other    *)
(* checks, of this or another process, run in between.  Redis may fail in  *)
(* either round trip, and a pipeline may be executed though its reply is   *)
(* lost: the check then lets the request through.  Buckets roll over every *)
(* minute and expire.                                                      *)
(***************************************************************************)
EXTENDS Integers, FiniteSets

CONSTANTS
  Callers,       \* coroutines that may be in a check at the same time
  MinTraffic,    \* _MIN_TRAFFIC
  CapNum,        \* the cap is the fraction CapNum / CapDen
  CapDen,
  LastMinute,    \* bound: minutes considered
  MaxTotal       \* bound: checks counted per minute

ASSUME CallersAssumption == IsFiniteSet(Callers) /\ Callers # {}
ASSUME CapAssumption ==
  /\ MinTraffic \in Nat \ {0}
  /\ CapNum \in Nat
  /\ CapDen \in Nat \ {0}
  /\ CapNum <= CapDen
ASSUME BoundAssumption == LastMinute \in Nat /\ MaxTotal \in Nat

Minutes == 0..LastMinute

VARIABLES
  minute,        \* the wall clock, in minutes
  total,         \* minute -> sriti:{scope}:total
  frontier,      \* minute -> sriti:{scope}:frontier
  phase,         \* caller -> "idle", "reading" or "writing"
  bucket,        \* caller -> the minute its check computed the keys for
  seen           \* caller -> the counters its MGET returned

vars == <<minute, total, frontier, phase, bucket, seen>>

Counts == [total : Nat, frontier : Nat]
NoCounts == [total |-> 0, frontier |-> 0]

Init ==
  /\ minute = 0
  /\ total = [m \in Minutes |-> 0]
  /\ frontier = [m \in Minutes |-> 0]
  /\ phase = [c \in Callers |-> "idle"]
  /\ bucket = [c \in Callers |-> 0]
  /\ seen = [c \in Callers |-> NoCounts]

(* What the check decides from the counters it has seen. *)
AllowedBy_OneMore(s) ==
  \/ s.total <= MinTraffic
  \/ CapDen * (s.frontier + 1) <= CapNum * (s.total + 1)

AllowedBy(s) ==
  \/ s.total < MinTraffic
  \/ CapDen * (s.frontier + 1) <= CapNum * (s.total + 1)

(* The check returns, and its local variables are gone. *)
Return(c) ==
  /\ phase' = [phase EXCEPT ![c] = "idle"]
  /\ bucket' = [bucket EXCEPT ![c] = 0]
  /\ seen' = [seen EXCEPT ![c] = NoCounts]

(* A check begins: the keys are those of the current minute. *)
Begin(c) ==
  /\ phase[c] = "idle"
  /\ total[minute] < MaxTotal
  /\ phase' = [phase EXCEPT ![c] = "reading"]
  /\ bucket' = [bucket EXCEPT ![c] = minute]
  /\ UNCHANGED <<minute, total, frontier, seen>>

(* A counter as the check reads it: a missing key counts as 0. *)
Value_MissingKey(n) == IF n = 0 THEN -1 ELSE n

Value(n) == n

(* MGET returns both counters. *)
Read(c) ==
  /\ phase[c] = "reading"
  /\ seen' = [seen EXCEPT ![c] = [total |-> Value(total[bucket[c]]),
                                  frontier |-> Value(frontier[bucket[c]])]]
  /\ phase' = [phase EXCEPT ![c] = "writing"]
  /\ UNCHANGED <<minute, total, frontier, bucket>>

(* The pipeline: the total grows in any case, the frontier count with it when
   the request is allowed. *)
Count_FrontierOnly(c) ==
  /\ frontier' = IF AllowedBy(seen[c])
                 THEN [frontier EXCEPT ![bucket[c]] = @ + 1] ELSE frontier
  /\ total' = IF AllowedBy(seen[c])
              THEN total ELSE [total EXCEPT ![bucket[c]] = @ + 1]

Count(c) ==
  /\ total' = [total EXCEPT ![bucket[c]] = @ + 1]
  /\ frontier' = IF AllowedBy(seen[c])
                 THEN [frontier EXCEPT ![bucket[c]] = @ + 1] ELSE frontier

(* The pipeline is executed.  When its reply arrives the check returns what it
   decided, and "allowed" when the reply is lost. *)
Write(c) ==
  /\ phase[c] = "writing"
  /\ Count(c)
  /\ Return(c)
  /\ UNCHANGED minute

(* Redis does not do the round trip: the check returns "allowed", uncounted. *)
RedisFails(c) ==
  /\ phase[c] # "idle"
  /\ Return(c)
  /\ UNCHANGED <<minute, total, frontier>>

(* The next minute begins. *)
Tick ==
  /\ minute < LastMinute
  /\ minute' = minute + 1
  /\ UNCHANGED <<total, frontier, phase, bucket, seen>>

(* Two minutes on, a key that was not incremented again expires.  The total of
   a bucket is incremented, and its time to live renewed, whenever its frontier
   count is, so it does not expire first. *)
ExpireFrontier(m) ==
  /\ minute >= m + 2
  /\ frontier[m] > 0
  /\ frontier' = [frontier EXCEPT ![m] = 0]
  /\ UNCHANGED <<minute, total, phase, bucket, seen>>

ExpireTotal(m) ==
  /\ minute >= m + 2
  /\ total[m] > 0
  /\ frontier[m] = 0
  /\ total' = [total EXCEPT ![m] = 0]
  /\ UNCHANGED <<minute, frontier, phase, bucket, seen>>

Next ==
  \/ \E c \in Callers : Begin(c) \/ Read(c) \/ Write(c) \/ RedisFails(c)
  \/ Tick
  \/ \E m \in Minutes : ExpireFrontier(m) \/ ExpireTotal(m)

Spec == Init /\ [][Next]_vars

-----------------------------------------------------------------------------
TypeOK ==
  /\ minute \in Minutes
  /\ total \in [Minutes -> Nat]
  /\ frontier \in [Minutes -> Nat]
  /\ phase \in [Callers -> {"idle", "reading", "writing"}]
  /\ bucket \in [Callers -> Minutes]
  /\ seen \in [Callers -> Counts]

(* The frontier count of a minute never exceeds its total, whatever round trips
   are lost and whenever the keys expire: the ratio the cap is about is one. *)
FrontierWithinTotal == \A m \in Minutes : frontier[m] <= total[m]

(* CapDen times the frontier dispatches the cap leaves room for in a minute with
   the given total. *)
Allowance(t) ==
  IF CapDen * MinTraffic < CapNum * t THEN CapNum * t ELSE CapDen * MinTraffic

Excess == CapDen * (Cardinality(Callers) - 1)

(* The counters are read and incremented in two round trips, so concurrent
   checks may each take the last place under the cap.  All but one of them are
   one too many, and the excess does not add up over the minute. *)
BoundedOvershoot ==
  \A m \in Minutes : CapDen * frontier[m] <= Allowance(total[m]) + Excess

(* The checks that are about to count themselves as frontier in minute m. *)
Granted(m) ==
  {c \in Callers : phase[c] = "writing" /\ bucket[c] = m /\ AllowedBy(seen[c])}

(* BoundedOvershoot with the places that are given away but not yet counted;
   the next one to be counted also adds to the total. *)
PendingOvershoot ==
  \A m \in Minutes :
    CapDen * (frontier[m] + Cardinality(Granted(m)))
      <= Allowance(IF Granted(m) = {} THEN total[m] ELSE total[m] + 1) + Excess

=============================================================================
