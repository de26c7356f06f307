------------------------- MODULE FrontierCapProofs --------------------------
(***************************************************************************)
(* What TLAPS proves of FrontierCap, for any finite set of concurrent      *)
(* checks, any cap and any minimum traffic: the counters of a minute are   *)
(* consistent, and the cap is overshot by at most one request less than    *)
(* there are checks.                                                       *)
(***************************************************************************)
EXTENDS FrontierCap, FiniteSetTheorems, TLAPS

-----------------------------------------------------------------------------
(* Types. *)

LEMMA TypeInit == Init => TypeOK
BY BoundAssumption DEF Init, TypeOK, Minutes, Counts, NoCounts

LEMMA TypeStep == TypeOK /\ [Next]_vars => TypeOK'
<1> SUFFICES ASSUME TypeOK, [Next]_vars PROVE TypeOK'
  OBVIOUS
<1> USE DEF TypeOK
<1>r. ASSUME NEW c \in Callers, Return(c)
      PROVE  /\ phase' \in [Callers -> {"idle", "reading", "writing"}]
             /\ bucket' \in [Callers -> Minutes]
             /\ seen' \in [Callers -> Counts]
  <2>1. 0 \in Minutes /\ NoCounts \in Counts
    BY BoundAssumption DEF Minutes, Counts, NoCounts
  <2> QED
    BY <1>r, <2>1 DEF Return
<1>1. ASSUME NEW c \in Callers, Begin(c)
      PROVE  TypeOK'
  BY <1>1 DEF Begin
<1>2. ASSUME NEW c \in Callers, Read(c)
      PROVE  TypeOK'
  <2>1. [total |-> Value(total[bucket[c]]),
         frontier |-> Value(frontier[bucket[c]])] \in Counts
    BY DEF Counts, Value
  <2> QED
    BY <1>2, <2>1 DEF Read
<1>3. ASSUME NEW c \in Callers, Write(c)
      PROVE  TypeOK'
  <2>1. total' \in [Minutes -> Nat] /\ frontier' \in [Minutes -> Nat]
    BY <1>3 DEF Write, Count
  <2> QED
    BY <1>3, <1>r, <2>1 DEF Write
<1>4. ASSUME NEW c \in Callers, RedisFails(c)
      PROVE  TypeOK'
  BY <1>4, <1>r DEF RedisFails
<1>5. CASE Tick
  BY <1>5, BoundAssumption DEF Tick, Minutes
<1>6. ASSUME NEW m \in Minutes, ExpireFrontier(m) \/ ExpireTotal(m)
      PROVE  TypeOK'
  BY <1>6 DEF ExpireFrontier, ExpireTotal
<1>7. CASE UNCHANGED vars
  BY <1>7 DEF vars
<1> QED
  BY <1>1, <1>2, <1>3, <1>4, <1>5, <1>6, <1>7 DEF Next

(* Counters stay natural numbers and every check keeps the keys of a minute. *)
THEOREM TypeCorrect == Spec => []TypeOK
BY TypeInit, TypeStep, PTL DEF Spec

-----------------------------------------------------------------------------
(* The two counters of a minute. *)

LEMMA WithinStep ==
  TypeOK /\ FrontierWithinTotal /\ [Next]_vars => FrontierWithinTotal'
<1> SUFFICES ASSUME TypeOK, FrontierWithinTotal, [Next]_vars,
                    NEW m \in Minutes
             PROVE  frontier'[m] <= total'[m]
  BY DEF FrontierWithinTotal
<1>t. frontier[m] \in Nat /\ total[m] \in Nat /\ frontier[m] <= total[m]
  BY DEF TypeOK, FrontierWithinTotal
<1>1. ASSUME NEW c \in Callers, Write(c)
      PROVE  frontier'[m] <= total'[m]
  <2>1. bucket[c] \in Minutes
    BY DEF TypeOK
  <2> QED
    BY <1>1, <1>t, <2>1 DEF Write, Count, TypeOK
<1>2. ASSUME NEW c \in Callers, Begin(c) \/ Read(c) \/ RedisFails(c)
      PROVE  frontier'[m] <= total'[m]
  BY <1>2, <1>t DEF Begin, Read, RedisFails
<1>3. CASE Tick \/ UNCHANGED vars
  BY <1>3, <1>t DEF Tick, vars
<1>4. ASSUME NEW n \in Minutes, ExpireFrontier(n) \/ ExpireTotal(n)
      PROVE  frontier'[m] <= total'[m]
  BY <1>4, <1>t DEF ExpireFrontier, ExpireTotal, TypeOK
<1> QED
  BY <1>1, <1>2, <1>3, <1>4 DEF Next

(* The frontier count of a minute never exceeds its total, whatever is lost and
   whenever the keys expire. *)
THEOREM FrontierWithinTotalCorrect == Spec => []FrontierWithinTotal
<1>1. Init => FrontierWithinTotal
  BY DEF Init, FrontierWithinTotal
<1> QED
  BY <1>1, TypeInit, TypeStep, WithinStep, PTL DEF Spec

-----------------------------------------------------------------------------
(* The overshoot.  Room(f, p, t) is PendingOvershoot for a minute with f
   requests counted as frontier, p more granted, and a total of t. *)
Room(f, p, t) ==
  CapDen * (f + p) <= Allowance(IF p = 0 THEN t ELSE t + 1) + Excess

LEMMA Distributes ==
  ASSUME NEW a \in Int, NEW x \in Int, NEW y \in Int
  PROVE  /\ a * (x + y) = a * x + a * y
         /\ a * x \in Int /\ a * y \in Int /\ a * (x + y) \in Int
OBVIOUS

LEMMA CallersCounted == Cardinality(Callers) \in Nat /\ Excess \in Int
BY CallersAssumption, CapAssumption, FS_CardinalityType DEF Excess

(* One more check counted allows no less and, the cap being a fraction, at most
   one more frontier request. *)
LEMMA AllowanceGrows ==
  ASSUME NEW t \in Nat
  PROVE  /\ Allowance(t) \in Int
         /\ Allowance(t + 1) \in Int
         /\ Allowance(t) <= Allowance(t + 1)
         /\ Allowance(t + 1) <= Allowance(t) + CapDen
         /\ CapDen <= Allowance(t)
         /\ CapDen * MinTraffic <= Allowance(t)
         /\ CapNum * t <= Allowance(t)
<1>1. /\ CapNum * (t + 1) = CapNum * t + CapNum
      /\ CapNum * t \in Int /\ CapNum \in Nat /\ CapNum * (t + 1) \in Int
  BY CapAssumption
<1>2. CapDen * MinTraffic \in Int /\ CapDen <= CapDen * MinTraffic
  <2>1. CapDen * (MinTraffic - 1) >= 0
    BY CapAssumption
  <2>2. CapDen * (MinTraffic - 1) = CapDen * MinTraffic - CapDen
    BY CapAssumption
  <2>3. CapDen * MinTraffic \in Int
    BY CapAssumption
  <2> QED
    BY <2>1, <2>2, <2>3, CapAssumption
<1> QED
  BY <1>1, <1>2, CapAssumption DEF Allowance

(* A product grows with its second factor. *)
LEMMA ProductMonotone ==
  ASSUME NEW a \in Nat, NEW x \in Int, NEW y \in Int, x <= y
  PROVE  a * x <= a * y
<1>1. a * (y - x) >= 0
  OBVIOUS
<1>2. a * (y - x) = a * y - a * x
  OBVIOUS
<1> QED
  BY <1>1, <1>2, Distributes

(* A check that read the present counters and is allowed leaves room, with as
   many others as there can be. *)
LEMMA RoomToGrant ==
  ASSUME NEW f \in Nat, NEW p \in Nat, NEW t \in Nat,
         f <= t, p # 0, p <= Cardinality(Callers),
         t < MinTraffic \/ CapDen * (f + 1) <= CapNum * (t + 1)
  PROVE  Room(f, p, t)
<1>c. CapDen \in Nat /\ MinTraffic \in Nat /\ Cardinality(Callers) \in Nat
  BY CapAssumption, CallersCounted
<1>1. CapDen * (f + 1) <= Allowance(t + 1)
  <2>1. CASE t < MinTraffic
    <3>1. CapDen * (f + 1) <= CapDen * MinTraffic
      BY <1>c, <2>1, ProductMonotone
    <3>2. CapDen * (f + 1) \in Int /\ CapDen * MinTraffic \in Int
      BY <1>c
    <3> QED
      BY <3>1, <3>2, AllowanceGrows
  <2>2. CASE CapDen * (f + 1) <= CapNum * (t + 1)
    BY <1>c, <2>2, AllowanceGrows, Distributes, CapAssumption
  <2> QED
    BY <2>1, <2>2
<1>2. CapDen * (f + p) <= CapDen * ((f + 1) + (Cardinality(Callers) - 1))
  BY <1>c, ProductMonotone
<1>3. CapDen * ((f + 1) + (Cardinality(Callers) - 1))
        = CapDen * (f + 1) + Excess
  BY <1>c, Distributes DEF Excess
<1> QED
  BY <1>1, <1>2, <1>3, <1>c, AllowanceGrows, Distributes, CallersCounted
  DEF Room

(* Counting a granted request keeps the room, as does counting a denied one. *)
LEMMA RoomToCount ==
  ASSUME NEW f \in Nat, NEW p \in Nat, NEW t \in Nat, Room(f, p, t)
  PROVE  /\ p # 0 => Room(f + 1, p - 1, t + 1)
         /\ Room(f, p, t + 1)
<1>1. /\ Allowance(t) \in Int /\ Allowance(t + 1) \in Int
      /\ Allowance((t + 1) + 1) \in Int
      /\ Allowance(t) <= Allowance(t + 1)
      /\ Allowance(t + 1) <= Allowance((t + 1) + 1)
  BY AllowanceGrows
<1>2. p # 0 => (f + 1) + (p - 1) = f + p
  OBVIOUS
<1>3. CapDen * (f + p) \in Int
  BY CapAssumption
<1> QED
  BY <1>1, <1>2, <1>3, CallersCounted DEF Room

(* So does giving a granted place back. *)
LEMMA RoomToWithdraw ==
  ASSUME NEW f \in Nat, NEW p \in Nat, NEW t \in Nat, Room(f, p, t), p # 0
  PROVE  Room(f, p - 1, t)
<1>1. CapDen * (f + p) = CapDen * (f + (p - 1)) + CapDen
  <2>1. f + p = (f + (p - 1)) + 1
    OBVIOUS
  <2> QED
    BY <2>1, CapAssumption, Distributes
<1>2. CapDen * (f + (p - 1)) \in Int /\ CapDen \in Nat
  BY CapAssumption
<1> QED
  BY <1>1, <1>2, AllowanceGrows, CallersCounted DEF Room

(* And an expired bucket has room for all. *)
LEMMA RoomWhenExpired ==
  ASSUME NEW p \in Nat, NEW t \in Nat, p <= Cardinality(Callers)
  PROVE  Room(0, p, t)
<1>c. CapDen \in Nat /\ Cardinality(Callers) \in Nat
  BY CapAssumption, CallersCounted
<1>1. CapDen * (0 + p) <= CapDen * (1 + (Cardinality(Callers) - 1))
  BY <1>c, ProductMonotone
<1>2. CapDen * (1 + (Cardinality(Callers) - 1)) = CapDen + Excess
  BY <1>c, Distributes DEF Excess
<1>3. CapDen * (0 + p) \in Int
  BY <1>c
<1> QED
  BY <1>1, <1>2, <1>3, <1>c, AllowanceGrows, CallersCounted DEF Room

(* The granted checks are among the callers. *)
LEMMA GrantedCounted ==
  ASSUME NEW m
  PROVE  /\ IsFiniteSet(Granted(m))
         /\ Cardinality(Granted(m)) \in Nat
         /\ Cardinality(Granted(m)) <= Cardinality(Callers)
         /\ Cardinality(Granted(m)) = 0 <=> Granted(m) = {}
<1>1. Granted(m) \in SUBSET Callers
  BY DEF Granted
<1>2. IsFiniteSet(Granted(m))
  BY <1>1, CallersAssumption, FS_Subset
<1> QED
  BY <1>1, <1>2, CallersAssumption, FS_Subset, FS_CardinalityType, FS_EmptySet

LEMMA PendingIsRoom ==
  PendingOvershoot <=>
    \A m \in Minutes : Room(frontier[m], Cardinality(Granted(m)), total[m])
BY GrantedCounted DEF PendingOvershoot, Room

-----------------------------------------------------------------------------
(* What each action does to the granted checks. *)

LEMMA GrantedByReturn ==
  ASSUME TypeOK, NEW c \in Callers, Return(c), NEW m
  PROVE  Granted(m)' = Granted(m) \ {c}
<1>1. ASSUME NEW d \in Callers
      PROVE  d \in Granted(m)' <=> d \in Granted(m) /\ d # c
  <2>1. CASE d = c
    BY <2>1 DEF Return, Granted, TypeOK
  <2>2. CASE d # c
    BY <2>2 DEF Return, Granted, TypeOK, AllowedBy
  <2> QED
    BY <2>1, <2>2
<1>2. Granted(m)' \subseteq Callers /\ Granted(m) \subseteq Callers
  BY DEF Granted
<1> QED
  BY <1>1, <1>2

LEMMA GrantedByRead ==
  ASSUME TypeOK, NEW c \in Callers, Read(c), NEW m \in Minutes
  PROVE  \/ Granted(m)' = Granted(m)
         \/ /\ Granted(m)' = Granted(m) \cup {c}
            /\ \/ total[m] < MinTraffic
               \/ CapDen * (frontier[m] + 1) <= CapNum * (total[m] + 1)
<1>1. ASSUME NEW d \in Callers, d # c
      PROVE  d \in Granted(m)' <=> d \in Granted(m)
  BY <1>1 DEF Read, Granted, TypeOK, AllowedBy
<1>2. c \notin Granted(m)
  BY DEF Read, Granted
<1>3. c \in Granted(m)' =>
        \/ total[m] < MinTraffic
        \/ CapDen * (frontier[m] + 1) <= CapNum * (total[m] + 1)
  <2> SUFFICES ASSUME c \in Granted(m)'
               PROVE  \/ total[m] < MinTraffic
                      \/ CapDen * (frontier[m] + 1) <= CapNum * (total[m] + 1)
    OBVIOUS
  <2>1. bucket[c] = m /\ AllowedBy(seen'[c])
    BY DEF Granted, Read, AllowedBy
  <2>2. seen'[c] = [total |-> total[m], frontier |-> frontier[m]]
    BY <2>1 DEF Read, TypeOK, Value
  <2> QED
    BY <2>1, <2>2 DEF AllowedBy
<1>4. Granted(m)' \subseteq Callers /\ Granted(m) \subseteq Callers
  BY DEF Granted
<1> QED
  BY <1>1, <1>2, <1>3, <1>4

LEMMA PendingStep ==
  /\ TypeOK /\ FrontierWithinTotal /\ PendingOvershoot
  /\ [Next]_vars
  => PendingOvershoot'
<1> SUFFICES ASSUME TypeOK, FrontierWithinTotal, PendingOvershoot, [Next]_vars,
                    NEW m \in Minutes
             PROVE  Room(frontier[m], Cardinality(Granted(m)), total[m])'
  <2>1. (\A m \in Minutes :
           Room(frontier[m], Cardinality(Granted(m)), total[m]))'
          => PendingOvershoot'
    BY PendingIsRoom, PTL
  <2> QED
    BY <2>1
<1> DEFINE pending == Cardinality(Granted(m))
<1>t. /\ frontier[m] \in Nat /\ total[m] \in Nat /\ frontier[m] <= total[m]
      /\ Room(frontier[m], pending, total[m])
  BY PendingIsRoom DEF TypeOK, FrontierWithinTotal
<1>p. /\ pending \in Nat /\ pending <= Cardinality(Callers)
      /\ pending = 0 <=> Granted(m) = {}
  BY GrantedCounted
<1>s. ASSUME UNCHANGED <<frontier[m], total[m], Granted(m)>>
      PROVE  Room(frontier[m], pending, total[m])'
  BY <1>s, <1>t DEF Room, Allowance, Excess
<1>r. ASSUME NEW c \in Callers, Return(c)
      PROVE  pending' = IF c \in Granted(m) THEN pending - 1 ELSE pending
  BY <1>r, GrantedByReturn, GrantedCounted, FS_RemoveElement
<1>1. ASSUME NEW c \in Callers, Begin(c)
      PROVE  Room(frontier[m], pending, total[m])'
  <2>1. Granted(m)' = Granted(m)
    BY <1>1 DEF Begin, Granted, TypeOK, AllowedBy
  <2> QED
    BY <1>1, <1>s, <2>1 DEF Begin
<1>2. ASSUME NEW c \in Callers, Read(c)
      PROVE  Room(frontier[m], pending, total[m])'
  <2>1. UNCHANGED <<frontier[m], total[m]>>
    BY <1>2 DEF Read
  <2>2. CASE Granted(m)' = Granted(m)
    BY <1>s, <2>1, <2>2
  <2>3. CASE /\ Granted(m)' = Granted(m) \cup {c}
             /\ \/ total[m] < MinTraffic
                \/ CapDen * (frontier[m] + 1) <= CapNum * (total[m] + 1)
    <3>1. pending' \in Nat /\ pending' <= Cardinality(Callers)
      <4>1. Granted(m)' \in SUBSET Callers
        BY DEF Granted
      <4> QED
        BY <4>1, CallersAssumption, FS_Subset, FS_CardinalityType
    <3>2. pending' # 0
      <4>1. IsFiniteSet(Granted(m)')
        BY <2>3, GrantedCounted, FS_AddElement
      <4> QED
        BY <2>3, <4>1, FS_EmptySet
    <3>3. Room(frontier[m], pending', total[m])
      BY <1>t, <2>3, <3>1, <3>2, RoomToGrant
    <3> QED
      BY <2>1, <3>3 DEF Room, Allowance, Excess
  <2> QED
    BY <1>2, <2>2, <2>3, GrantedByRead
<1>3. ASSUME NEW c \in Callers, Write(c)
      PROVE  Room(frontier[m], pending, total[m])'
  <2>r. pending' = IF c \in Granted(m) THEN pending - 1 ELSE pending
    BY <1>3, <1>r DEF Write
  <2>1. CASE bucket[c] # m
    <3>1. UNCHANGED <<frontier[m], total[m]>>
      BY <1>3, <2>1 DEF Write, Count, TypeOK
    <3>2. Granted(m)' = Granted(m)
      BY <1>3, <2>1, GrantedByReturn DEF Write, Granted
    <3> QED
      BY <1>s, <3>1, <3>2
  <2>2. CASE bucket[c] = m /\ AllowedBy(seen[c])
    <3>1. c \in Granted(m)
      BY <1>3, <2>2 DEF Write, Granted
    <3>2. frontier'[m] = frontier[m] + 1 /\ total'[m] = total[m] + 1
      BY <1>3, <2>2 DEF Write, Count, TypeOK
    <3>3. pending # 0 /\ pending' = pending - 1
      BY <1>p, <2>r, <3>1
    <3>4. Room(frontier[m] + 1, pending - 1, total[m] + 1)
      BY <1>t, <1>p, <3>3, RoomToCount
    <3> QED
      BY <3>2, <3>3, <3>4 DEF Room, Allowance, Excess
  <2>3. CASE bucket[c] = m /\ ~AllowedBy(seen[c])
    <3>1. c \notin Granted(m)
      BY <2>3 DEF Granted
    <3>2. frontier'[m] = frontier[m] /\ total'[m] = total[m] + 1
      BY <1>3, <2>3 DEF Write, Count, TypeOK
    <3>3. Room(frontier[m], pending, total[m] + 1)
      BY <1>t, <1>p, RoomToCount
    <3> QED
      BY <2>r, <3>1, <3>2, <3>3 DEF Room, Allowance, Excess
  <2> QED
    BY <2>1, <2>2, <2>3
<1>4. ASSUME NEW c \in Callers, RedisFails(c)
      PROVE  Room(frontier[m], pending, total[m])'
  <2>1. /\ UNCHANGED <<frontier[m], total[m]>>
        /\ pending' = IF c \in Granted(m) THEN pending - 1 ELSE pending
    BY <1>4, <1>r DEF RedisFails
  <2>2. Room(frontier[m], pending', total[m])
    BY <1>t, <1>p, <2>1, RoomToWithdraw
  <2> QED
    BY <2>1, <2>2 DEF Room, Allowance, Excess
<1>5. CASE Tick \/ UNCHANGED vars
  <2>1. Granted(m)' = Granted(m)
    BY <1>5 DEF Tick, vars, Granted, AllowedBy
  <2> QED
    BY <1>5, <1>s, <2>1 DEF Tick, vars
<1>6. ASSUME NEW n \in Minutes, ExpireFrontier(n) \/ ExpireTotal(n)
      PROVE  Room(frontier[m], pending, total[m])'
  <2>1. Granted(m)' = Granted(m)
    BY <1>6 DEF ExpireFrontier, ExpireTotal, Granted, AllowedBy
  <2>2. CASE m # n
    BY <1>6, <1>s, <2>1, <2>2 DEF ExpireFrontier, ExpireTotal, TypeOK
  <2>3. CASE m = n
    <3>1. frontier'[m] = 0 /\ total'[m] \in Nat
      BY <1>6, <2>3 DEF ExpireFrontier, ExpireTotal, TypeOK
    <3>2. Room(0, pending, total'[m])
      BY <1>p, <3>1, RoomWhenExpired
    <3> QED
      BY <2>1, <3>1, <3>2 DEF Room, Allowance, Excess
  <2> QED
    BY <2>2, <2>3
<1> QED
  BY <1>1, <1>2, <1>3, <1>4, <1>5, <1>6 DEF Next

LEMMA PendingInvariant == Spec => []PendingOvershoot
<1>1. Init => PendingOvershoot
  <2> SUFFICES ASSUME Init, NEW m \in Minutes
               PROVE  Room(frontier[m], Cardinality(Granted(m)), total[m])
    BY PendingIsRoom
  <2>1. frontier[m] = 0 /\ total[m] = 0
    BY DEF Init
  <2> QED
    BY <2>1, GrantedCounted, RoomWhenExpired
<1>2. Init => FrontierWithinTotal
  BY DEF Init, FrontierWithinTotal
<1> QED
  BY <1>1, <1>2, TypeInit, TypeStep, WithinStep, PendingStep, PTL DEF Spec

(* Checks that count themselves only after they have decided overshoot the cap,
   but never by more requests than there are other checks, and never by more
   and more. *)
THEOREM BoundedOvershootCorrect == Spec => []BoundedOvershoot
<1>1. TypeOK /\ PendingOvershoot => BoundedOvershoot
  <2> SUFFICES ASSUME TypeOK, PendingOvershoot, NEW m \in Minutes
               PROVE  CapDen * frontier[m] <= Allowance(total[m]) + Excess
    BY DEF BoundedOvershoot
  <2> DEFINE pending == Cardinality(Granted(m))
  <2>1. /\ frontier[m] \in Nat /\ total[m] \in Nat /\ pending \in Nat
        /\ Room(frontier[m], pending, total[m])
    BY PendingIsRoom, GrantedCounted DEF TypeOK
  <2>2. CASE pending = 0
    BY <2>1, <2>2 DEF Room
  <2>3. CASE pending # 0
    <3>1. CapDen * (frontier[m] + 1) <= CapDen * (frontier[m] + pending)
      BY <2>1, <2>3, ProductMonotone, CapAssumption
    <3>2. CapDen * (frontier[m] + 1) = CapDen * frontier[m] + CapDen
      BY <2>1, Distributes, CapAssumption
    <3>3. /\ CapDen * frontier[m] \in Int /\ CapDen \in Int
          /\ CapDen * (frontier[m] + pending) \in Int
      BY <2>1, CapAssumption
    <3> QED
      BY <2>1, <2>3, <3>1, <3>2, <3>3, AllowanceGrows, CallersCounted DEF Room
  <2> QED
    BY <2>2, <2>3
<1> QED
  BY <1>1, PendingInvariant, TypeCorrect, PTL

=============================================================================
