-------------------------- MODULE SelectionProofs ---------------------------
(***************************************************************************)
(* Proofs about the operators of Selection, for any catalog: that lists    *)
(* arranged by counting are complete and in order, and that resolving a    *)
(* tier loses none of its models.                                          *)
(***************************************************************************)
EXTENDS Selection, FiniteSetTheorems, WellFoundedInduction, TLAPS

(* A set of numbers has a smallest one. *)
LEMMA MinProperty ==
  ASSUME NEW S \in SUBSET Nat, S # {}
  PROVE  Min(S) \in S /\ \A x \in S : Min(S) <= x
  <1> DEFINE R == OpToRel(<, Nat)
  <1>1. IsWellFoundedOn(R, Nat)
    BY NatLessThanWellFounded
  <1>2. \A x, y \in Nat : x < y => <<x, y>> \in R
    BY DEF OpToRel
  <1> HIDE DEF R
  <1>3. PICK k \in S : \A x \in S : ~(<<x, k>> \in R)
    BY <1>1, WFMin
  <1>4. \A x \in S : k <= x
    <2> TAKE x \in S
    <2>1. x \in Nat /\ k \in Nat /\ ~(x < k)
      BY <1>2, <1>3
    <2> QED
      BY <2>1
  <1> QED
    BY <1>4 DEF Min

(* A finite one has a greatest: of its subsets without one, a smallest would
   have an element without which it had one. *)
LEMMA MaxProperty ==
  ASSUME NEW S \in SUBSET Int, IsFiniteSet(S), S # {}
  PROVE  Max(S) \in S /\ \A x \in S : Max(S) >= x
  <1> DEFINE Greatest(T, m) == m \in T /\ \A x \in T : m >= x
             Headless == {T \in SUBSET S : T # {} /\ ~\E m \in T : Greatest(T, m)}
             R == StrictSubsetOrdering(S)
  <1>1. Headless = {}
    <2> SUFFICES ASSUME Headless # {} PROVE FALSE
      OBVIOUS
    <2>1. FiniteSubsetsOf(S) = SUBSET S
      BY FS_FiniteSubsetsOfFinite
    <2>2. IsWellFoundedOn(R, SUBSET S)
      BY <2>1, FS_StrictSubsetOrderingWellFounded
    <2>3. Headless \subseteq SUBSET S
      OBVIOUS
    <2> HIDE DEF Headless, R
    <2>4. PICK T \in Headless : \A U \in Headless : ~(<<U, T>> \in R)
      BY <2>2, <2>3, WFMin
    <2>5. T \in SUBSET S /\ T # {} /\ ~\E m \in T : Greatest(T, m)
      BY <2>4 DEF Headless
    <2>6. PICK x \in T : TRUE
      BY <2>5
    <2> DEFINE U == T \ {x}
    <2>7. U \in SUBSET S /\ U # T /\ U \subseteq T
      BY <2>5, <2>6
    <2>8. <<U, T>> \in R
      BY <2>5, <2>7 DEF R, StrictSubsetOrdering
    <2>9. U = {} \/ \E m \in U : Greatest(U, m)
      BY <2>4, <2>7, <2>8 DEF Headless
    <2>10. CASE U = {}
      <3>1. T = {x} /\ x \in Int
        BY <2>5, <2>6, <2>10
      <3> QED
        BY <2>5, <3>1
    <2>11. CASE \E m \in U : Greatest(U, m)
      <3>1. PICK m \in U : Greatest(U, m)
        BY <2>11
      <3>2. m \in Int /\ x \in Int /\ T = U \cup {x} /\ \A y \in T : y \in Int
        BY <2>5, <2>6, <3>1
      <3>3. Greatest(T, m) \/ Greatest(T, x)
        BY <3>1, <3>2
      <3> QED
        BY <2>5, <2>6, <3>1, <3>3
    <2> QED
      BY <2>9, <2>10, <2>11
  <1>2. \E m \in S : Greatest(S, m)
    BY <1>1
  <1> QED
    BY <1>2 DEF Max

-----------------------------------------------------------------------------
(* A list of a set has all its elements, as many times as the set has. *)
LEMMA ListOfSet ==
  ASSUME NEW S, IsFiniteSet(S), NEW s \in SetToSeqs(S)
  PROVE  /\ s \in Seq(S) /\ Len(s) = Cardinality(S) /\ Cardinality(S) \in Nat
         /\ \A m \in S : \E i \in 1..Len(s) : s[i] = m
         /\ \A i, j \in 1..Len(s) : s[i] = s[j] => i = j
  <1> DEFINE n == Cardinality(S)
             D == 1..n
  <1>1. n \in Nat
    BY FS_CardinalityType
  <1>2. s \in [D -> S] /\ \A i, j \in D : i # j => s[i] # s[j]
    BY DEF SetToSeqs
  <1>3. s \in Seq(S) /\ Len(s) = n
    BY <1>1, <1>2
  <1>4. IsFiniteSet(D) /\ Cardinality(D) = n
    BY <1>1, FS_Interval
  <1>5. s \in Injection(D, S)
    BY <1>2 DEF Injection, IsInjective
  <1>6. s \in Surjection(D, S)
    BY <1>1, <1>4, <1>5, FS_Injection
  <1> QED
    BY <1>1, <1>2, <1>3, <1>6 DEF Surjection

(* What it takes for pairs to order a set totally. *)
Orders(R, S) ==
  /\ \A x \in S : <<x, x>> \notin R
  /\ \A x, y \in S : x # y => <<x, y>> \in R \/ <<y, x>> \in R
  /\ \A x, y, z \in S : <<x, y>> \in R /\ <<y, z>> \in R => <<x, z>> \in R

(* Counting what comes before an element gives it a place of its own, so that
   the arranged list has every element, once, in the order. *)
LEMMA ArrangedList ==
  ASSUME NEW S, IsFiniteSet(S), NEW R, Orders(R, S)
  PROVE  LET s == Arranged(S, R)
         IN /\ s \in Seq(S) /\ Len(s) = Cardinality(S) /\ Cardinality(S) \in Nat
            /\ \A x \in S : \E i \in 1..Len(s) : s[i] = x
            /\ \A i, j \in 1..Len(s) : i < j => <<s[i], s[j]>> \in R
  <1> DEFINE n == Cardinality(S)
             Below(x) == {y \in S : <<y, x>> \in R}
             count(x) == Cardinality(Below(x))
             s == Arranged(S, R)
  <1>1. n \in Nat
    BY FS_CardinalityType
  <1>2. ASSUME NEW x \in S PROVE IsFiniteSet(Below(x)) /\ count(x) \in Nat /\ count(x) < n
    <2>1. Below(x) \in SUBSET S /\ Below(x) # S
      BY DEF Orders
    <2>2. IsFiniteSet(Below(x)) /\ count(x) <= n /\ count(x) # n
      BY <2>1, FS_Subset
    <2>3. count(x) \in Nat
      BY <2>2, FS_CardinalityType
    <2> QED
      BY <1>1, <2>2, <2>3
  <1>3. ASSUME NEW x \in S, NEW y \in S, <<x, y>> \in R
        PROVE  count(x) < count(y)
    <2>1. Below(x) \in SUBSET Below(y) /\ x \in Below(y) /\ x \notin Below(x)
      BY <1>3 DEF Orders
    <2>2. count(x) <= count(y) /\ count(x) # count(y)
      BY <1>2, <2>1, FS_Subset
    <2>3. count(x) \in Nat
      BY <1>2
    <2>4. count(y) \in Nat
      BY <1>2
    <2> HIDE DEF count
    <2> QED
      BY <2>2, <2>3, <2>4
  <1>4. s = [i \in 1..n |-> CHOOSE x \in S : count(x) = i - 1]
    BY DEF Arranged
  <1> DEFINE place == [x \in S |-> count(x) + 1]
  <1> HIDE DEF count, Below, s
  <1>5. place \in [S -> 1..n] /\ \A x \in S : count(x) \in Int /\ count(x) = place[x] - 1
    BY <1>1, <1>2
  <1>6. ASSUME NEW x \in S, NEW y \in S, count(x) = count(y) PROVE x = y
    <2>1. count(x) \in Nat /\ count(y) \in Nat /\ ~(count(x) < count(y))
            /\ ~(count(y) < count(x))
      BY <1>2, <1>6
    <2> QED
      BY <1>3, <2>1 DEF Orders
  <1>7. place \in Injection(S, 1..n)
    BY <1>5, <1>6 DEF Injection, IsInjective
  <1>8. IsFiniteSet(1..n) /\ Cardinality(1..n) = n
    BY <1>1, FS_Interval
  <1>9. place \in Surjection(S, 1..n)
    BY <1>7, <1>8, FS_Injection
  <1> HIDE DEF place
  <1>10. ASSUME NEW i \in 1..n PROVE s[i] \in S /\ count(s[i]) = i - 1
    <2>1. PICK x \in S : place[x] = i
      BY <1>9 DEF Surjection
    <2>2. count(x) = i - 1
      BY <1>5, <2>1
    <2>3. s[i] = CHOOSE y \in S : count(y) = i - 1
      BY <1>4
    <2> QED
      BY <2>2, <2>3
  <1>11. s \in Seq(S) /\ Len(s) = n
    <2>1. s \in [1..n -> S]
      BY <1>4, <1>10
    <2> QED
      BY <1>1, <2>1
  <1>12. ASSUME NEW x \in S PROVE \E i \in 1..n : s[i] = x
    <2>1. place[x] \in 1..n /\ count(x) = place[x] - 1
      BY <1>5
    <2>2. s[place[x]] \in S /\ count(s[place[x]]) = count(x)
      BY <1>10, <2>1
    <2> QED
      BY <1>6, <2>1, <2>2
  <1>13. ASSUME NEW i \in 1..n, NEW j \in 1..n, i < j PROVE <<s[i], s[j]>> \in R
    <2>1. /\ s[i] \in S /\ s[j] \in S
          /\ count(s[i]) = i - 1 /\ count(s[j]) = j - 1
      BY <1>10
    <2>2. ~(<<s[j], s[i]>> \in R) /\ s[i] # s[j]
      BY <1>3, <1>13, <2>1
    <2> QED
      BY <2>1, <2>2 DEF Orders
  <1> QED
    BY <1>1, <1>11, <1>12, <1>13 DEF s

(* Selecting by places gives what the list has there, and nothing else. *)
LEMMA PlacesList ==
  ASSUME NEW S, NEW list \in Seq(S), NEW places \in SUBSET (DOMAIN list)
  PROVE  LET s == AtPlaces(list, places)
         IN /\ IsFiniteSet(places)
            /\ s \in Seq(S) /\ Len(s) = Cardinality(places) /\ Cardinality(places) \in Nat
            /\ \A p \in places : \E i \in 1..Len(s) : s[i] = list[p]
            /\ \A i \in 1..Len(s) : \E p \in places : s[i] = list[p]
  <1> DEFINE R == {p \in places \X places : p[1] < p[2]}
             order == Arranged(places, R)
             s == AtPlaces(list, places)
  <1>1. Len(list) \in Nat /\ places \in SUBSET (1..Len(list))
    OBVIOUS
  <1>2. IsFiniteSet(places)
    BY <1>1, FS_Interval, FS_Subset
  <1>3. Orders(R, places)
    <2>1. \A x, y \in places : <<x, y>> \in R <=> x < y
      OBVIOUS
    <2>2. \A x \in places : x \in Int
      BY <1>1
    <2> HIDE DEF R
    <2> QED
      BY <2>1, <2>2 DEF Orders
  <1>4. /\ order \in Seq(places) /\ Len(order) = Cardinality(places)
        /\ Cardinality(places) \in Nat
        /\ \A p \in places : \E i \in 1..Len(order) : order[i] = p
    <2> HIDE DEF R
    <2> QED
      BY <1>2, <1>3, ArrangedList
  <1>5. s = [n \in DOMAIN order |-> list[order[n]]]
    BY DEF AtPlaces
  <1> HIDE DEF order, s
  <1>6. DOMAIN order = 1..Len(order) /\ \A n \in DOMAIN order : order[n] \in places
    BY <1>4
  <1>7. \A n \in DOMAIN order : list[order[n]] \in S
    BY <1>1, <1>6
  <1>8. s \in Seq(S) /\ Len(s) = Len(order)
    <2>1. s \in [1..Len(order) -> S] /\ Len(order) \in Nat
      BY <1>4, <1>5, <1>6, <1>7
    <2> QED
      BY <2>1
  <1> QED
    BY <1>2, <1>4, <1>5, <1>6, <1>8 DEF s

-----------------------------------------------------------------------------
(* Latency class, price and place in the file order the models totally. *)
LEMMA RanksBeforeOrder ==
  ASSUME NEW x \in Models, NEW y \in Models, NEW z \in Models
  PROVE  /\ ~RanksBefore(x, x)
         /\ x # y => RanksBefore(x, y) \/ RanksBefore(y, x)
         /\ ~(RanksBefore(x, y) /\ RanksBefore(y, x))
         /\ RanksBefore(x, y) /\ RanksBefore(y, z) => RanksBefore(x, z)
  <1>1. \A m \in Models : LatencyRank[m] \in Int /\ Price[m] \in Int /\ FilePosition[m] \in Int
    BY CatalogAssumption
  <1>2. FilePosition[x] = FilePosition[y] => x = y
    BY CatalogAssumption
  <1> QED
    BY <1>1, <1>2 DEF RanksBefore

LEMMA ColdStartRankList ==
  ASSUME NEW S \in SUBSET Models, IsFiniteSet(S)
  PROVE  LET s == ColdStartRank(S)
         IN /\ s \in Seq(S) /\ Len(s) = Cardinality(S) /\ Cardinality(S) \in Nat
            /\ \A x \in S : \E i \in 1..Len(s) : s[i] = x
            /\ \A i, j \in 1..Len(s) : i <= j => ~RanksBefore(s[j], s[i])
  <1> DEFINE R == {p \in S \X S : RanksBefore(p[1], p[2])}
             s == Arranged(S, R)
  <1>1. \A x, y \in S : <<x, y>> \in R <=> RanksBefore(x, y)
    OBVIOUS
  <1>2. s = ColdStartRank(S)
    BY DEF ColdStartRank
  <1> HIDE DEF R
  <1>3. Orders(R, S)
    BY <1>1, RanksBeforeOrder DEF Orders
  <1>4. /\ s \in Seq(S) /\ Len(s) = Cardinality(S) /\ Cardinality(S) \in Nat
        /\ \A x \in S : \E i \in 1..Len(s) : s[i] = x
        /\ \A i, j \in 1..Len(s) : i < j => <<s[i], s[j]>> \in R
    BY <1>3, ArrangedList
  <1> HIDE DEF s
  <1>5. ASSUME NEW i \in 1..Len(s), NEW j \in 1..Len(s), i <= j
        PROVE  ~RanksBefore(s[j], s[i])
    <2>1. s[i] \in S /\ s[j] \in S
      BY <1>4
    <2>2. CASE i = j
      BY <2>1, <2>2, RanksBeforeOrder
    <2>3. CASE i < j
      BY <1>1, <1>4, <2>1, <2>3, RanksBeforeOrder
    <2> QED
      BY <1>4, <1>5, <2>2, <2>3
  <1> QED
    BY <1>2, <1>4, <1>5

LEMMA MaxOfLevels ==
  Max({0}) = 0 /\ Max({0, 1}) = 1 /\ Max({0, 2}) = 2 /\ Max({0, 1, 2}) = 2
  <1>1. ASSUME NEW S \in SUBSET Int, NEW m \in S, \A x \in S : m >= x
        PROVE  Max(S) = m
    <2>1. \A k \in S : (\A x \in S : k >= x) => k = m
      BY <1>1
    <2> QED
      BY <1>1, <2>1 DEF Max
  <1>2. Max({0}) = 0
    BY <1>1
  <1>3. Max({0, 1}) = 1
    BY <1>1
  <1>4. Max({0, 2}) = 2
    BY <1>1
  <1>5. Max({0, 1, 2}) = 2
    BY <1>1
  <1> QED
    BY <1>2, <1>3, <1>4, <1>5

(* A level gets the model at a place of the ranking that rises with the level. *)
LevelPlace(r, l) ==
  IF l = 2 THEN Len(r) ELSE IF l = 1 /\ Len(r) >= 3 THEN (Len(r) \div 2) + 1 ELSE 1

LEMMA LevelPlaces ==
  ASSUME NEW S, NEW r \in Seq(S), Len(r) >= 1
  PROVE  /\ \A l \in 0..2 : LevelPlace(r, l) \in 1..Len(r)
         /\ \A l, k \in 0..2 : l < k => LevelPlace(r, l) <= LevelPlace(r, k)
  <1>1. Len(r) \in Nat /\ Len(r) \div 2 \in Nat /\ 2 * (Len(r) \div 2) <= Len(r)
    BY SMT
  <1>2. Len(r) >= 3 => (Len(r) \div 2) + 1 <= Len(r)
    BY <1>1
  <1>3. ASSUME NEW l \in 0..2 PROVE l = 0 \/ l = 1 \/ l = 2
    OBVIOUS
  <1>4. /\ LevelPlace(r, 0) = 1 /\ LevelPlace(r, 2) = Len(r)
        /\ LevelPlace(r, 1) = IF Len(r) >= 3 THEN (Len(r) \div 2) + 1 ELSE 1
    BY DEF LevelPlace
  <1>5. /\ LevelPlace(r, 1) \in 1..Len(r)
        /\ LevelPlace(r, 0) <= LevelPlace(r, 1) /\ LevelPlace(r, 1) <= LevelPlace(r, 2)
    BY <1>1, <1>2, <1>4
  <1>6. LevelPlace(r, 0) \in 1..Len(r) /\ LevelPlace(r, 2) \in 1..Len(r)
    BY <1>1, <1>4
  <1>7. ASSUME NEW l \in 0..2, NEW k \in 0..2, l < k
        PROVE  LevelPlace(r, l) <= LevelPlace(r, k)
    <2>1. (l = 0 /\ k = 1) \/ (l = 0 /\ k = 2) \/ (l = 1 /\ k = 2)
      BY <1>7
    <2> QED
      BY <1>4, <1>5, <1>6, <2>1
  <1> QED
    BY <1>3, <1>5, <1>6, <1>7

LEMMA LevelModels ==
  ASSUME NEW S, NEW r \in Seq(S), Len(r) >= 1, NEW T, T.model = r[1],
         T.complexityModels = ComplexityModels(r)
  PROVE  /\ \A l \in DOMAIN T.complexityModels :
              \E i \in 1..Len(r) : T.complexityModels[l] = r[i]
         /\ \A l \in 0..2 : ModelForComplexity(T, l) = r[LevelPlace(r, l)]
  <1> DEFINE c == ComplexityModels(r)
             fits(l) == {k \in DOMAIN c : k <= l}
             n == Len(r)
  <1>1. n \in Nat /\ n >= 1 /\ \A l \in 0..2 : l = 0 \/ l = 1 \/ l = 2
    OBVIOUS
  <1>2. \A l \in 0..2 : ModelForComplexity(T, l) = IF fits(l) = {} THEN r[1] ELSE c[Max(fits(l))]
    BY DEF ModelForComplexity
  <1>3. CASE n = 1
    <2>1. DOMAIN c = {}
      BY <1>3 DEF ComplexityModels
    <2> QED
      BY <1>2, <1>3, <2>1 DEF LevelPlace
  <1>4. CASE n = 2
    <2>1. DOMAIN c = {0, 2} /\ c[0] = r[1] /\ c[2] = r[2]
      BY <1>4 DEF ComplexityModels
    <2> HIDE DEF c
    <2>2. fits(0) = {0} /\ fits(1) = {0} /\ fits(2) = {0, 2}
      BY <2>1
    <2> HIDE DEF fits
    <2>3. Max({0}) = 0 /\ Max({0, 2}) = 2
      BY MaxOfLevels
    <2>4. /\ ModelForComplexity(T, 0) = r[1] /\ ModelForComplexity(T, 1) = r[1]
          /\ ModelForComplexity(T, 2) = r[2]
      BY <1>2, <2>1, <2>2, <2>3
    <2>5. LevelPlace(r, 0) = 1 /\ LevelPlace(r, 1) = 1 /\ LevelPlace(r, 2) = 2
      BY <1>4 DEF LevelPlace
    <2> QED
      BY <1>1, <1>4, <2>1, <2>4, <2>5 DEF c
  <1>5. CASE n >= 3
    <2>1. Head(r) = r[1] /\ Last(r) = r[n]
      BY <1>5 DEF Last
    <2>2. /\ DOMAIN c = 0..2 /\ c[0] = r[1] /\ c[1] = r[(n \div 2) + 1] /\ c[2] = r[n]
      BY <1>1, <1>5, <2>1 DEF ComplexityModels
    <2> HIDE DEF c
    <2>3. fits(0) = {0} /\ fits(1) = {0, 1} /\ fits(2) = {0, 1, 2}
      BY <2>2
    <2> HIDE DEF fits
    <2>4. Max({0}) = 0 /\ Max({0, 1}) = 1 /\ Max({0, 1, 2}) = 2
      BY MaxOfLevels
    <2>5. /\ ModelForComplexity(T, 0) = r[1] /\ ModelForComplexity(T, 1) = r[(n \div 2) + 1]
          /\ ModelForComplexity(T, 2) = r[n]
      <3>1. fits(0) # {} /\ fits(1) # {} /\ fits(2) # {}
        BY <2>3
      <3>2. \A l \in 0..2 : fits(l) # {} => ModelForComplexity(T, l) = c[Max(fits(l))]
        BY <1>2
      <3>3. Max(fits(0)) = 0 /\ Max(fits(1)) = 1 /\ Max(fits(2)) = 2
        BY <2>3, <2>4
      <3>4. /\ ModelForComplexity(T, 0) = c[0] /\ ModelForComplexity(T, 1) = c[1]
            /\ ModelForComplexity(T, 2) = c[2]
        BY <3>1, <3>2, <3>3
      <3> QED
        BY <2>2, <3>4
    <2>6. /\ LevelPlace(r, 0) = 1 /\ LevelPlace(r, 1) = (n \div 2) + 1
          /\ LevelPlace(r, 2) = n
      BY <1>1, <1>5 DEF LevelPlace
    <2>7. \A l \in 0..2 : LevelPlace(r, l) \in 1..n
      BY LevelPlaces
    <2> QED
      BY <1>1, <2>2, <2>5, <2>6, <2>7 DEF c
  <1> HIDE DEF n
  <1>6. n = 1 \/ n = 2 \/ n >= 3
    BY <1>1
  <1> QED
    BY <1>3, <1>4, <1>5, <1>6

(* Resolving a tier loses no model of its catalog and invents none, and the
   model of a higher level never ranks before that of a lower one. *)
LEMMA ResolvedTier ==
  ASSUME NEW S \in SUBSET Models, IsFiniteSet(S), NEW o \in Models \cup {NoModel}
  PROVE  LET T == ResolveTier(S, o)
             M == IF o # NoModel THEN {o} ELSE IF S = {} THEN {FallbackModel} ELSE S
         IN /\ AvailableModels(T) = M
            /\ M \subseteq Models
            /\ \A l \in 0..2 : ModelForComplexity(T, l) \in M
            /\ \A l, k \in 0..2 :
                 l < k => ~RanksBefore(ModelForComplexity(T, k), ModelForComplexity(T, l))
  <1> DEFINE r == IF o # NoModel THEN <<>> ELSE ColdStartRank(S)
             T == ResolveTier(S, o)
             M == IF o # NoModel THEN {o} ELSE IF S = {} THEN {FallbackModel} ELSE S
  <1>1. M \subseteq Models
    BY CatalogAssumption
  <1>2. /\ T.model = CASE o # NoModel -> o
                       [] o = NoModel /\ S = {} -> FallbackModel
                       [] OTHER -> Head(r)
        /\ T.complexityModels = ComplexityModels(r)
        /\ T.additional = ToSet(r) \ ({T.model} \cup {ComplexityModels(r)[l] :
                                                      l \in DOMAIN ComplexityModels(r)})
    BY DEF ResolveTier, Remaining
  <1>3. AvailableModels(T) = {T.model} \cup ToSet(r)
                               \cup {ComplexityModels(r)[l] : l \in DOMAIN ComplexityModels(r)}
    BY <1>2 DEF AvailableModels
  <1> HIDE DEF T, r
  <1>4. CASE o # NoModel \/ S = {}
    <2>1. r = <<>>
      <3>1. o = NoModel => r \in Seq(S) /\ Len(r) = Cardinality(S)
        BY ColdStartRankList DEF r
      <3>2. S = {} => Cardinality(S) = 0
        BY FS_EmptySet
      <3> QED
        BY <1>4, <3>1, <3>2 DEF r
    <2>2. DOMAIN ComplexityModels(r) = {} /\ ToSet(r) = {}
      BY <2>1 DEF ComplexityModels, ToSet
    <2>3. M = {T.model}
      BY <1>2, <1>4
    <2>4. \A l \in 0..2 : ModelForComplexity(T, l) = T.model
      BY <1>2, <2>2 DEF ModelForComplexity
    <2>5. ~RanksBefore(T.model, T.model)
      BY <1>1, <2>3, RanksBeforeOrder
    <2> QED
      BY <1>1, <1>3, <2>2, <2>3, <2>4, <2>5 DEF T
  <1>5. CASE o = NoModel /\ S # {}
    <2>1. /\ r \in Seq(S) /\ Len(r) = Cardinality(S) /\ Cardinality(S) \in Nat
          /\ \A x \in S : \E i \in 1..Len(r) : r[i] = x
          /\ \A i, j \in 1..Len(r) : i <= j => ~RanksBefore(r[j], r[i])
      <3>1. r = ColdStartRank(S)
        BY <1>5 DEF r
      <3> QED
        BY <3>1, ColdStartRankList
    <2>2. Len(r) >= 1
      BY <1>5, <2>1, FS_EmptySet
    <2>3. ToSet(r) = S /\ M = S
      BY <1>5, <2>1 DEF ToSet
    <2>4. T.model = r[1] /\ r[1] \in S
      BY <1>2, <1>5, <2>1, <2>2
    <2>5. /\ \A l \in DOMAIN ComplexityModels(r) :
               \E i \in 1..Len(r) : ComplexityModels(r)[l] = r[i]
          /\ \A l \in 0..2 : ModelForComplexity(T, l) = r[LevelPlace(r, l)]
      BY <1>2, <2>1, <2>2, <2>4, LevelModels
    <2>6. /\ \A l \in 0..2 : LevelPlace(r, l) \in 1..Len(r)
          /\ \A l, k \in 0..2 : l < k => LevelPlace(r, l) <= LevelPlace(r, k)
      BY <2>1, <2>2, LevelPlaces
    <2>7. \A i \in 1..Len(r) : r[i] \in S
      BY <2>1
    <2>8. AvailableModels(T) = S
      BY <1>3, <2>3, <2>4, <2>5, <2>7
    <2>9. \A l \in 0..2 : ModelForComplexity(T, l) \in S
      BY <2>5, <2>6, <2>7
    <2>10. \A l, k \in 0..2 :
             l < k => ~RanksBefore(ModelForComplexity(T, k), ModelForComplexity(T, l))
      BY <2>1, <2>5, <2>6
    <2> QED
      BY <1>1, <2>3, <2>8, <2>9, <2>10 DEF T
  <1> QED
    BY <1>4, <1>5

LEMMA FirstOfList ==
  ASSUME NEW S, NEW s \in Seq(S), NEW n \in Nat
  PROVE  /\ FirstOf(n, s) \in Seq(S)
         /\ Len(FirstOf(n, s)) = IF Len(s) <= n THEN Len(s) ELSE n
         /\ \A i \in 1..Len(FirstOf(n, s)) : i <= Len(s) /\ FirstOf(n, s)[i] = s[i]
  BY DEF FirstOf

-----------------------------------------------------------------------------
(* A range divided by is positive. *)
LEMMA SpreadPositive ==
  ASSUME NEW S \in SUBSET Nat, IsFiniteSet(S), S # {}
  PROVE  Spread(S) \in Nat /\ Spread(S) >= 1
  <1>1. Max(S) \in Nat
    <2>1. S \in SUBSET Int
      OBVIOUS
    <2> QED
      BY <2>1, MaxProperty
  <1>2. Min(S) \in Nat
    BY MinProperty
  <1> QED
    BY <1>1, <1>2 DEF Spread

(* Products of numbers, as far as the scores need them. *)
LEMMA ProductMonotone ==
  ASSUME NEW a \in Int, NEW b \in Int, NEW c \in Int, a >= 0, b <= c
  PROVE  a * b \in Int /\ a * c \in Int /\ a * b <= a * c
  OBVIOUS

LEMMA ProductStrict ==
  ASSUME NEW a \in Int, NEW b \in Int, NEW c \in Int, a > 0, b < c
  PROVE  a * b < a * c
  OBVIOUS

LEMMA ProductPositive ==
  ASSUME NEW a \in Int, NEW b \in Int, a > 0, b > 0
  PROVE  a * b \in Int /\ a * b > 0
  OBVIOUS

-----------------------------------------------------------------------------
(* A weighed difference of quality and cost, with the ranges a and b, rises with
   quality and falls with cost. *)
LEMMA DifferenceMonotone ==
  ASSUME NEW w \in 30..90, NEW a \in Nat, NEW b \in Nat, a >= 1, b >= 1,
         NEW q \in Int, NEW r \in Int, NEW c \in Int, NEW d \in Int, q <= r, d <= c
  PROVE  /\ w * q * a - (100 - w) * c * b \in Int
         /\ w * q * a - (100 - w) * c * b <= w * r * a - (100 - w) * d * b
         /\ q < r \/ d < c =>
              w * q * a - (100 - w) * c * b < w * r * a - (100 - w) * d * b
  <1> DEFINE u == w * a
             v == (100 - w) * b
  <1>1. u \in Int /\ u > 0 /\ v \in Int /\ v > 0
    BY ProductPositive
  <1>2. /\ w * q * a = u * q /\ w * r * a = u * r
        /\ (100 - w) * c * b = v * c /\ (100 - w) * d * b = v * d
    OBVIOUS
  <1> HIDE DEF u, v
  <1>3. /\ u * q \in Int /\ u * r \in Int /\ u * q <= u * r
        /\ v * c \in Int /\ v * d \in Int /\ v * d <= v * c
    BY <1>1, ProductMonotone
  <1>4. (q < r => u * q < u * r) /\ (d < c => v * d < v * c)
    BY <1>1, ProductStrict
  <1> QED
    BY <1>2, <1>3, <1>4

(* What is assumed of the models that compete. *)
Competitors(P, T) ==
  /\ IsFiniteSet(T) /\ T # {}
  /\ \A m \in T : P[m].quality \in Nat /\ P[m].cost \in Nat /\ P[m].success \in MinSuccess..100

(* Of finitely many there are finitely many values. *)
LEMMA FiniteValues ==
  ASSUME NEW T, IsFiniteSet(T), NEW f \in [T -> Nat]
  PROVE  IsFiniteSet({f[m] : m \in T})
  <1>1. f \in Surjection(T, {f[m] : m \in T})
    BY DEF Surjection
  <1> QED
    BY <1>1, FS_Surjection

LEMMA RangesPositive ==
  ASSUME NEW P, NEW T, Competitors(P, T)
  PROVE  /\ Qualities(P, T) \in SUBSET Nat /\ Qualities(P, T) # {}
         /\ Costs(P, T) \in SUBSET Nat /\ Costs(P, T) # {}
         /\ Spread(Qualities(P, T)) \in Nat /\ Spread(Qualities(P, T)) >= 1
         /\ Spread(Costs(P, T)) \in Nat /\ Spread(Costs(P, T)) >= 1
         /\ Min(Qualities(P, T)) \in Nat /\ Min(Costs(P, T)) \in Nat
  <1> DEFINE q == [m \in T |-> P[m].quality]
             c == [m \in T |-> P[m].cost]
  <1>1. Qualities(P, T) \in SUBSET Nat /\ Qualities(P, T) # {}
    BY DEF Competitors, Qualities
  <1>2. Costs(P, T) \in SUBSET Nat /\ Costs(P, T) # {}
    BY DEF Competitors, Costs
  <1>3. IsFiniteSet(Qualities(P, T))
    <2>1. q \in [T -> Nat] /\ Qualities(P, T) = {q[m] : m \in T}
      BY DEF Competitors, Qualities
    <2> HIDE DEF q
    <2> QED
      BY <2>1, FiniteValues DEF Competitors
  <1>4. IsFiniteSet(Costs(P, T))
    <2>1. c \in [T -> Nat] /\ Costs(P, T) = {c[m] : m \in T}
      BY DEF Competitors, Costs
    <2> HIDE DEF c
    <2> QED
      BY <2>1, FiniteValues DEF Competitors
  <1>5. Min(Qualities(P, T)) \in Nat
    BY <1>1, MinProperty
  <1>6. Min(Costs(P, T)) \in Nat
    BY <1>2, MinProperty
  <1>7. Spread(Qualities(P, T)) \in Nat /\ Spread(Qualities(P, T)) >= 1
    BY <1>1, <1>3, SpreadPositive
  <1>8. Spread(Costs(P, T)) \in Nat /\ Spread(Costs(P, T)) >= 1
    BY <1>2, <1>4, SpreadPositive
  <1> QED
    BY <1>1, <1>2, <1>5, <1>6, <1>7, <1>8

(* Neither worse in quality nor in cost: the score is no lower, and higher when
   one of them is better. *)
LEMMA ParetoMonotone ==
  ASSUME NEW P, NEW T, Competitors(P, T), NEW x \in 0..10, NEW m \in T, NEW k \in T,
         P[m].quality >= P[k].quality, P[m].cost <= P[k].cost
  PROVE  /\ Pareto(P, T, x, m) \in Int /\ Pareto(P, T, x, k) \in Int
         /\ Pareto(P, T, x, k) <= Pareto(P, T, x, m)
         /\ P[m].quality > P[k].quality \/ P[m].cost < P[k].cost =>
              Pareto(P, T, x, k) < Pareto(P, T, x, m)
  <1> DEFINE w == 30 + 6 * x
             a == Spread(Costs(P, T))
             b == Spread(Qualities(P, T))
             q == Min(Qualities(P, T))
             c == Min(Costs(P, T))
             above(j) == P[j].quality - q
             over(j) == P[j].cost - c
             D(j) == w * above(j) * a - (100 - w) * over(j) * b
  <1>1. w \in 30..90
    OBVIOUS
  <1>2. a \in Nat /\ a >= 1 /\ b \in Nat /\ b >= 1 /\ q \in Nat /\ c \in Nat
    BY RangesPositive
  <1>3. \A j \in T : P[j].quality \in Nat /\ P[j].cost \in Nat
    BY DEF Competitors
  <1>4. \A j \in T : Pareto(P, T, x, j) = D(j) + b * a
    BY DEF Pareto
  <1>5. b * a \in Int
    BY <1>2, ProductPositive
  <1>6. /\ above(m) \in Int /\ above(k) \in Int /\ over(m) \in Int /\ over(k) \in Int
        /\ above(k) <= above(m) /\ over(m) <= over(k)
        /\ P[m].quality > P[k].quality => above(k) < above(m)
        /\ P[m].cost < P[k].cost => over(m) < over(k)
    BY <1>2, <1>3
  <1> HIDE DEF w, a, b, q, c, above, over
  <1>7. /\ D(k) \in Int /\ D(k) <= D(m)
        /\ P[m].quality > P[k].quality \/ P[m].cost < P[k].cost => D(k) < D(m)
    <2>1. /\ D(k) \in Int /\ D(k) <= D(m)
          /\ above(k) < above(m) \/ over(m) < over(k) => D(k) < D(m)
      BY <1>1, <1>2, <1>6, DifferenceMonotone
    <2> HIDE DEF D
    <2> QED
      BY <2>1, <1>6
  <1>8. D(m) \in Int
    BY <1>1, <1>2, <1>6, DifferenceMonotone
  <1> HIDE DEF D
  <1> QED
    BY <1>4, <1>5, <1>7, <1>8

(* The cheapest model has a positive score: nothing is taken off it, and every
   success adds a hundredth. *)
LEMMA SomePositive ==
  ASSUME NEW P, NEW T, Competitors(P, T), NEW x \in 0..10
  PROVE  \E m \in T : Pareto(P, T, x, m) > 0
  <1> DEFINE w == 30 + 6 * x
             a == Spread(Costs(P, T))
             b == Spread(Qualities(P, T))
             q == Min(Qualities(P, T))
             c == Min(Costs(P, T))
  <1>1. c \in Costs(P, T) /\ \A k \in T : q <= P[k].quality
    <2>1. c \in Costs(P, T) /\ \A y \in Qualities(P, T) : q <= y
      BY RangesPositive, MinProperty
    <2> QED
      BY <2>1 DEF Qualities
  <1>2. PICK m \in T : P[m].cost = c
    BY <1>1 DEF Costs
  <1>3. a \in Nat /\ a >= 1 /\ b \in Nat /\ b >= 1 /\ q \in Nat /\ c \in Nat
    BY RangesPositive
  <1>4. P[m].quality \in Nat /\ P[m].quality - q \in Nat /\ P[m].cost - c = 0
    BY <1>1, <1>2, <1>3 DEF Competitors
  <1>5. Pareto(P, T, x, m) = w * (P[m].quality - q) * a - (100 - w) * 0 * b + b * a
    BY <1>4 DEF Pareto
  <1>6. w * (P[m].quality - q) * a >= 0
    <2>1. w \in Nat
      OBVIOUS
    <2> HIDE DEF w, a, q
    <2>2. w * (P[m].quality - q) \in Nat
      BY <2>1, <1>4
    <2> QED
      BY <2>2, <1>3
  <1>7. b * a \in Int /\ b * a > 0
    BY <1>3, ProductPositive
  <1>8. (100 - w) * 0 * b = 0
    BY <1>3
  <1>9. w * (P[m].quality - q) * a \in Int
    BY <1>3, <1>4
  <1> HIDE DEF w, a, b, q, c
  <1> QED
    BY <1>5, <1>6, <1>7, <1>8, <1>9

(* Weighing keeps the sign, and a higher success rate raises a positive score. *)
LEMMA WeighedOrder ==
  ASSUME NEW s \in 50..100, NEW r \in 50..100, NEW d \in Int, NEW e \in Int,
         d <= e, s <= r, d > 0
  PROVE  /\ d * s \in Int /\ e * r \in Int /\ d * s <= e * r
         /\ d < e \/ s < r => d * s < e * r
  <1>1. s * d <= s * e /\ (d < e => s * d < s * e)
    BY ProductMonotone, ProductStrict
  <1>2. e * s <= e * r /\ (s < r => e * s < e * r)
    BY ProductMonotone, ProductStrict
  <1>3. s * d = d * s /\ s * e = e * s /\ d * s \in Int /\ e * r \in Int /\ e * s \in Int
    OBVIOUS
  <1> QED
    BY <1>1, <1>2, <1>3

LEMMA WeighedSign ==
  ASSUME NEW s \in 50..100, NEW d \in Int
  PROVE  d * s \in Int /\ (d > 0 <=> d * s > 0)
  OBVIOUS

LEMMA FitnessType ==
  ASSUME NEW P, NEW T, Competitors(P, T), NEW x \in 0..10, NEW m \in T
  PROVE  /\ Pareto(P, T, x, m) \in Int /\ Fitness(P, T, x, m) \in Int
         /\ Fitness(P, T, x, m) > 0 <=> Pareto(P, T, x, m) > 0
  <1>1. Pareto(P, T, x, m) \in Int
    <2>1. P[m].quality \in Nat /\ P[m].cost \in Nat
      BY DEF Competitors
    <2> QED
      BY <2>1, ParetoMonotone
  <1>2. P[m].success \in 50..100
    BY DEF Competitors, MinSuccess
  <1> QED
    BY <1>1, <1>2, WeighedSign DEF Fitness, Weighed

=============================================================================
