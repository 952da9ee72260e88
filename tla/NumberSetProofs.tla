-------------------------- MODULE NumberSetProofs --------------------------
(* Facts about sets of numbers that the proofs of several components need:   *)
(* a least element, the place of an element, and what InOrder becomes when   *)
(* a set grows at its end or loses its first element.                        *)
EXTENDS NumberSets, Integers, FiniteSetTheorems, WellFoundedInduction, TLAPS

(* A set of natural numbers that is not empty has a least element.           *)
LEMMA LeastOf ==
  ASSUME NEW K \in SUBSET Nat, K # {}
  PROVE  \E m \in K : \A i \in K : m <= i
<1> DEFINE R == OpToRel(<, Nat)
<1>1. IsWellFoundedOn(R, Nat)
  BY NatLessThanWellFounded
<1>2. \A x, y \in Nat : x < y => <<x, y>> \in R
  BY DEF OpToRel
<1> HIDE DEF R
<1>3. PICK m \in K : \A i \in K : ~(<<i, m>> \in R)
  BY <1>1, WFMin
<1>4. m \in Nat /\ \A i \in K : i \in Nat
  OBVIOUS
<1>5. ASSUME NEW i \in K
      PROVE  m <= i
  <2>1. i \in Nat /\ ~(<<i, m>> \in R)
    BY <1>3
  <2>2. ~(i < m)
    BY <1>2, <1>4, <2>1
  <2> QED
    BY <1>4, <2>1, <2>2
<1> QED
  BY <1>5

(* The next element of the set has one element more below it.                *)
LEMMA BelowNext ==
  ASSUME NEW K \in SUBSET Nat, IsFiniteSet(K), NEW j \in K, NEW m \in K, j < m,
         \A i \in K : i <= j \/ i >= m
  PROVE  Cardinality(BelowIn(K, m)) = Cardinality(BelowIn(K, j)) + 1
<1>0. j \in Nat /\ m \in Nat /\ \A i \in K : i \in Nat
  OBVIOUS
<1>b. ASSUME NEW i \in K
      PROVE  i < m <=> i < j \/ i = j
  <2>1. i \in Nat /\ (i <= j \/ i >= m)
    OBVIOUS
  <2> QED
    BY <1>0, <2>1
<1>1. BelowIn(K, m) = BelowIn(K, j) \cup {j}
  BY <1>b DEF BelowIn
<1>2. IsFiniteSet(BelowIn(K, j)) /\ j \notin BelowIn(K, j)
  BY FS_Subset DEF BelowIn
<1> QED
  BY <1>1, <1>2, FS_AddElement

(* A greater element has more elements below it.                             *)
LEMMA BelowMonotone ==
  ASSUME NEW K \in SUBSET Nat, IsFiniteSet(K), NEW j \in K, NEW m \in K, j < m
  PROVE  /\ Cardinality(BelowIn(K, j)) \in Nat /\ Cardinality(BelowIn(K, m)) \in Nat
         /\ Cardinality(BelowIn(K, j)) < Cardinality(BelowIn(K, m))
<1>0. j \in Nat /\ m \in Nat /\ \A i \in K : i \in Nat
  OBVIOUS
<1>1. IsFiniteSet(BelowIn(K, j)) /\ IsFiniteSet(BelowIn(K, m))
  BY FS_Subset DEF BelowIn
<1>2. BelowIn(K, j) \subseteq BelowIn(K, m) /\ j \in BelowIn(K, m) /\ j \notin BelowIn(K, j)
  <2>1. ASSUME NEW i \in K, i < j
        PROVE  i < m
    <3>1. i \in Nat
      OBVIOUS
    <3> QED
      BY <1>0, <2>1, <3>1
  <2>2. ~(j < j)
    BY <1>0
  <2> QED
    BY <2>1, <2>2 DEF BelowIn
<1>3. Cardinality(BelowIn(K, j)) \in Nat /\ Cardinality(BelowIn(K, m)) \in Nat
  BY <1>1, FS_CardinalityType
<1>4. Cardinality(BelowIn(K, j)) <= Cardinality(BelowIn(K, m))
      /\ Cardinality(BelowIn(K, j)) # Cardinality(BelowIn(K, m))
  BY <1>1, <1>2, FS_Subset
<1> QED
  BY <1>3, <1>4

(* Every place from 1 to the size of the set is that of some element.        *)
LEMMA EveryPlace ==
  ASSUME NEW K \in SUBSET Nat, IsFiniteSet(K), NEW n \in 1 .. Cardinality(K)
  PROVE  \E j \in K : Cardinality(BelowIn(K, j)) = n - 1
<1> DEFINE Bad == {k \in 1 .. Cardinality(K) :
                     ~(\E j \in K : Cardinality(BelowIn(K, j)) = k - 1)}
<1>0. Cardinality(K) \in Nat
  BY FS_CardinalityType
<1>n. \A i \in K : i \in Nat
  OBVIOUS
<1> SUFFICES ASSUME Bad # {}
             PROVE  FALSE
  OBVIOUS
<1>1. PICK b \in Bad : \A k \in Bad : b <= k
  <2>1. Bad \in SUBSET Nat
    BY <1>0
  <2> QED
    BY <2>1, LeastOf
<1>2. b \in 1 .. Cardinality(K) /\ ~(\E j \in K : Cardinality(BelowIn(K, j)) = b - 1)
  OBVIOUS
<1>3. CASE b = 1
  <2>1. K # {}
    BY <1>0, <1>2, FS_EmptySet
  <2>2. PICK m \in K : \A i \in K : m <= i
    BY <2>1, LeastOf
  <2>3. BelowIn(K, m) = {}
    <3>1. ASSUME NEW i \in K
          PROVE  ~(i < m)
      <4>1. i \in Nat /\ m \in Nat /\ m <= i
        BY <2>2
      <4> QED
        BY <4>1
    <3> QED
      BY <3>1 DEF BelowIn
  <2>4. Cardinality(BelowIn(K, m)) = b - 1
    BY <1>3, <2>3, FS_EmptySet
  <2> QED
    BY <1>2, <2>2, <2>4
<1>4. CASE b > 1
  <2>1. b - 1 \in 1 .. Cardinality(K) /\ b - 1 \notin Bad
    BY <1>0, <1>1, <1>2, <1>4
  <2>2. PICK j \in K : Cardinality(BelowIn(K, j)) = b - 2
    BY <2>1, <1>0, <1>2
  <2> DEFINE A == {i \in K : i > j}
  <2>3. CASE A = {}
    <3>0. ASSUME NEW i \in K
          PROVE  i < j \/ i = j
      <4>1. i \in Nat /\ j \in Nat /\ ~(i > j)
        BY <2>3
      <4> QED
        BY <4>1
    <3>1. K = BelowIn(K, j) \cup {j}
      BY <3>0 DEF BelowIn
    <3>2. IsFiniteSet(BelowIn(K, j)) /\ j \notin BelowIn(K, j)
      BY FS_Subset DEF BelowIn
    <3>3. Cardinality(K) = b - 1
      BY <2>2, <3>1, <3>2, <1>2, <1>0, FS_AddElement
    <3> QED
      BY <3>3, <1>0, <1>2
  <2>4. CASE A # {}
    <3>1. PICK m \in A : \A i \in A : m <= i
      <4>1. A \in SUBSET Nat
        OBVIOUS
      <4> QED
        BY <2>4, <4>1, LeastOf
    <3>2. \A i \in K : i <= j \/ i >= m
      BY <3>1
    <3>3. Cardinality(BelowIn(K, m)) = b - 1
      BY <2>2, <3>1, <3>2, <1>0, <1>2, BelowNext
    <3> QED
      BY <3>3, <1>2, <3>1
  <2> QED
    BY <2>3, <2>4
<1> QED
  BY <1>0, <1>2, <1>3, <1>4

-----------------------------------------------------------------------------
(* The elements in ascending order.                                          *)

(* InOrder lists the elements of the set by their place.                     *)
LEMMA InOrderFacts ==
  ASSUME NEW K \in SUBSET Nat, IsFiniteSet(K)
  PROVE  /\ Cardinality(K) \in Nat
         /\ InOrder(K) \in [1 .. Cardinality(K) -> K]
         /\ \A k \in 1 .. Cardinality(K) :
              Cardinality(BelowIn(K, InOrder(K)[k])) = k - 1
<1> DEFINE n == Cardinality(K)
           Place(k) == CHOOSE j \in K : Cardinality(BelowIn(K, j)) = k - 1
<1>1. n \in Nat
  BY FS_CardinalityType
<1>2. ASSUME NEW k \in 1 .. n
      PROVE  Place(k) \in K /\ Cardinality(BelowIn(K, Place(k))) = k - 1
  <2>1. \E j \in K : Cardinality(BelowIn(K, j)) = k - 1
    BY EveryPlace
  <2> QED
    BY <2>1
<1>3. InOrder(K) = [k \in 1 .. n |-> Place(k)]
  BY DEF InOrder
<1> HIDE DEF Place, n
<1>4. InOrder(K) \in [1 .. n -> K] /\ \A k \in 1 .. n : InOrder(K)[k] = Place(k)
  BY <1>2, <1>3
<1>5. \A k \in 1 .. n : Cardinality(BelowIn(K, InOrder(K)[k])) = k - 1
  BY <1>2, <1>4
<1> QED
  BY <1>1, <1>4, <1>5 DEF n

(* They ascend.                                                              *)
LEMMA InOrderAscends ==
  ASSUME NEW K \in SUBSET Nat, IsFiniteSet(K),
         NEW i \in 1 .. Cardinality(K), NEW j \in 1 .. Cardinality(K), i < j
  PROVE  InOrder(K)[i] < InOrder(K)[j]
<1> DEFINE f == InOrder(K)
<1>1. /\ Cardinality(K) \in Nat /\ f[i] \in K /\ f[j] \in K
      /\ Cardinality(BelowIn(K, f[i])) = i - 1
      /\ Cardinality(BelowIn(K, f[j])) = j - 1
  BY InOrderFacts
<1> HIDE DEF f
<1>2. f[i] \in Nat /\ f[j] \in Nat /\ i \in Nat /\ j \in Nat
  <2>1. f[i] \in Nat /\ f[j] \in Nat
    BY <1>1
  <2>2. i \in Nat /\ j \in Nat
    OBVIOUS
  <2> QED
    BY <2>1, <2>2
<1>3. f[i] # f[j]
  BY <1>1, <1>2
<1>4. ~(f[j] < f[i])
  <2> SUFFICES ASSUME f[j] < f[i]
               PROVE  FALSE
    OBVIOUS
  <2>1. j - 1 < i - 1
    BY <1>1, BelowMonotone
  <2> QED
    BY <1>2, <2>1
<1>5. f[i] < f[j]
  BY <1>2, <1>3, <1>4
<1> QED
  BY <1>5 DEF f

(* An element stands behind those below it, and only there.                  *)
LEMMA PlaceOf ==
  ASSUME NEW K \in SUBSET Nat, IsFiniteSet(K), NEW j \in K
  PROVE  /\ Cardinality(BelowIn(K, j)) \in Nat
         /\ Cardinality(BelowIn(K, j)) + 1 \in 1 .. Cardinality(K)
         /\ InOrder(K)[Cardinality(BelowIn(K, j)) + 1] = j
<1> DEFINE k == Cardinality(BelowIn(K, j)) + 1
           x == InOrder(K)[k]
<1>1. IsFiniteSet(BelowIn(K, j)) /\ BelowIn(K, j) \subseteq K /\ j \notin BelowIn(K, j)
  BY FS_Subset DEF BelowIn
<1>2. /\ Cardinality(K) \in Nat /\ Cardinality(BelowIn(K, j)) \in Nat
      /\ Cardinality(BelowIn(K, j)) <= Cardinality(K)
      /\ Cardinality(BelowIn(K, j)) # Cardinality(K)
  BY <1>1, FS_Subset, FS_CardinalityType
<1>3. k \in 1 .. Cardinality(K)
  BY <1>2
<1>4. x \in K /\ Cardinality(BelowIn(K, x)) = k - 1
  BY <1>3, InOrderFacts
<1> HIDE DEF x
<1>5. x \in Nat /\ j \in Nat /\ Cardinality(BelowIn(K, x)) = Cardinality(BelowIn(K, j))
  BY <1>2, <1>4
<1>6. ~(x < j)
  BY <1>2, <1>4, <1>5, BelowMonotone
<1>7. ~(j < x)
  BY <1>2, <1>4, <1>5, BelowMonotone
<1>8. x = j
  BY <1>5, <1>6, <1>7
<1> QED
  BY <1>2, <1>3, <1>8 DEF x

(* A greater element goes to the end.                                        *)
LEMMA InOrderAdd ==
  ASSUME NEW K \in SUBSET Nat, IsFiniteSet(K), NEW x \in Nat, \A i \in K : i < x
  PROVE  /\ Cardinality(K \cup {x}) = Cardinality(K) + 1
         /\ \A k \in 1 .. Cardinality(K) : InOrder(K \cup {x})[k] = InOrder(K)[k]
         /\ InOrder(K \cup {x})[Cardinality(K) + 1] = x
<1> DEFINE L == K \cup {x}
<1>1. L \in SUBSET Nat /\ IsFiniteSet(L) /\ x \in L
  BY FS_AddElement
<1>2. x \notin K /\ Cardinality(L) = Cardinality(K) + 1
  <2>1. ~(x < x)
    OBVIOUS
  <2> QED
    BY <2>1, FS_AddElement
<1>3. ASSUME NEW k \in 1 .. Cardinality(K)
      PROVE  InOrder(L)[k] = InOrder(K)[k]
  <2> DEFINE j == InOrder(K)[k]
  <2>1. j \in K /\ Cardinality(BelowIn(K, j)) = k - 1 /\ Cardinality(K) \in Nat
    BY InOrderFacts
  <2> HIDE DEF j
  <2>2. ~(x < j)
    BY <2>1
  <2>3. BelowIn(L, j) = BelowIn(K, j)
    BY <2>2 DEF BelowIn
  <2>4. InOrder(L)[Cardinality(BelowIn(L, j)) + 1] = j
    BY <1>1, <2>1, PlaceOf
  <2>5. Cardinality(BelowIn(L, j)) + 1 = k
    BY <2>1, <2>3
  <2> QED
    BY <2>4, <2>5 DEF j
<1>4. BelowIn(L, x) = K
  <2>1. ~(x < x)
    OBVIOUS
  <2> QED
    BY <2>1 DEF BelowIn
<1>5. InOrder(L)[Cardinality(BelowIn(L, x)) + 1] = x
  BY <1>1, PlaceOf
<1> HIDE DEF L
<1> QED
  BY <1>2, <1>3, <1>4, <1>5 DEF L

(* Moving all elements down by the same number keeps their number.           *)
LEMMA ShiftedSet ==
  ASSUME NEW S \in SUBSET Int, IsFiniteSet(S), NEW d \in Int
  PROVE  /\ IsFiniteSet({i - d : i \in S})
         /\ Cardinality({i - d : i \in S}) = Cardinality(S)
<1> DEFINE T == {i - d : i \in S}
           f == [i \in S |-> i - d]
<1>1. f \in Bijection(S, T)
  <2>1. f \in [S -> T]
    OBVIOUS
  <2>2. \A i, j \in S : f[i] = f[j] => i = j
    <3> SUFFICES ASSUME NEW i \in S, NEW j \in S, i - d = j - d
                 PROVE  i = j
      OBVIOUS
    <3>1. i \in Int /\ j \in Int
      OBVIOUS
    <3> QED
      BY <3>1
  <2>3. \A t \in T : \E i \in S : f[i] = t
    OBVIOUS
  <2> HIDE DEF f, T
  <2> QED
    BY <2>1, <2>2, <2>3 DEF Bijection, Injection, Surjection, IsInjective
<1> HIDE DEF f, T
<1>2. ExistsBijection(S, T)
  BY <1>1 DEF ExistsBijection
<1>3. IsFiniteSet(T) /\ Cardinality(T) = Cardinality(S)
  BY <1>2, FS_Bijection
<1> QED
  BY <1>3 DEF T

(* Without its least element, and moved down, the rest keeps its order.      *)
LEMMA InOrderRest ==
  ASSUME NEW K \in SUBSET Nat, IsFiniteSet(K), NEW m \in K, \A i \in K : m <= i,
         NEW d \in Nat, \A i \in K \ {m} : i >= d
  PROVE  LET L == {i - d : i \in K \ {m}}
         IN  /\ L \in SUBSET Nat /\ IsFiniteSet(L)
             /\ Cardinality(L) = Cardinality(K) - 1
             /\ \A k \in 1 .. Cardinality(L) : InOrder(L)[k] = InOrder(K)[k + 1] - d
<1> DEFINE R == K \ {m}
           L == {i - d : i \in R}
<1>0. m \in Nat /\ R \in SUBSET Nat /\ \A i \in R : i \in Nat /\ i - d \in Nat /\ m < i
  OBVIOUS
<1>1. /\ IsFiniteSet(R) /\ Cardinality(R) = Cardinality(K) - 1
      /\ Cardinality(K) \in Nat /\ Cardinality(R) \in Nat
  BY FS_RemoveElement, FS_CardinalityType
<1>2. L \in SUBSET Nat
  BY <1>0
<1>3. IsFiniteSet(L) /\ Cardinality(L) = Cardinality(R)
  <2>1. R \in SUBSET Int /\ d \in Int
    BY <1>0
  <2> HIDE DEF R
  <2>2. IsFiniteSet({i - d : i \in R}) /\ Cardinality({i - d : i \in R}) = Cardinality(R)
    BY <1>1, <2>1, ShiftedSet
  <2> QED
    BY <2>2
<1>4. ASSUME NEW k \in 1 .. Cardinality(L)
      PROVE  InOrder(L)[k] = InOrder(K)[k + 1] - d
  <2> DEFINE j == InOrder(K)[k + 1]
  <2>1. j \in K /\ Cardinality(BelowIn(K, j)) = k
    <3>1. k + 1 \in 1 .. Cardinality(K) /\ k \in Nat
      BY <1>1, <1>3
    <3> QED
      BY <3>1, InOrderFacts
  <2> HIDE DEF j
  <2>2. j \in R
    <3> SUFFICES ASSUME j = m
                 PROVE  FALSE
      BY <2>1
    <3>1. \A i \in K : ~(i < m)
      BY <1>0
    <3>2. BelowIn(K, j) = {}
      BY <3>1 DEF BelowIn
    <3> QED
      BY <2>1, <3>2, FS_EmptySet
  <2>3. j \in Nat /\ j - d \in L /\ m < j
    BY <1>0, <2>2
  <2> DEFINE B == {i \in R : i < j}
  <2>4. BelowIn(K, j) = B \cup {m} /\ m \notin B
    BY <1>0, <2>3 DEF BelowIn
  <2>5. IsFiniteSet(B) /\ Cardinality(B) = k - 1
    <3>1. IsFiniteSet(B)
      BY <1>1, FS_Subset
    <3>2. Cardinality(BelowIn(K, j)) = Cardinality(B) + 1 /\ Cardinality(B) \in Nat
      BY <2>4, <3>1, FS_AddElement, FS_CardinalityType
    <3> QED
      BY <2>1, <3>1, <3>2
  <2>6. BelowIn(L, j - d) = {i - d : i \in B}
    <3>1. \A i \in R : i - d < j - d <=> i < j
      BY <1>0, <2>3
    <3> QED
      BY <3>1 DEF BelowIn
  <2>7. Cardinality(BelowIn(L, j - d)) = k - 1
    <3>1. B \in SUBSET Int /\ d \in Int
      BY <1>0
    <3> HIDE DEF B
    <3>2. Cardinality({i - d : i \in B}) = Cardinality(B)
      BY <2>5, <3>1, ShiftedSet
    <3> QED
      BY <2>5, <2>6, <3>2
  <2>8. InOrder(L)[Cardinality(BelowIn(L, j - d)) + 1] = j - d
    BY <1>2, <1>3, <2>3, PlaceOf
  <2> QED
    BY <1>1, <1>3, <2>7, <2>8 DEF j
<1> HIDE DEF L
<1> QED
  BY <1>1, <1>2, <1>3, <1>4 DEF L
=============================================================================
