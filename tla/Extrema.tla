------------------------------ MODULE Extrema ------------------------------
(***************************************************************************)
(* Least and greatest elements of sets of numbers: Min and Max of          *)
(* FiniteSetsExt, for sets that need not be finite.  The elements of a     *)
(* finite set of positions counted from the front.                         *)
(***************************************************************************)
EXTENDS Integers, FiniteSets, FiniteSetsExt, FiniteSetTheorems, WellFoundedInduction, TLAPS

\* A set of naturals has a least element, by well-foundedness.
LEMMA LeastNat ==
  ASSUME NEW S, S \subseteq Nat, S # {}
  PROVE  Min(S) \in S /\ \A y \in S : Min(S) <= y
<1>1. PICK x \in S : \A y \in S : ~ (<<y, x>> \in OpToRel(<, Nat))
  BY NatLessThanWellFounded, WFMin
<1>2. ASSUME NEW y \in S PROVE x <= y
  <2>1. x \in Nat /\ y \in Nat
    OBVIOUS
  <2>2. CASE y < x
    <3>1. <<y, x>> \in OpToRel(<, Nat)
      BY <2>1, <2>2 DEF OpToRel
    <3> QED BY <3>1, <1>1
  <2>3. CASE ~ (y < x)
    BY <2>1, <2>3
  <2> QED BY <2>2, <2>3
<1> QED BY <1>2 DEF Min

\* A set of integers bounded above has a greatest: the least distance to the
\* bound.
LEMMA GreatestInt ==
  ASSUME NEW S, NEW n \in Int, S \subseteq Int, S # {}, \A x \in S : x <= n
  PROVE  Max(S) \in S /\ \A y \in S : y <= Max(S)
<1> DEFINE T == {n - x : x \in S}
<1>1. T \subseteq Nat
  OBVIOUS
<1>2. T # {}
  <2>1. PICK x \in S : TRUE
    OBVIOUS
  <2>2. n - x \in T
    BY <2>1
  <2> QED BY <2>2
<1>3. Min(T) \in T /\ \A y \in T : Min(T) <= y
  <2> HIDE DEF T
  <2> QED BY <1>1, <1>2, LeastNat
<1>4. PICK m \in S : Min(T) = n - m
  BY <1>3
<1>5. ASSUME NEW y \in S PROVE y <= m
  <2>1. n - y \in T
    OBVIOUS
  <2>2. n - m <= n - y
    BY <1>3, <1>4, <2>1
  <2> QED BY <2>2
<1> QED BY <1>5 DEF Max

-----------------------------------------------------------------------------
\* How far i is from the front of the positions at.
PlaceIn(at, i) == Cardinality({j \in at : j <= i})

\* Of the positions at there is a k-th from the front, for each k.
LEMMA Nth ==
  ASSUME NEW n \in Nat, NEW at, at \subseteq 1 .. n, NEW k \in 1 .. Cardinality(at)
  PROVE  /\ Cardinality(at) \in Nat
         /\ \E i \in at : PlaceIn(at, i) = k
<1> DEFINE upTo(i) == {j \in at : j <= i}
           Far == {i \in 0 .. n : Cardinality(upTo(i)) >= k}
<1>0. \A j \in at : j \in Int /\ 1 <= j /\ j <= n
  OBVIOUS
<1>1. IsFiniteSet(at) /\ Cardinality(at) \in Nat
  <2>1. IsFiniteSet(1 .. n)
    BY FS_Interval
  <2> QED BY <2>1, FS_Subset, FS_CardinalityType
<1>2. \A i \in Int : IsFiniteSet(upTo(i)) /\ Cardinality(upTo(i)) \in Nat
  <2> SUFFICES ASSUME NEW i \in Int PROVE IsFiniteSet(upTo(i)) /\ Cardinality(upTo(i)) \in Nat
    OBVIOUS
  <2>1. upTo(i) \subseteq at
    OBVIOUS
  <2> QED BY <1>1, <2>1, FS_Subset, FS_CardinalityType
<1>3. upTo(n) = at
  <2>1. \A j : j \in upTo(n) <=> j \in at
    BY <1>0
  <2> QED BY <2>1
<1>4. n \in Far
  BY <1>1, <1>3
<1>5. PICK i \in Far : \A j \in Far : i <= j
  <2>1. Far \subseteq Nat
    OBVIOUS
  <2> HIDE DEF Far
  <2> QED BY <1>4, <2>1, LeastNat
<1>6. i # 0
  <2>1. upTo(0) = {}
    <3>1. \A j \in at : ~ (j <= 0)
      BY <1>0
    <3> QED BY <3>1
  <2>2. Cardinality(upTo(0)) = 0
    BY <2>1, FS_EmptySet
  <2> QED BY <1>5, <2>2
<1>7. i - 1 \in 0 .. n /\ ~ (i <= i - 1) /\ i \in Int
  BY <1>5, <1>6
<1>8. ~ (Cardinality(upTo(i - 1)) >= k)
  BY <1>5, <1>7
<1> DEFINE h == i - 1
<1>a. \A j \in at : j <= i <=> j <= h \/ j = i
  BY <1>0, <1>7
<1>b. ~ (i <= h)
  BY <1>7
<1> HIDE DEF h
<1>9. i \in at
  <2> SUFFICES ASSUME i \notin at PROVE FALSE
    OBVIOUS
  <2>1. \A j : j \in upTo(i) <=> j \in upTo(h)
    BY <1>a
  <2>2. upTo(i) = upTo(h)
    BY <2>1
  <2> QED BY <1>5, <1>8, <2>2 DEF h
<1>10. upTo(i) = upTo(i - 1) \cup {i} /\ i \notin upTo(i - 1)
  <2>1. \A j : j \in upTo(i) <=> j \in upTo(h) \cup {i}
    BY <1>a, <1>9
  <2>2. i \notin upTo(h)
    BY <1>b
  <2>3. upTo(i) = upTo(h) \cup {i}
    BY <2>1
  <2> QED BY <2>2, <2>3 DEF h
<1>11. IsFiniteSet(upTo(i - 1)) /\ Cardinality(upTo(i - 1)) \in Nat
  <2>1. h \in Int
    BY <1>7 DEF h
  <2>2. IsFiniteSet(upTo(h)) /\ Cardinality(upTo(h)) \in Nat
    BY <1>2, <2>1
  <2> QED BY <2>2 DEF h
<1> DEFINE a == upTo(i)
           b == upTo(i - 1)
<1> HIDE DEF a, b
<1>12. Cardinality(a) = Cardinality(b) + 1
  <2>1. a = b \cup {i} /\ i \notin b /\ IsFiniteSet(b)
    BY <1>10, <1>11 DEF a, b
  <2> QED BY <2>1, FS_AddElement
<1>13. Cardinality(a) >= k /\ ~ (Cardinality(b) >= k) /\ Cardinality(b) \in Nat
  BY <1>5, <1>8, <1>11 DEF a, b
<1>14. Cardinality(a) = k
  BY <1>12, <1>13
<1>15. PlaceIn(at, i) = k
  BY <1>14 DEF a, PlaceIn
<1> QED BY <1>1, <1>9, <1>15

\* Counting from the front tells positions apart.
LEMMA NthOnly ==
  ASSUME NEW n \in Nat, NEW at, at \subseteq 1 .. n, NEW i \in at, NEW k \in at,
         PlaceIn(at, i) = PlaceIn(at, k)
  PROVE  i = k
<1> DEFINE upTo(m) == {j \in at : j <= m}
<1>1. \A j \in at : j \in Int
  OBVIOUS
<1>2. IsFiniteSet(at)
  <2>1. IsFiniteSet(1 .. n)
    BY FS_Interval
  <2> QED BY <2>1, FS_Subset
<1>3. ASSUME NEW a \in at, NEW b \in at, a <= b, Cardinality(upTo(a)) = Cardinality(upTo(b))
      PROVE  b <= a
  <2>1. upTo(a) \subseteq upTo(b)
    <3>1. a \in Int /\ b \in Int
      BY <1>1
    <3>2. ASSUME NEW j \in at, j <= a PROVE j <= b
      <4>1. j \in Int
        BY <1>1
      <4> QED BY <1>3, <3>1, <3>2, <4>1
    <3> QED BY <3>2
  <2>2. upTo(b) \subseteq at /\ b \in upTo(b)
    BY <1>1
  <2>3. IsFiniteSet(upTo(b))
    BY <1>2, <2>2, FS_Subset
  <2> DEFINE A == upTo(a)
             B == upTo(b)
  <2> HIDE DEF A, B
  <2>4. A = B
    <3>1. A \subseteq B /\ IsFiniteSet(B) /\ Cardinality(A) = Cardinality(B)
      BY <1>3, <2>1, <2>3 DEF A, B
    <3> QED BY <3>1, FS_Subset
  <2> QED BY <2>2, <2>4 DEF A, B
<1>4. i <= k \/ k <= i
  BY <1>1
<1>5. Cardinality(upTo(i)) = Cardinality(upTo(k))
  BY DEF PlaceIn
<1> HIDE DEF upTo
<1>6. i <= k /\ k <= i
  BY <1>3, <1>4, <1>5
<1> QED BY <1>1, <1>6

\* An element is counted from 1 to the number of them.
LEMMA NthWithin ==
  ASSUME NEW n \in Nat, NEW at, at \subseteq 1 .. n
  PROVE  /\ Cardinality(at) \in Nat
         /\ \A i \in at : PlaceIn(at, i) \in 1 .. Cardinality(at)
<1>1. IsFiniteSet(at) /\ Cardinality(at) \in Nat
  <2>1. IsFiniteSet(1 .. n)
    BY FS_Interval
  <2> QED BY <2>1, FS_Subset, FS_CardinalityType
<1>2. ASSUME NEW i \in at PROVE PlaceIn(at, i) \in 1 .. Cardinality(at)
  <2> DEFINE A == {j \in at : j <= i}
  <2>1. A \subseteq at /\ i \in A
    OBVIOUS
  <2> HIDE DEF A
  <2>2. IsFiniteSet(A) /\ Cardinality(A) \in Nat /\ Cardinality(A) <= Cardinality(at)
    BY <1>1, <2>1, FS_Subset, FS_CardinalityType
  <2>3. Cardinality(A) # 0
    BY <2>1, <2>2, FS_EmptySet
  <2>4. Cardinality(A) \in 1 .. Cardinality(at)
    BY <1>1, <2>2, <2>3
  <2> QED BY <2>4 DEF A, PlaceIn
<1> QED BY <1>1, <1>2
=============================================================================
