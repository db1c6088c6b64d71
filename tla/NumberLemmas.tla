----------------------------- MODULE NumberLemmas -----------------------------
(***************************************************************************)
(* Facts about natural numbers, quotients and remainders that several      *)
(* proofs rest on.                                                         *)
(***************************************************************************)
EXTENDS Integers, FiniteSetTheorems, FunctionTheorems, WellFoundedInduction, TLAPS

(* A set of naturals has a least element: what induction over data rests on. *)
LEMMA LeastNatural ==
  ASSUME NEW T \in SUBSET Nat, T # {}
  PROVE  \E x \in T : \A y \in T : x <= y
<1> DEFINE Below(n) == 0..(n - 1)
           I == {Below(n) : n \in T}
<1>1. I \in SUBSET FiniteSubsetsOf(Nat) /\ I # {}
  <2>1. ASSUME NEW n \in T
        PROVE  Below(n) \in SUBSET Nat /\ IsFiniteSet(Below(n))
    BY FS_Interval
  <2> QED
    BY <2>1 DEF FiniteSubsetsOf
<1> HIDE DEF I
<1>2. PICK b \in I : \A c \in I : <<c, b>> \notin StrictSubsetOrdering(Nat)
  BY <1>1, FS_StrictSubsetOrderingWellFounded, WFMin
<1>3. PICK x \in T : b = Below(x)
  BY <1>2 DEF I
<1>4. ASSUME NEW y \in T, y < x
      PROVE  FALSE
  <2>1. Below(y) \subseteq Below(x) /\ Below(y) # Below(x)
    <3>1. y \in Below(x) /\ y \notin Below(y)
      BY <1>4
    <3> QED
      BY <1>4, <3>1
  <2>2. Below(y) \in I /\ Below(x) \in SUBSET Nat /\ Below(y) \in SUBSET Nat
    BY DEF I
  <2> HIDE DEF Below
  <2>3. <<Below(y), Below(x)>> \in StrictSubsetOrdering(Nat)
    BY <2>1, <2>2 DEF StrictSubsetOrdering
  <2> QED
    BY <1>2, <1>3, <2>2, <2>3
<1>5. \A y \in T : x <= y
  BY <1>4
<1> QED
  BY <1>5

(* A number is its quotient times the divisor and a remainder below it, and  *)
(* there is no other way to write it so.                                     *)
LEMMA QuotientAndRemainder ==
  ASSUME NEW a \in Int, NEW m \in Nat, m > 0
  PROVE  a \div m \in Int /\ a % m \in 0..(m - 1) /\ a = m * (a \div m) + (a % m)
OBVIOUS

(* The quotient and the remainder of a number written so.                    *)
LEMMA QuotientIsUnique ==
  ASSUME NEW m \in Nat, m > 0, NEW q \in Int, NEW s \in 0..(m - 1)
  PROVE  (m * q + s) \div m = q /\ (m * q + s) % m = s
<1> DEFINE a == m * q + s
           p == a \div m
           t == a % m
<1>1. a \in Int /\ p \in Int /\ t \in 0..(m - 1) /\ a = m * p + t
  BY QuotientAndRemainder
<1>2. m * q + s = m * p + t
  BY <1>1
<1> HIDE DEF a, p, t
<1>3. m * (q - p) = t - s
  BY <1>1, <1>2
<1>4. q - p = 0
  <2>1. CASE q - p >= 1
    <3>1. m * (q - p) >= m
      BY <1>1, <2>1
    <3> QED
      BY <1>1, <1>3, <3>1
  <2>2. CASE q - p <= -1
    <3>1. m * (q - p) <= -m
      BY <1>1, <2>2
    <3> QED
      BY <1>1, <1>3, <3>1
  <2> QED
    BY <1>1, <2>1, <2>2
<1>5. p = q /\ t = s
  BY <1>1, <1>3, <1>4
<1> QED
  BY <1>5 DEF a, p, t


-----------------------------------------------------------------------------
(* Sets of integers in ascending order.                                      *)

(* A sequence that ascends from each place to every later one.               *)
IsAscending(s) == \A i, j \in DOMAIN s : i < j => s[i] < s[j]

(* Finitely many integers can be listed in ascending order.                  *)
LEMMA ListedInOrder ==
  ASSUME NEW lo \in Int, NEW hi \in Int, NEW S \in SUBSET (lo..hi)
  PROVE  /\ Cardinality(S) \in Nat
         /\ \E s \in [1..Cardinality(S) -> S] : IsAscending(s)
<1> DEFINE Listed(U) == \E s \in [1..Cardinality(U) -> U] : IsAscending(s)
           Unlisted == {n \in Nat : \E U \in SUBSET (lo..hi) :
                                      Cardinality(U) = n /\ ~Listed(U)}
<1>1. \A U \in SUBSET (lo..hi) : IsFiniteSet(U) /\ Cardinality(U) \in Nat
  BY FS_Interval, FS_Subset, FS_CardinalityType
<1>2. Unlisted = {}
  <2> SUFFICES ASSUME Unlisted # {} PROVE FALSE
    OBVIOUS
  <2>1. PICK m \in Unlisted : \A n \in Unlisted : m <= n
    BY LeastNatural
  <2>2. PICK U \in SUBSET (lo..hi) : Cardinality(U) = m /\ ~Listed(U)
    BY <2>1
  <2>3. m \in Nat
    BY <2>1
  <2>4. CASE U = {}
    <3>1. m = 0
      BY <2>2, <2>4, FS_EmptySet
    <3> DEFINE s == [i \in 1..0 |-> i]
    <3>2. s \in [1..0 -> U] /\ IsAscending(s)
      BY DEF IsAscending
    <3> QED
      BY <2>2, <3>1, <3>2
  <2>5. CASE U # {}
    <3>1. PICK x \in U : \A y \in U : y <= x
      <4> DEFINE T == {hi - y : y \in U}
      <4>1. T \in SUBSET Nat /\ T # {}
        <5>1. \A y \in U : y \in Int /\ hi - y \in Nat
          OBVIOUS
        <5> QED
          BY <2>5, <5>1
      <4>2. PICK t \in T : \A u \in T : t <= u
        BY <4>1, LeastNatural
      <4>3. PICK x \in U : t = hi - x
        BY <4>2
      <4>4. \A y \in U : hi - x <= hi - y
        BY <4>2, <4>3
      <4>5. \A y \in U : y <= x
        BY <4>4
      <4> QED
        BY <4>5
    <3> DEFINE V == U \ {x}
    <3>2. V \in SUBSET (lo..hi) /\ Cardinality(V) = m - 1 /\ m - 1 \in Nat
      <4>1. IsFiniteSet(U)
        BY <1>1
      <4>2. Cardinality(V) = m - 1
        BY <2>2, <4>1, FS_RemoveElement
      <4>3. V \in SUBSET (lo..hi)
        OBVIOUS
      <4> QED
        BY <1>1, <4>2, <4>3
    <3>3. Listed(V)
      <4>1. m - 1 \notin Unlisted
        BY <2>1, <2>3
      <4> QED
        BY <3>2, <4>1
    <3>4. PICK t \in [1..(m - 1) -> V] : IsAscending(t)
      BY <3>2, <3>3
    <3>5. \A y \in V : y < x
      BY <3>1
    <3> HIDE DEF V
    <3> DEFINE s == [i \in 1..m |-> IF i < m THEN t[i] ELSE x]
    <3>6. \A i \in 1..m : i < m => i \in 1..(m - 1) /\ s[i] = t[i] /\ t[i] \in V
      BY <2>3, <3>4
    <3>7. s[m] = x
      BY <2>3, <3>2
    <3>8. s \in [1..m -> U]
      BY <3>6, <3>7 DEF V
    <3>9. \A i, j \in 1..m : i < j => s[i] < s[j]
      <4> TAKE i, j \in 1..m
      <4> HAVE i < j
      <4>1. CASE j < m
        <5>1. i \in DOMAIN t /\ j \in DOMAIN t
          BY <2>3, <3>4, <4>1
        <5>2. t[i] < t[j]
          BY <3>4, <5>1 DEF IsAscending
        <5> QED
          BY <2>3, <3>6, <4>1, <5>2
      <4>2. CASE j = m
        BY <2>3, <3>5, <3>6, <3>7, <4>2
      <4> QED
        BY <2>3, <4>1, <4>2
    <3>10. IsAscending(s)
      BY <3>9 DEF IsAscending
    <3> QED
      BY <2>2, <3>8, <3>10
  <2> QED
    BY <2>4, <2>5
<1> QED
  BY <1>1, <1>2

(* An ascending list that is as long as its set has elements holds them all. *)
LEMMA AscendingListsAll ==
  ASSUME NEW S, IsFiniteSet(S), S \subseteq Int,
         NEW s \in [1..Cardinality(S) -> S], IsAscending(s)
  PROVE  \A x \in S : \E i \in DOMAIN s : s[i] = x
<1>1. Cardinality(S) \in Nat
  BY FS_CardinalityType
<1> DEFINE D == 1..Cardinality(S)
<1>2. IsFiniteSet(D) /\ Cardinality(D) = Cardinality(S)
  BY <1>1, FS_Interval
<1>3. \A i, j \in D : s[i] = s[j] => i = j
  <2> TAKE i, j \in D
  <2>0. s[i] \in S /\ s[j] \in S
    OBVIOUS
  <2>1. s[i] \in Int /\ s[j] \in Int
    BY <2>0
  <2>3. i \in Nat /\ j \in Nat
    BY <1>1
  <2>2. (i < j => s[i] < s[j]) /\ (j < i => s[j] < s[i])
    BY DEF IsAscending
  <2> QED
    BY <2>1, <2>2, <2>3
<1>4. s \in Injection(D, S)
  BY <1>3, Fun_IsInj
<1>5. s \in Surjection(D, S)
  BY <1>2, <1>4, FS_Injection
<1> HIDE DEF D
<1>6. \A x \in S : \E i \in D : s[i] = x
  BY <1>5, Fun_SurjectionProperties, Zenon
<1> QED
  BY <1>6 DEF D
===============================================================================
