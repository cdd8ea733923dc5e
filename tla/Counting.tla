------------------------------ MODULE Counting ------------------------------
(***************************************************************************)
(* Facts about numbers, finite sets and rankings that the proofs about     *)
(* several components rest on: they speak of no variable of any of them.   *)
(***************************************************************************)
EXTENDS Integers, FiniteSets, FiniteSetTheorems, NaturalsInduction, WellFoundedInduction, TLAPS

\* A set of numbers that is not empty has a least one: induction over the
\* numbers, in the form a proof by least counterexample uses.
LEMMA LeastNumber ==
    ASSUME NEW S \in SUBSET Nat, S # {}
    PROVE  \E i \in S : \A k \in S : i <= k
<1> DEFINE R == OpToRel(<, Nat)
<1>1. IsWellFoundedOn(R, Nat)
    BY NatLessThanWellFounded
<1> HIDE DEF R
<1>2. PICK i \in S : \A k \in S : ~(<<k, i>> \in R)
    BY <1>1, WFMin, Zenon
<1>3. \A k \in S : ~(k < i)
    BY <1>2 DEF R, OpToRel
<1> QED
    BY <1>3

\* The numbers up to n are n numbers.
LEMMA CountUpTo ==
    ASSUME NEW n \in Nat
    PROVE  IsFiniteSet(1..n) /\ Cardinality(1..n) = n
BY FS_Interval

\* An injection of 1..n into itself meets every number.
LEMMA InjectionOnto ==
    ASSUME NEW n \in Nat, NEW f \in [1..n -> 1..n],
           \A i, k \in 1..n : f[i] = f[k] => i = k
    PROVE  \A r \in 1..n : \E i \in 1..n : f[i] = r
<1>1. f \in Injection(1..n, 1..n)
    BY Zenon DEF Injection, IsInjective
<1>2. IsFiniteSet(1..n)
    BY CountUpTo
<1>3. f \in Surjection(1..n, 1..n)
    BY <1>1, <1>2, FS_Injection, Zenon
<1> QED
    BY <1>3, Zenon DEF Surjection

\* A sequence of different numbers of 1..m is not longer than m.
LEMMA DistinctBound ==
    ASSUME NEW n \in Nat, NEW m \in Nat, NEW f \in [1..n -> 1..m],
           \A i, k \in 1..n : f[i] = f[k] => i = k
    PROVE  n <= m
<1>1. f \in Injection(1..n, 1..m)
    BY Zenon DEF Injection, IsInjective
<1>2. IsFiniteSet(1..m) /\ Cardinality(1..m) = m /\ Cardinality(1..n) = n
    BY CountUpTo
<1> QED
    BY <1>1, <1>2, FS_Injection

(***************************************************************************)
(* Ranking: R is a strict order of the finite set D, and Ranked gives for  *)
(* each place the element that has it.                                     *)
(***************************************************************************)
Orders(R, D) ==
    /\ \A i \in D : <<i, i>> \notin R
    /\ \A i, j, k \in D : <<i, j>> \in R /\ <<j, k>> \in R => <<i, k>> \in R
    /\ \A i, k \in D : i # k => <<i, k>> \in R \/ <<k, i>> \in R

Place(R, D, i) == 1 + Cardinality({k \in D : <<k, i>> \in R})
Ranked(R, D) == [r \in 1..Cardinality(D) |-> CHOOSE i \in D : Place(R, D, i) = r]

\* An element's place grows in the order.
LEMMA PlaceGrows ==
    ASSUME NEW D, IsFiniteSet(D), NEW R, Orders(R, D), NEW i \in D, NEW k \in D
    PROVE  /\ Place(R, D, i) \in 1..Cardinality(D)
           /\ <<i, k>> \in R => Place(R, D, i) < Place(R, D, k)
<1> DEFINE Lower(x) == {y \in D : <<y, x>> \in R}
<1>1. Lower(i) \in SUBSET D /\ Lower(k) \in SUBSET D
    OBVIOUS
<1>2. IsFiniteSet(Lower(i)) /\ IsFiniteSet(Lower(k))
    BY <1>1, FS_Subset, Zenon
<1>3. i \notin Lower(i)
    BY DEF Orders
<1>4. Cardinality(Lower(i) \cup {i}) = Cardinality(Lower(i)) + 1 /\ IsFiniteSet(Lower(i) \cup {i})
    BY <1>2, <1>3, FS_AddElement
<1>5. Cardinality(Lower(i) \cup {i}) <= Cardinality(D)
  <2>1. Lower(i) \cup {i} \in SUBSET D
    OBVIOUS
  <2> QED
    BY <2>1, FS_Subset
<1>6. /\ Cardinality(Lower(i)) \in Nat /\ Cardinality(Lower(k)) \in Nat
      /\ Cardinality(D) \in Nat
    BY <1>2, FS_CardinalityType
<1>7. ASSUME <<i, k>> \in R
      PROVE  Cardinality(Lower(i) \cup {i}) <= Cardinality(Lower(k))
  <2>1. Lower(i) \cup {i} \in SUBSET Lower(k)
    BY <1>7 DEF Orders
  <2> QED
    BY <1>2, <2>1, FS_Subset
<1>8. Place(R, D, i) = 1 + Cardinality(Lower(i)) /\ Place(R, D, k) = 1 + Cardinality(Lower(k))
    BY Zenon DEF Place
<1> HIDE DEF Lower
<1> QED
    BY <1>4, <1>5, <1>6, <1>7, <1>8

\* A ranking puts every element at one place, in the order.
LEMMA RankedArranges ==
    ASSUME NEW D, IsFiniteSet(D), NEW R, Orders(R, D)
    PROVE  /\ Ranked(R, D) \in [1..Cardinality(D) -> D]
           /\ \A i, k \in 1..Cardinality(D) : Ranked(R, D)[i] = Ranked(R, D)[k] => i = k
           /\ \A d \in D : \E i \in 1..Cardinality(D) : Ranked(R, D)[i] = d
           /\ \A i, k \in 1..Cardinality(D) : i < k => <<Ranked(R, D)[i], Ranked(R, D)[k]>> \in R
<1> DEFINE n == Cardinality(D)
           place == [d \in D |-> Place(R, D, d)]
           p == Ranked(R, D)
<1>0. n \in Nat /\ IsFiniteSet(1..n) /\ Cardinality(1..n) = n
    BY FS_CardinalityType, CountUpTo
<1>a. Cardinality(1..n) = Cardinality(D)
    BY <1>0
<1>1. place \in [D -> 1..n]
    BY PlaceGrows
<1>2. \A i, k \in D : place[i] = place[k] => i = k
  <2> SUFFICES ASSUME NEW i \in D, NEW k \in D, i # k PROVE place[i] # place[k]
    OBVIOUS
  <2>1. <<i, k>> \in R \/ <<k, i>> \in R
    BY DEF Orders
  <2>2. Place(R, D, i) \in 1..n /\ Place(R, D, k) \in 1..n
    BY PlaceGrows
  <2> QED
    BY <1>0, <2>1, <2>2, PlaceGrows
<1>3. \A r \in 1..n : \E d \in D : Place(R, D, d) = r
  <2> HIDE DEF place, n
  <2>1. place \in Injection(D, 1..n)
    BY <1>1, <1>2, Zenon DEF Injection, IsInjective
  <2>2. place \in Surjection(D, 1..n)
    BY <1>0, <1>a, <2>1, FS_Injection, Zenon
  <2>3. \A r \in 1..n : \E d \in D : place[d] = r
    BY <2>2, Zenon DEF Surjection
  <2> QED
    BY <2>3 DEF place
<1>4. \A r \in 1..n : p[r] \in D /\ Place(R, D, p[r]) = r
  <2> TAKE r \in 1..n
  <2>1. PICK d \in D : Place(R, D, d) = r
    BY <1>3
  <2>2. p[r] = CHOOSE i \in D : Place(R, D, i) = r
    BY DEF Ranked
  <2> QED
    BY <2>1, <2>2, Zenon
<1>5. p \in [1..n -> D]
    BY <1>4 DEF Ranked
<1> HIDE DEF p, n
<1>6. \A i, k \in 1..n : p[i] = p[k] => i = k
    BY <1>4
<1>7. \A d \in D : \E i \in 1..n : p[i] = d
  <2>1. p \in Injection(1..n, D)
    BY <1>5, <1>6, Zenon DEF Injection, IsInjective
  <2>2. p \in Surjection(1..n, D)
    BY <1>a, <2>1, FS_Injection, Zenon
  <2> QED
    BY <2>2, Zenon DEF Surjection
<1>8. ASSUME NEW i \in 1..n, NEW k \in 1..n, i < k
      PROVE  <<p[i], p[k]>> \in R
  <2>1. p[i] \in D /\ p[k] \in D /\ p[i] # p[k]
    BY <1>0, <1>4, <1>6, <1>8
  <2>2. ~(<<p[k], p[i]>> \in R)
    BY <1>0, <1>4, <1>8, <2>1, PlaceGrows
  <2> QED
    BY <2>1, <2>2 DEF Orders
<1> QED
    BY <1>5, <1>6, <1>7, <1>8 DEF p, n
=============================================================================
