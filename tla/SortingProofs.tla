---------------------------- MODULE SortingProofs ---------------------------
(***************************************************************************)
(* Sorting.  The code orders finite sets in two ways: Redis ranks members  *)
(* by counting those ahead of them, and sort.Slice leaves a sequence.      *)
(* Both are the same for any strict total order.                           *)
(***************************************************************************)
EXTENDS Integers, FiniteSetTheorems, TLAPS

\* R, a set of pairs, orders the members of S strictly and totally.
StrictlyOrders(R, S) ==
    /\ \A x \in S : <<x, x>> \notin R
    /\ \A x, y, z \in S : <<x, y>> \in R /\ <<y, z>> \in R => <<x, z>> \in R
    /\ \A x, y \in S : x # y => <<x, y>> \in R \/ <<y, x>> \in R

Before(R, S, x) == {y \in S : <<y, x>> \in R}

RankIn(R, S, x) == Cardinality(Before(R, S, x)) + 1

SortedBy(R, S, s) ==
    /\ s \in [1..Cardinality(S) -> S]
    /\ \A i, j \in DOMAIN s : i < j => <<s[i], s[j]>> \in R

\* Ranks number the members of a finite set from 1 on, each once.
LEMMA RankIsBijection ==
    ASSUME NEW S, IsFiniteSet(S), NEW R, StrictlyOrders(R, S)
    PROVE  /\ Cardinality(S) \in Nat
           /\ \A x \in S : RankIn(R, S, x) \in 1..Cardinality(S)
           /\ \A x, y \in S : RankIn(R, S, x) = RankIn(R, S, y) => x = y
           /\ \A n \in 1..Cardinality(S) : \E x \in S : RankIn(R, S, x) = n
<1> USE DEF StrictlyOrders
<1>1. Cardinality(S) \in Nat
  BY FS_CardinalityType
<1>2. ASSUME NEW x \in S
      PROVE  /\ Cardinality(Before(R, S, x)) \in Nat /\ IsFiniteSet(Before(R, S, x))
             /\ Cardinality(Before(R, S, x)) < Cardinality(S)
  <2>1. Before(R, S, x) \in SUBSET S /\ x \notin Before(R, S, x)
    BY DEF Before
  <2>2. IsFiniteSet(Before(R, S, x)) /\ Cardinality(Before(R, S, x)) <= Cardinality(S)
        /\ Cardinality(Before(R, S, x)) # Cardinality(S)
    BY <2>1, FS_Subset
  <2> QED
    BY <1>1, <2>2, FS_CardinalityType
<1>3. \A x \in S : RankIn(R, S, x) \in 1..Cardinality(S)
  BY <1>1, <1>2 DEF RankIn
<1>4. ASSUME NEW x \in S, NEW y \in S, <<x, y>> \in R
      PROVE  RankIn(R, S, x) < RankIn(R, S, y)
  <2>1. Before(R, S, x) \in SUBSET Before(R, S, y)
    BY <1>4 DEF Before
  <2>2. x \in Before(R, S, y) /\ x \notin Before(R, S, x)
    BY <1>4 DEF Before
  <2>3. /\ Cardinality(Before(R, S, x)) <= Cardinality(Before(R, S, y))
        /\ Cardinality(Before(R, S, x)) # Cardinality(Before(R, S, y))
    BY <1>2, <2>1, <2>2, FS_Subset
  <2> QED
    BY <1>2, <2>3 DEF RankIn
<1>5. \A x, y \in S : RankIn(R, S, x) = RankIn(R, S, y) => x = y
  <2> SUFFICES ASSUME NEW x \in S, NEW y \in S, x # y
               PROVE  RankIn(R, S, x) # RankIn(R, S, y)
    OBVIOUS
  <2>1. RankIn(R, S, x) \in Nat /\ RankIn(R, S, y) \in Nat
    BY <1>2 DEF RankIn
  <2>2. CASE <<x, y>> \in R
    BY <1>4, <2>1, <2>2
  <2>3. CASE <<y, x>> \in R
    BY <1>4, <2>1, <2>3
  <2> QED
    BY <2>2, <2>3
<1>6. \A n \in 1..Cardinality(S) : \E x \in S : RankIn(R, S, x) = n
  <2> DEFINE f == [x \in S |-> RankIn(R, S, x)]
             T == 1..Cardinality(S)
  <2>1. f \in Injection(S, T)
    <3>1. f \in [S -> T] /\ \A x \in S : f[x] = RankIn(R, S, x)
      BY <1>3
    <3> HIDE DEF f, T
    <3>2. \A x, y \in S : f[x] = f[y] => x = y
      BY <1>5, <3>1
    <3> QED
      BY <3>1, <3>2 DEF Injection, IsInjective
  <2>2. IsFiniteSet(T) /\ Cardinality(T) = Cardinality(S)
    BY <1>1, FS_Interval
  <2> HIDE DEF f, T
  <2>3. f \in Surjection(S, T)
    BY <2>1, <2>2, FS_Injection
  <2> QED
    BY <2>3 DEF Surjection, f, T
<1> QED
  BY <1>1, <1>3, <1>5, <1>6

\* A finite set can be sorted, ...
LEMMA SortExists ==
    ASSUME NEW S, IsFiniteSet(S), NEW R, StrictlyOrders(R, S)
    PROVE  \E s : SortedBy(R, S, s)
<1> DEFINE s == [n \in 1..Cardinality(S) |-> CHOOSE x \in S : RankIn(R, S, x) = n]
<1>1. /\ Cardinality(S) \in Nat
      /\ \A n \in 1..Cardinality(S) : \E x \in S : RankIn(R, S, x) = n
  BY RankIsBijection
<1>2. \A n \in 1..Cardinality(S) : s[n] \in S /\ RankIn(R, S, s[n]) = n
  BY <1>1
<1>3. DOMAIN s = 1..Cardinality(S) /\ s \in [1..Cardinality(S) -> S]
  BY <1>2
<1> HIDE DEF s
<1>4. ASSUME NEW x \in S, NEW y \in S, RankIn(R, S, x) < RankIn(R, S, y)
      PROVE  <<x, y>> \in R
  <2> SUFFICES ASSUME <<x, y>> \notin R PROVE FALSE
    OBVIOUS
  <2>0. RankIn(R, S, x) \in 1..Cardinality(S) /\ RankIn(R, S, y) \in 1..Cardinality(S)
    BY RankIsBijection
  <2>1. <<y, x>> \in R
    BY <1>1, <1>4, <2>0 DEF StrictlyOrders
  <2>2. Before(R, S, y) \in SUBSET Before(R, S, x) /\ IsFiniteSet(Before(R, S, x))
    <3>1. Before(R, S, x) \in SUBSET S
      BY DEF Before
    <3> QED
      BY <2>1, <3>1, FS_Subset DEF Before, StrictlyOrders
  <2>3. /\ Cardinality(Before(R, S, y)) <= Cardinality(Before(R, S, x))
        /\ Cardinality(Before(R, S, x)) \in Nat /\ Cardinality(Before(R, S, y)) \in Nat
    BY <2>2, FS_Subset, FS_CardinalityType
  <2> QED
    BY <1>4, <2>3 DEF RankIn
<1>5. \A i, j \in DOMAIN s : i < j => <<s[i], s[j]>> \in R
  BY <1>2, <1>3, <1>4
<1> QED
  BY <1>3, <1>5 DEF SortedBy

\* ... and holds each member at its rank.
LEMMA SortedByRank ==
    ASSUME NEW S, IsFiniteSet(S), NEW R, StrictlyOrders(R, S), NEW s, SortedBy(R, S, s)
    PROVE  /\ Cardinality(S) \in Nat
           /\ \A n \in 1..Cardinality(S) : s[n] \in S /\ RankIn(R, S, s[n]) = n
           /\ \A x \in S : \E n \in 1..Cardinality(S) : s[n] = x
<1> DEFINE D == 1..Cardinality(S)
<1>1. Cardinality(S) \in Nat /\ IsFiniteSet(D) /\ Cardinality(D) = Cardinality(S)
  BY FS_CardinalityType, FS_Interval
<1>2. s \in [D -> S] /\ \A i, j \in D : i < j => <<s[i], s[j]>> \in R
  BY DEF SortedBy
<1>3. \A i, j \in D : s[i] = s[j] => i = j
  <2>1. \A i, j \in D : i < j => s[i] # s[j]
    BY <1>2 DEF StrictlyOrders
  <2>2. \A i, j \in D : i < j \/ j < i \/ i = j
    BY <1>1
  <2> QED
    BY <2>1, <2>2
<1>4. \A x \in S : \E n \in D : s[n] = x
  <2> HIDE DEF D
  <2>1. s \in Injection(D, S)
    BY <1>2, <1>3 DEF Injection, IsInjective
  <2>2. s \in Surjection(D, S)
    BY <1>1, <2>1, FS_Injection
  <2> QED
    BY <2>2 DEF Surjection
<1>5. ASSUME NEW n \in D PROVE RankIn(R, S, s[n]) = n
  <2> DEFINE E == 1..(n-1)
             f == [i \in E |-> s[i]]
  <2>1. n \in Nat /\ n >= 1 /\ E \subseteq D /\ \A i \in D : i < n <=> i \in E
    BY <1>1
  <2>2. \A i \in E : s[i] \in Before(R, S, s[n])
    BY <1>2, <2>1 DEF Before
  <2>3. ASSUME NEW y \in Before(R, S, s[n]) PROVE \E i \in E : s[i] = y
    <3>1. y \in S /\ <<y, s[n]>> \in R /\ s[n] \in S
      BY <1>2 DEF Before
    <3>2. PICK i \in D : s[i] = y
      BY <1>4, <3>1
    <3>3. ~(n < i) /\ n # i
      BY <1>2, <3>1, <3>2 DEF StrictlyOrders
    <3> QED
      BY <1>1, <2>1, <3>2, <3>3
  <2>4. f \in Bijection(E, Before(R, S, s[n]))
    <3>1. DOMAIN f = E /\ \A i \in E : f[i] = s[i]
      OBVIOUS
    <3>2. \A i, j \in E : s[i] = s[j] => i = j
      BY <1>3, <2>1
    <3>3. f \in [E -> Before(R, S, s[n])]
      BY <2>2
    <3> HIDE DEF E, f
    <3> QED
      BY <2>3, <3>1, <3>2, <3>3 DEF Bijection, Injection, Surjection, IsInjective
  <2>5. IsFiniteSet(E) /\ Cardinality(E) = n - 1
    BY <2>1, FS_Interval
  <2> HIDE DEF E, f
  <2>6. Cardinality(Before(R, S, s[n])) = n - 1
    BY <2>4, <2>5, FS_Bijection DEF ExistsBijection
  <2> QED
    BY <2>1, <2>6 DEF RankIn
<1> QED
  BY <1>1, <1>2, <1>4, <1>5
=============================================================================
