--------------------------- MODULE Ordered_proofs ---------------------------
(***************************************************************************)
(* What InOrder returns, for any finite set and any strict total order.    *)
(***************************************************************************)
EXTENDS Ordered, Integers, Sequences, SequenceTheorems, FiniteSetTheorems, TLAPS

StrictOrder(S, before) ==
    /\ \A x \in S : <<x, x>> \notin before
    /\ \A x, y \in S : x # y => <<x, y>> \in before \/ <<y, x>> \in before
    /\ \A x, y, z \in S : <<x, y>> \in before /\ <<y, z>> \in before => <<x, z>> \in before

Sorts(q, S, before) ==
    /\ q \in Seq(S) /\ Len(q) = Cardinality(S) /\ DOMAIN q = 1 .. Cardinality(S)
    /\ \A i, j \in DOMAIN q : i < j => <<q[i], q[j]>> \in before
    /\ \A x \in S : \E i \in DOMAIN q : q[i] = x

Preceding(S, before, x) == {y \in S : <<y, x>> \in before}

(* The position of an element is one more than the number of those that come *)
(* before it.                                                                *)
LEMMA Positions ==
  ASSUME NEW S, IsFiniteSet(S), NEW before, StrictOrder(S, before)
  PROVE  LET rank == [x \in S |-> Cardinality(Preceding(S, before, x)) + 1]
         IN  /\ rank \in [S -> 1 .. Cardinality(S)]
             /\ \A x, y \in S : <<x, y>> \in before => rank[x] < rank[y]
<1> DEFINE n == Cardinality(S)
           P(x) == Preceding(S, before, x)
           rank == [x \in S |-> Cardinality(P(x)) + 1]
<1>1. n \in Nat
  BY FS_CardinalityType
<1>2. ASSUME NEW x \in S
      PROVE  /\ IsFiniteSet(P(x)) /\ Cardinality(P(x)) \in Nat /\ Cardinality(P(x)) < n
  <2>1. P(x) \in SUBSET S /\ x \notin P(x)
    BY DEF Preceding, StrictOrder
  <2> HIDE DEF P
  <2>2. IsFiniteSet(P(x)) /\ Cardinality(P(x)) <= n /\ (n = Cardinality(P(x)) => S = P(x))
    BY <2>1, FS_Subset
  <2>3. Cardinality(P(x)) \in Nat
    BY <2>2, FS_CardinalityType
  <2> QED
    BY <1>1, <2>1, <2>2, <2>3
<1>3. ASSUME NEW x \in S, NEW y \in S, <<x, y>> \in before
      PROVE  Cardinality(P(x)) < Cardinality(P(y))
  <2>1. P(x) \in SUBSET P(y) /\ x \in P(y) /\ x \notin P(x)
    BY <1>3 DEF Preceding, StrictOrder
  <2>2. /\ IsFiniteSet(P(y)) /\ Cardinality(P(y)) \in Nat /\ Cardinality(P(x)) \in Nat
    BY <1>2
  <2> HIDE DEF P
  <2>3. Cardinality(P(x)) <= Cardinality(P(y)) /\ Cardinality(P(y)) # Cardinality(P(x))
    BY <2>1, <2>2, FS_Subset
  <2> QED
    BY <2>2, <2>3
<1> HIDE DEF P
<1>4. rank \in [S -> 1 .. n]
  BY <1>1, <1>2
<1>5. \A x, y \in S : <<x, y>> \in before => rank[x] < rank[y]
  BY <1>2, <1>3
<1> QED
  BY <1>4, <1>5 DEF P

LEMMA Numbered ==
  ASSUME NEW n \in Nat
  PROVE  IsFiniteSet(1 .. n) /\ Cardinality(1 .. n) = n
  BY FS_Interval

LEMMA SortedExists ==
  ASSUME NEW S, IsFiniteSet(S), NEW before, StrictOrder(S, before)
  PROVE  \E q \in [1 .. Cardinality(S) -> S] : Arranged(q, before)
<1> DEFINE n == Cardinality(S)
           rank == [x \in S |-> Cardinality(Preceding(S, before, x)) + 1]
           q == [k \in 1 .. n |-> CHOOSE x \in S : rank[x] = k]
<1>0. n \in Nat
  BY FS_CardinalityType
<1>1. rank \in [S -> 1 .. n] /\ \A x, y \in S : <<x, y>> \in before => rank[x] < rank[y]
  BY Positions
<1> HIDE DEF rank
<1>2. \A x, y \in S : x # y => rank[x] # rank[y]
  <2> SUFFICES ASSUME NEW x \in S, NEW y \in S, x # y PROVE rank[x] # rank[y]
    OBVIOUS
  <2>1. rank[x] \in Nat /\ rank[y] \in Nat
    BY <1>0, <1>1
  <2>2. <<x, y>> \in before \/ <<y, x>> \in before
    BY DEF StrictOrder
  <2> QED
    BY <1>1, <2>1, <2>2
<1>3. \A k \in 1 .. n : \E x \in S : rank[x] = k
  <2>1. IsFiniteSet(1 .. n) /\ Cardinality(1 .. n) = Cardinality(S)
    BY <1>0, Numbered
  <2> HIDE DEF n
  <2>2. rank \in Injection(S, 1 .. n)
    BY <1>1, <1>2 DEF Injection, IsInjective
  <2>3. rank \in Surjection(S, 1 .. n)
    BY <2>1, <2>2, FS_Injection
  <2> QED
    BY <2>3 DEF Surjection
<1>4. \A k \in 1 .. n : q[k] \in S /\ rank[q[k]] = k
  BY <1>3
<1>5. q \in [1 .. n -> S]
  BY <1>4
<1> HIDE DEF q
<1>6. ASSUME NEW i \in 1 .. n, NEW j \in 1 .. n, i < j
      PROVE  q[i] # q[j] /\ <<q[j], q[i]>> \notin before
  <2>1. /\ q[i] \in S /\ q[j] \in S /\ rank[q[i]] = i /\ rank[q[j]] = j
        /\ i \in Nat /\ j \in Nat
    BY <1>0, <1>4
  <2> QED
    BY <1>1, <1>6, <2>1
<1> QED
  BY <1>5, <1>6 DEF Arranged

(* All of the set, each element once, in the order asked for.                *)
THEOREM InOrderSorts ==
  ASSUME NEW S, IsFiniteSet(S), NEW before, StrictOrder(S, before)
  PROVE  Sorts(InOrder(S, before), S, before)
<1> DEFINE n == Cardinality(S)
           q == InOrder(S, before)
<1>0. n \in Nat
  BY FS_CardinalityType
<1>1. q \in [1 .. n -> S] /\ Arranged(q, before)
  BY SortedExists DEF InOrder
<1> HIDE DEF q
<1>2. q \in Seq(S) /\ Len(q) = n /\ DOMAIN q = 1 .. n
  BY <1>0, <1>1, SeqDef
<1>3. ASSUME NEW i \in 1 .. n, NEW j \in 1 .. n, i # j
      PROVE  q[i] # q[j]
  <2>1. i < j \/ j < i
    BY <1>0, <1>3
  <2> QED
    BY <1>2, <1>1, <2>1 DEF Arranged
<1>4. \A x \in S : \E i \in 1 .. n : q[i] = x
  <2>1. IsFiniteSet(1 .. n) /\ Cardinality(1 .. n) = Cardinality(S)
    BY <1>0, Numbered
  <2> HIDE DEF n
  <2>2. q \in Injection(1 .. n, S)
    BY <1>1, <1>2, <1>3 DEF Injection, IsInjective
  <2>3. q \in Surjection(1 .. n, S)
    BY <2>1, <2>2, FS_Injection
  <2> QED
    BY <2>3 DEF Surjection
<1>5. ASSUME NEW i \in 1 .. n, NEW j \in 1 .. n, i < j
      PROVE  <<q[i], q[j]>> \in before
  <2>1. q[i] \in S /\ q[j] \in S /\ q[i] # q[j] /\ <<q[j], q[i]>> \notin before
    BY <1>1, <1>2, <1>5 DEF Arranged
  <2> QED
    BY <2>1 DEF StrictOrder
<1> QED
  BY <1>2, <1>4, <1>5 DEF Sorts, q
=============================================================================
