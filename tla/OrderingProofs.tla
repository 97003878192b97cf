--------------------------- MODULE OrderingProofs ---------------------------
(***************************************************************************)
(* Least elements, and what Ordering makes of a finite set.                *)
(***************************************************************************)
EXTENDS Ordering, FiniteSetTheorems, TLAPS

\* A set of natural numbers has a least one.
LEMMA LeastNatural ==
  ASSUME NEW T, T \subseteq Nat, T # {}
  PROVE  \E x \in T : \A y \in T : x <= y
<1> DEFINE R == OpToRel(<, Nat)
<1>1. IsWellFoundedOn(R, Nat)
  BY NatLessThanWellFounded
<1>2. \A x, y \in Nat : <<y, x>> \notin R => x <= y
  BY DEF OpToRel
<1> HIDE DEF R
<1>3. \E x \in T : \A y \in T : <<y, x>> \notin R
  BY <1>1, WFMin
<1> QED
  BY <1>2, <1>3

\* A bounded one has a greatest.
LEMMA GreatestNatural ==
  ASSUME NEW n \in Nat, NEW T, T \subseteq 0..n, T # {}
  PROVE  \E x \in T : \A y \in T : y <= x
<1> DEFINE U == {n - x : x \in T}
<1>1. U \subseteq Nat /\ U # {}
  <2>1. \A x \in T : n - x \in Nat
    OBVIOUS
  <2> QED
    BY <2>1
<1>2. PICK u \in U : \A v \in U : u <= v
  <2> HIDE DEF U
  <2> QED
    BY <1>1, LeastNatural
<1>3. PICK x \in T : u = n - x
  OBVIOUS
<1>4. ASSUME NEW y \in T PROVE y <= x
  <2>1. u <= n - y
    BY <1>2
  <2>2. x \in 0..n /\ y \in 0..n
    OBVIOUS
  <2> QED
    BY <1>3, <2>1, <2>2
<1> QED
  BY <1>4

TotalOrder(R, S) ==
  /\ \A x \in S : <<x, x>> \in R
  /\ \A x, y \in S : <<x, y>> \in R \/ <<y, x>> \in R
  /\ \A x, y \in S : <<x, y>> \in R /\ <<y, x>> \in R => x = y
  /\ \A x, y, z \in S : <<x, y>> \in R /\ <<y, z>> \in R => <<x, z>> \in R

\* Every member has a place of its own, and places follow the order.
InOrder(e, n, S, R) ==
  /\ n \in Nat
  /\ e \in [1..n -> S]
  /\ \A x \in S : \E j \in 1..n : e[j] = x
  /\ \A i, j \in 1..n : i <= j <=> <<e[i], e[j]>> \in R

LEMMA Enumeration ==
  ASSUME NEW S, IsFiniteSet(S), NEW R, TotalOrder(R, S)
  PROVE  InOrder(Enumerated(S, R), Cardinality(S), S, R)
<1> DEFINE n == Cardinality(S)
           Down(x) == {y \in S : <<y, x>> \in R}
           rank == [x \in S |-> Cardinality(Down(x))]
           e == Enumerated(S, R)
<1>1. n \in Nat
  BY FS_CardinalityType
<1>2. \A x \in S : IsFiniteSet(Down(x)) /\ Cardinality(Down(x)) \in 1..n
  <2> TAKE x \in S
  <2>1. Down(x) \in SUBSET S /\ Down(x) # {}
    BY DEF TotalOrder
  <2>2. IsFiniteSet(Down(x)) /\ Cardinality(Down(x)) <= n
    BY <2>1, FS_Subset
  <2>3. Cardinality(Down(x)) \in Nat
    BY <2>2, FS_CardinalityType
  <2>4. Cardinality(Down(x)) # 0
    BY <2>1, <2>2, FS_EmptySet
  <2> QED
    BY <1>1, <2>2, <2>3, <2>4
<1>3. \A x, y \in S : <<x, y>> \in R => rank[x] <= rank[y] /\ (rank[x] = rank[y] => x = y)
  <2> SUFFICES ASSUME NEW x \in S, NEW y \in S, <<x, y>> \in R
               PROVE  rank[x] <= rank[y] /\ (rank[x] = rank[y] => x = y)
    OBVIOUS
  <2>1. Down(x) \in SUBSET Down(y)
    BY DEF TotalOrder
  <2>2. IsFiniteSet(Down(y))
    BY <1>2
  <2>3. /\ Cardinality(Down(x)) <= Cardinality(Down(y))
        /\ Cardinality(Down(y)) = Cardinality(Down(x)) => Down(y) = Down(x)
    <3> HIDE DEF Down
    <3> QED
      BY <2>1, <2>2, FS_Subset
  <2>4. Down(y) = Down(x) => x = y
    BY DEF TotalOrder
  <2>5. rank[x] = Cardinality(Down(x)) /\ rank[y] = Cardinality(Down(y))
    OBVIOUS
  <2> HIDE DEF rank, Down
  <2> QED
    BY <2>3, <2>4, <2>5
<1>4. /\ rank \in [S -> 1..n]
      /\ \A x \in S : rank[x] = Cardinality({y \in S : <<y, x>> \in R})
  BY <1>2
<1> HIDE DEF rank, Down
<1>5. \A x, y \in S : <<x, y>> \in R \/ <<y, x>> \in R
  BY DEF TotalOrder
<1>6. \A x, y \in S : rank[x] = rank[y] => x = y
  BY <1>3, <1>5
<1>7. \A j \in 1..n : \E x \in S : rank[x] = j
  <2>1. rank \in Injection(S, 1..n)
    BY <1>4, <1>6 DEF Injection, IsInjective
  <2>2. IsFiniteSet(1..n) /\ Cardinality(1..n) = n
    BY <1>1, FS_Interval
  <2>3. rank \in Surjection(S, 1..n)
    BY <2>1, <2>2, FS_Injection
  <2> QED
    BY <2>3 DEF Surjection
<1>8. \A j \in 1..n : e[j] \in S /\ rank[e[j]] = j
  <2> TAKE j \in 1..n
  <2>1. e[j] = CHOOSE x \in S : Cardinality({y \in S : <<y, x>> \in R}) = j
    BY DEF Enumerated
  <2>2. \E x \in S : Cardinality({y \in S : <<y, x>> \in R}) = j
    BY <1>4, <1>7
  <2>3. e[j] \in S /\ Cardinality({y \in S : <<y, e[j]>> \in R}) = j
    <3> HIDE DEF e
    <3> QED
      BY <2>1, <2>2
  <2> QED
    BY <1>4, <2>3
<1>9. e \in [1..n -> S]
  <2>1. e = [j \in 1..n |-> CHOOSE x \in S : Cardinality({y \in S : <<y, x>> \in R}) = j]
    BY DEF Enumerated
  <2> HIDE DEF e
  <2> QED
    BY <1>8, <2>1
<1>10. \A x \in S : \E j \in 1..n : e[j] = x
  <2> TAKE x \in S
  <2>1. rank[x] \in 1..n
    BY <1>4
  <2>2. e[rank[x]] = x
    BY <1>6, <1>8, <2>1
  <2> QED
    BY <2>1, <2>2
<1>11. \A i, j \in 1..n : i <= j <=> <<e[i], e[j]>> \in R
  <2> SUFFICES ASSUME NEW i \in 1..n, NEW j \in 1..n
               PROVE  i <= j <=> <<e[i], e[j]>> \in R
    OBVIOUS
  <2>1. e[i] \in S /\ rank[e[i]] = i /\ e[j] \in S /\ rank[e[j]] = j
    BY <1>8
  <2>2. i \in Int /\ j \in Int
    OBVIOUS
  <2> HIDE DEF e
  <2>3. <<e[i], e[j]>> \in R => i <= j
    BY <1>3, <2>1
  <2>4. <<e[j], e[i]>> \in R => j <= i /\ (i = j => e[i] = e[j])
    BY <1>3, <2>1
  <2>5. <<e[i], e[j]>> \in R \/ <<e[j], e[i]>> \in R
    BY <1>5, <2>1
  <2> QED
    BY <2>2, <2>3, <2>4, <2>5
<1> HIDE DEF e
<1> QED
  BY <1>1, <1>9, <1>10, <1>11 DEF e, InOrder

LEMMA UpwardOrder ==
  ASSUME NEW S, S \subseteq Int
  PROVE  TotalOrder(Upward(S), S)
<1>1. \A x, y \in S : <<x, y>> \in Upward(S) <=> x <= y
  BY DEF Upward
<1> QED
  BY <1>1 DEF TotalOrder

=============================================================================
