------------------------------ MODULE Ordering ------------------------------
(***************************************************************************)
(* Finite sets written out in order, as sorting and filtering do.          *)
(***************************************************************************)
EXTENDS Integers, FiniteSets

\* slices.Sort: the members of S, each behind those R puts before it.  R is a
\* total order on S, as a set of pairs.
Enumerated(S, R) ==
  [j \in 1..Cardinality(S) |-> CHOOSE x \in S : Cardinality({y \in S : <<y, x>> \in R}) = j]

Upward(S) == {p \in S \X S : p[1] <= p[2]}

\* The elements of s at the positions in T, in their order.
Picked(s, T) == [j \in 1..Cardinality(T) |-> s[Enumerated(T, Upward(T))[j]]]

=============================================================================
