------------------------------ MODULE Ordering ------------------------------
(***************************************************************************)
(* What the sorts and the loops of the code do, in a form that the proofs   *)
(* can use: SetToSortSeq and FoldLeft of the community modules are defined  *)
(* over sets of permutations and by an operator that is their parameter.    *)
(***************************************************************************)
EXTENDS Integers, Sequences, FiniteSets

(* The elements of S in their order: R holds the pairs of which the first
   comes first.  At k is the element that k - 1 others come before. *)
InOrder(S, R) ==
  [k \in 1..Cardinality(S) |->
     CHOOSE x \in S : Cardinality({y \in S : <<y, x>> \in R}) = k - 1]

(* The elements of s at the places S, in the order of R. *)
Arranged(s, S, R) == [k \in 1..Cardinality(S) |-> s[InOrder(S, R)[k]]]

(* The sum of a sequence of numbers. *)
Total(s) ==
  LET sum[n \in 0..Len(s)] == IF n = 0 THEN 0 ELSE sum[n - 1] + s[n]
  IN  sum[Len(s)]

Least(a, b) == IF a < b THEN a ELSE b

=============================================================================
