-------------------------------- MODULE Lists --------------------------------
(***************************************************************************)
(* Lists: sorted, filtered and summed up, without recursive operators.     *)
(***************************************************************************)
EXTENDS Integers, Sequences, FiniteSets

\* The elements of P in the order that the pairs of R make: the k-th has k - 1 before it.
Sorted(P, R) ==
  [k \in 1..Cardinality(P) |->
     CHOOSE i \in P : Cardinality({j \in P : <<j, i>> \in R}) = k - 1]

\* What s has at the places in P, a retain or a filter.
At(s, P) ==
  LET places == Sorted(P, {p \in P \X P : p[1] < p[2]})
  IN [k \in 1..Cardinality(P) |-> s[places[k]]]

\* The sums of the first n of some numbers.
RunningTotal(x) ==
  LET t[n \in 0..Len(x)] == IF n = 0 THEN 0 ELSE t[n - 1] + x[n] IN t

Total(x) == RunningTotal(x)[Len(x)]
==============================================================================
