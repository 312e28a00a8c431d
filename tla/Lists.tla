------------------------------- MODULE Lists -------------------------------
(***************************************************************************)
(* What a comprehension over a list with a condition leaves of it: the     *)
(* elements at the indices that meet the condition, in list order.         *)
(***************************************************************************)
EXTENDS Integers, Sequences, FiniteSets

\* The k-th smallest member of a finite set of integers.
Nth(K, k) == CHOOSE i \in K : Cardinality({j \in K : j < i}) = k - 1

\* [s[i] for i in range(len(s)) if i in K].
Sublist(s, K) == [k \in 1 .. Cardinality(K) |-> s[Nth(K, k)]]
=============================================================================
