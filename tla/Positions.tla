------------------------------- MODULE Positions -------------------------------
(***************************************************************************)
(* Entries of a list taken at some of its positions, in their order: the   *)
(* Python loops and comprehensions that go through a list and keep part of *)
(* it.                                                                     *)
(***************************************************************************)
EXTENDS Naturals, Sequences, FiniteSets

\* The n-th smallest index of S, and [s[index] for index in S].
Nth(S, n) == CHOOSE i \in S : Cardinality({k \in S : k <= i}) = n
Pick(s, S) == [n \in 1..Cardinality(S) |-> s[Nth(S, n)]]

=============================================================================
