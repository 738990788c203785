------------------------------ MODULE Ascending ------------------------------
(***************************************************************************)
(* What a loop over a list does when it keeps some of the elements: the    *)
(* kept places in the order they have in the list.                         *)
(***************************************************************************)
EXTENDS Naturals, FiniteSets

\* how many elements of S, a set of numbers, come up to i
Rank(S, i) == Cardinality({j \in S : j <= i})

\* the elements of a finite set of numbers, in increasing order
InOrder(S) == [k \in 1 .. Cardinality(S) |-> CHOOSE i \in S : Rank(S, i) = k]

=============================================================================
