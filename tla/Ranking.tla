------------------------------ MODULE Ranking ------------------------------
(* A finite set as the sequence of its members in order. The order is given *)
(* by what is not above each member, itself included, so that the provers   *)
(* can reason about it as they cannot about TLC's SortSeq.                  *)
EXTENDS Naturals, FiniteSets

Ranked(S, upto) == [n \in 1..Cardinality(S) |-> CHOOSE x \in S : Cardinality(upto[x]) = n]

\* The positions of a set, the first of them first.
InOrder(S) == Ranked(S, [n \in S |-> S \intersect (1..n)])

\* The members of a sequence at some of its positions, in its order.
AtPositions(s, P) == LET order == InOrder(P) IN [k \in DOMAIN order |-> s[order[k]]]
=============================================================================
