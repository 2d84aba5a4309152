------------------------------- MODULE Places -------------------------------
(* What a filter leaves of a sequence: the elements at some of its places, in
   the order they had.  SelectSeq of the standard modules tests the elements
   instead; here the places are a set, so that they can be counted, compared
   and reasoned about. *)
EXTENDS FiniteSets, Naturals

(* The n-th of a set of places. *)
Nth(I, n) == CHOOSE i \in I : Cardinality({j \in I : j <= i}) = n

(* The elements of s at the places I. *)
Picked(s, I) == [n \in 1..Cardinality(I) |-> s[Nth(I, n)]]
=============================================================================
