------------------------------ MODULE Selection ------------------------------
(***************************************************************************)
(* The elements of a sequence at some of its positions, in their order: for*)
(* the lists and files from which the code drops some entries and closes up*)
(* the rest.                                                               *)
(***************************************************************************)
EXTENDS Naturals, FiniteSets

(* How many positions of the set I come before k, and which one has i - 1. *)
Rank(I, k) == Cardinality({j \in I : j < k})
Position(I, i) == CHOOSE k \in I : Rank(I, k) = i - 1

Selected(s, I) == [i \in 1..Cardinality(I) |-> s[Position(I, i)]]
=============================================================================
