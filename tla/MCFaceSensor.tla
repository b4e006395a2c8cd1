---------------------------- MODULE MCFaceSensor ----------------------------
(* Two people, either of whom may be the owner.                              *)
EXTENDS FaceSensor, TLC

Swap == Permutations(People)
=============================================================================
