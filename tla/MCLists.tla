------------------------------- MODULE MCLists -------------------------------
(* Instances of CcLists for TLC. *)
EXTENDS CcLists, TLC

ObjectSymmetry == Permutations(Objects)
==============================================================================
