-------------------------------- MODULE MCWeak --------------------------------
(* Instances of CcWeak for TLC. *)
EXTENDS CcWeak, TLC

Symmetry == Permutations(Objects) \cup Permutations(Metas) \cup Permutations(Weaks)
==============================================================================
