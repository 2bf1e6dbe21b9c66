------------------------------ MODULE MCTrigger ------------------------------
(* Instances of CcTrigger for TLC. *)
EXTENDS CcTrigger, TLC
==============================================================================
