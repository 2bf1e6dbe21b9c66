------------------------------ MODULE MCCleaners ------------------------------
(* Instances of CcCleaners for TLC. *)
EXTENDS CcCleaners, TLC
==============================================================================
