------------------------------- MODULE MCMarker -------------------------------
(* Instances of CcMarker for TLC. *)
EXTENDS CcMarker, TLC
==============================================================================
