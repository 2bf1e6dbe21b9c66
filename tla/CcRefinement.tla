----------------------------- MODULE CcRefinement -----------------------------
(* CcCollector implements CcGarbage. *)
EXTENDS CcInvariants

ASSUME NobodyAssumption == "nobody" \notin Objects

AbstractValue(o) ==
    CASE status[o] = "free" -> "absent"
      [] status[o] = "dropped" -> "dropped"
      [] status[o] = "live" /\ Decided(o) -> "doomed"
      [] OTHER -> "live"

AbstractPlace(c) == IF owner[c] \in {"limbo", "nowhere"} THEN "nobody" ELSE owner[c]

Values == [o \in Objects |-> AbstractValue(o)]
Places == [c \in Ccs |-> AbstractPlace(c)]
Selves == {stack[i].obj : i \in Finalizers}

Abstract == INSTANCE CcGarbage WITH
    value <- Values,
    finalized <- finalized,
    place <- Places,
    points <- target,
    selves <- Selves

(* Whatever the nesting of finalizers, destructors and collections, and      *)
(* whatever panics: a value is finalized at most once unless it is asked     *)
(* for, dropped at most once and only after it was finalized, when only      *)
(* values that are dropped with it point to it and no running finalizer is   *)
(* its own; after that decision no weak pointer brings it back, and its      *)
(* memory is given back when no Cc points to it (cc.rs, drop; lib.rs,        *)
(* __collect, deallocate_list; weak/mod.rs, upgrade).                        *)
ImplementsGarbage == Abstract!Spec
=============================================================================
