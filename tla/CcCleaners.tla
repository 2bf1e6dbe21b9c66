------------------------------ MODULE CcCleaners ------------------------------
(***************************************************************************)
(* A Cleaner and its Cleanables (cleaners/mod.rs).  The map of cleaning     *)
(* actions is in a Cc of its own, which the Cleaner holds and Cleanables     *)
(* have a weak pointer to.  An action is code of the program: it runs while  *)
(* the map is borrowed, or while the map is dropped, and may register and    *)
(* clean other actions, drop the Cleaner, and panic.  So the Rust call stack *)
(* is part of the state.                                                     *)
(*                                                                           *)
(* The map is never traced, so a collection never drops it; and what becomes *)
(* of the weak pointers is CcWeak's.  A second panic while one unwinds aborts *)
(* the program and is left out.                                              *)
(***************************************************************************)
EXTENDS Naturals, Sequences, FiniteSets, SequencesExt

CONSTANTS
    Actions,     \* the cleaning actions
    Reentrant    \* whether the collection that the first register may start runs
                 \* finalizers that register actions in the same Cleaner

ASSUME ReentrantAssumption == Reentrant \in BOOLEAN

VARIABLES
    cleaner,     \* whether the Cleaner exists
    map,         \* the Cc<CleanerMap>: "none", "live", "dropping", "freed" or "leaked",
                 \* which a panic in its drop glue makes it
    strong,      \* its strong counter
    borrowed,    \* whether its RefCell is mutably borrowed
    slot,        \* the actions: "unregistered", "registered" or "removed"
    runs,        \* how often each action was run
    stack, panicking

mapVars == <<map, strong, borrowed>>
slotVars == <<slot, runs>>
vars == <<cleaner, mapVars, slotVars, stack, panicking>>

-----------------------------------------------------------------------------
(* The call stack.  unwinding tells that drop glue runs because of a panic. *)

Ops == {"register", "clean", "action", "dropMap"}

Frames == [op : Ops, act : Actions \cup {"none"}, unwinding : BOOLEAN]
Frame(op, a, u) == [op |-> op, act |-> a, unwinding |-> u]

Top == stack[Len(stack)]
TopOp == IF stack = <<>> THEN "main" ELSE Top.op
Rest == Front(stack)
Count(op) == Cardinality({i \in DOMAIN stack : stack[i].op = op})
Unwinding == \E i \in DOMAIN stack : stack[i].unwinding

UserRuns == ~panicking /\ TopOp \in {"main", "action", "register"}
Returns(op) == ~panicking /\ TopOp = op
Unwinds(op) == panicking /\ TopOp = op

(* The Cleaner is borrowed by the calls of register on it. *)
CleanerUsable == cleaner /\ (Count("register") = 0 \/ Reentrant)

(* Drop for CleaningAction: an action runs above the frames of below.  Its    *)
(* slot is empty by then.                                                     *)
Run(a, below) ==
    /\ slot' = [slot EXCEPT ![a] = "removed"]
    /\ runs' = [runs EXCEPT ![a] = @ + 1]
    /\ stack' = Append(below, Frame("action", a, FALSE))

(* Cc::drop of a Cc<CleanerMap>, above the frames of below, while unwinding u. *)
DropCc(below, u) ==
    IF strong = 1
    THEN /\ map' = "dropping" /\ strong' = 0
         /\ stack' = Append(below, Frame("dropMap", "none", u))
         /\ panicking' = FALSE
    ELSE /\ strong' = strong - 1
         /\ stack' = below
         /\ panicking' = u
         /\ UNCHANGED map

-----------------------------------------------------------------------------
(* Cleaner::register *)

(* The map exists already. *)
Register(a) ==
    /\ UserRuns /\ CleanerUsable
    /\ slot[a] = "unregistered"
    /\ map = "live" /\ ~borrowed
    /\ slot' = [slot EXCEPT ![a] = "registered"]
    /\ UNCHANGED <<cleaner, mapVars, runs, stack, panicking>>

(* RefCell::borrow_mut panics while an action runs in clean. *)
RegisterPanic ==
    /\ UserRuns /\ CleanerUsable
    /\ map = "live" /\ borrowed
    /\ ~Unwinding
    /\ panicking' = TRUE
    /\ UNCHANGED <<cleaner, mapVars, slotVars, stack>>

(* There is no map yet: Cc::new may collect first, and that may panic. *)
RegisterFirst(a) ==
    /\ UserRuns /\ CleanerUsable
    /\ slot[a] = "unregistered" /\ map = "none"
    /\ \A i \in DOMAIN stack : stack[i].op = "register" => stack[i].act # a
    /\ stack' = Append(stack, Frame("register", a, FALSE))
    /\ UNCHANGED <<cleaner, mapVars, slotVars, panicking>>

(* If finalizers have made a map meanwhile, the two references to the Option   *)
(* have already met: that is undefined, and the model goes no further.         *)
EndRegister ==
    /\ Returns("register")
    /\ map = "none" /\ map' = "live" /\ strong' = 1
    /\ slot' = [slot EXCEPT ![Top.act] = "registered"]
    /\ stack' = Rest
    /\ UNCHANGED <<cleaner, borrowed, runs, panicking>>

UnwindRegister ==
    /\ Unwinds("register")
    /\ stack' = Rest
    /\ UNCHANGED <<cleaner, mapVars, slotVars, panicking>>

-----------------------------------------------------------------------------
(* Cleanable::clean.  It does nothing if the map cannot be upgraded to, which *)
(* is so as soon as it is being dropped, if it is borrowed by another clean,  *)
(* or if the action was removed.                                              *)

Clean_Fault(a) ==
    /\ UserRuns
    /\ slot[a] = "registered"
    /\ map = "live"
    /\ borrowed' = TRUE /\ strong' = strong + 1
    /\ Run(a, Append(stack, Frame("clean", a, FALSE)))
    /\ UNCHANGED <<cleaner, map, panicking>>

Clean_FaultKeep(a) ==
    /\ UserRuns
    /\ slot[a] = "registered"
    /\ map = "live" /\ ~borrowed
    /\ borrowed' = TRUE /\ strong' = strong + 1
    /\ runs' = [runs EXCEPT ![a] = @ + 1]
    /\ stack' = stack \o <<Frame("clean", a, FALSE), Frame("action", a, FALSE)>>
    /\ UNCHANGED <<cleaner, map, slot, panicking>>

Clean_FaultWeak(a) ==
    /\ UserRuns
    /\ slot[a] = "registered"
    /\ map = "live" /\ ~borrowed
    /\ borrowed' = TRUE
    /\ Run(a, Append(stack, Frame("clean", a, FALSE)))
    /\ UNCHANGED <<cleaner, map, strong, panicking>>

(* SlotMap::remove takes the action out and drops it at once. *)
Clean(a) ==
    /\ UserRuns
    /\ slot[a] = "registered"
    /\ map = "live" /\ ~borrowed
    /\ borrowed' = TRUE /\ strong' = strong + 1
    /\ Run(a, Append(stack, Frame("clean", a, FALSE)))
    /\ UNCHANGED <<cleaner, map, panicking>>

(* clean returns, or unwinds: the borrow ends and the upgraded Cc is dropped. *)
EndClean ==
    /\ Returns("clean")
    /\ borrowed' = FALSE
    /\ DropCc(Rest, FALSE)
    /\ UNCHANGED <<cleaner, slotVars>>

UnwindClean_Fault ==      \* a mutant: the upgraded Cc is leaked
    /\ Unwinds("clean")
    /\ borrowed' = FALSE
    /\ stack' = Rest
    /\ UNCHANGED <<cleaner, map, strong, panicking, slotVars>>

UnwindClean ==
    /\ Unwinds("clean")
    /\ borrowed' = FALSE
    /\ DropCc(Rest, TRUE)
    /\ UNCHANGED <<cleaner, slotVars>>

-----------------------------------------------------------------------------
(* The end of the Cleaner and of the map *)

DropCleaner ==
    /\ UserRuns
    /\ cleaner /\ Count("register") = 0
    /\ cleaner' = FALSE
    /\ IF map = "none" THEN UNCHANGED <<map, strong, stack, panicking>> ELSE DropCc(stack, FALSE)
    /\ UNCHANGED <<borrowed, slotVars>>

(* The drop glue of the map drops one action after the other, *)
DropMapNext(a) ==
    /\ Returns("dropMap")
    /\ slot[a] = "registered"
    /\ Run(a, stack)
    /\ UNCHANGED <<cleaner, mapVars, panicking>>

(* goes on with the others if one panics: the panic will leave Cc::drop as    *)
(* well, so that the memory is never given back.                              *)
UnwindDropMap ==
    /\ Unwinds("dropMap")
    /\ stack' = [stack EXCEPT ![Len(stack)].unwinding = TRUE]
    /\ map' = "leaked" /\ panicking' = FALSE
    /\ UNCHANGED <<cleaner, strong, borrowed, slotVars>>

(* Else Cc::drop gives it back at last, also if it is called by a clean() that *)
(* unwinds because of the panic of its own action.                             *)
EndDropMap ==
    /\ Returns("dropMap")
    /\ \A a \in Actions : slot[a] # "registered"
    /\ map' = IF map = "leaked" THEN "leaked" ELSE "freed"
    /\ panicking' = Top.unwinding
    /\ stack' = Rest
    /\ UNCHANGED <<cleaner, strong, borrowed, slotVars>>

-----------------------------------------------------------------------------
(* What a cleaning action, or a collection, does at its end *)

EndAction ==
    /\ Returns("action")
    /\ stack' = Rest
    /\ UNCHANGED <<cleaner, mapVars, slotVars, panicking>>

Panic ==
    /\ UserRuns /\ stack # <<>> /\ ~Unwinding
    /\ panicking' = TRUE
    /\ UNCHANGED <<cleaner, mapVars, slotVars, stack>>

UnwindAction ==
    /\ Unwinds("action")
    /\ stack' = Rest
    /\ UNCHANGED <<cleaner, mapVars, slotVars, panicking>>

(* catch_unwind, in an action or at top level *)
Catch ==
    /\ panicking /\ TopOp \in {"main", "action"}
    /\ panicking' = FALSE
    /\ UNCHANGED <<cleaner, mapVars, slotVars, stack>>

-----------------------------------------------------------------------------

Init ==
    /\ cleaner = TRUE
    /\ map = "none" /\ strong = 0 /\ borrowed = FALSE
    /\ slot = [a \in Actions |-> "unregistered"] /\ runs = [a \in Actions |-> 0]
    /\ stack = <<>> /\ panicking = FALSE

Return ==
    \/ EndRegister \/ UnwindRegister \/ EndClean \/ UnwindClean
    \/ UnwindDropMap \/ EndDropMap \/ EndAction \/ UnwindAction
    \/ \E a \in Actions : DropMapNext(a)

Next ==
    \/ \E a \in Actions : Register(a) \/ RegisterFirst(a) \/ Clean(a)
    \/ RegisterPanic \/ DropCleaner \/ Panic \/ Catch
    \/ Return

Spec == Init /\ [][Next]_vars

(* The code of the library goes on, and cleaning actions return or unwind: *)
(* they do not panic and catch the panic for ever.                         *)
FairSpec == Spec /\ WF_vars(Return) /\ SF_vars(EndAction)

-----------------------------------------------------------------------------

TypeOK ==
    /\ cleaner \in BOOLEAN
    /\ map \in {"none", "live", "dropping", "freed", "leaked"}
    /\ strong \in 0..2 /\ borrowed \in BOOLEAN
    /\ slot \in [Actions -> {"unregistered", "registered", "removed"}]
    /\ runs \in [Actions -> 0..1]
    /\ panicking \in BOOLEAN /\ stack \in Seq(Frames)

(* Cleaning actions are never run twice, and one that was taken out of the map *)
(* has been run (Cleanable::clean, Drop for CleaningAction).                   *)
RunOnce == \A a \in Actions : runs[a] = IF slot[a] = "removed" THEN 1 ELSE 0

(* The map a clean() works on is alive until clean() is done with it, even if  *)
(* the action it runs drops the Cleaner; and only one of them borrows it.      *)
BorrowIsSafe ==
    /\ borrowed <=> Count("clean") = 1
    /\ Count("clean") > 0 => map = "live" /\ strong > 0

(* The strong counter is the number of Ccs: that of the Cleaner and those of   *)
(* the clean() calls.  Without the Cleaner the map does not outlive them.      *)
StrongExact ==
    map = "live" => strong = Count("clean") + IF cleaner THEN 1 ELSE 0

(* All the cleaning actions registered in a Cleaner are run when it is dropped, *)
(* also if some of them panic.                                                 *)
ActionsAreRun == \A a \in Actions : (slot[a] = "registered" /\ ~cleaner) ~> runs[a] = 1

(* The comment in register(): when it makes a reference to the Option that     *)
(* holds the map, there is no other one.                                       *)
NoOtherReference == Count("register") <= 1

==============================================================================
