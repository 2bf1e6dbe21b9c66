---------------------------- MODULE CcInvariants ----------------------------
(* The invariants of CcCollector that the proofs go by induction on, beside  *)
(* TypeOK: where the pointers are and what the frames of the call stack know *)
(* of each other (StackInv), what is gone, where the collection is and what  *)
(* its counters tell (SafeInv), and what was finalized (FinalizersOK).       *)
EXTENDS CcProperties

Running(op) == \E i \in 1..Len(stack) : stack[i].op = op

(* A pointer that exists points to an allocation, and those that wait to be  *)
(* traced are in the value whose Trace implementation runs.  Every frame but *)
(* that of collect() is about an object, and the pointer whose Cc::drop      *)
(* called a finalizer stays where no code of the program finds it, so that   *)
(* the same Cc::drop ends what it began (cc.rs, drop).                       *)
PlacesOK ==
    /\ \A c \in Ccs : owner[c] = "nowhere" <=> target[c] = "none"
    /\ \A c \in todo : current \in Objects /\ owner[c] = current
    /\ \A i \in 1..Len(stack) :
        /\ stack[i].op # "collect" => stack[i].obj \in Objects
        /\ stack[i].op = "finalizeCc" =>
            /\ stack[i].cc \in Ccs
            /\ owner[stack[i].cc] = "limbo" /\ target[stack[i].cc] = stack[i].obj
    /\ \A i, j \in 1..Len(stack) :
        stack[i].op = "finalizeCc" /\ stack[j].op = "finalizeCc" /\ stack[i].cc = stack[j].cc
            => i = j

(* There is one collection at most; a finalizer or destructor it runs is     *)
(* right above it in the stack, and while it traces nothing is above it.     *)
CollectFrames ==
    /\ \A i, j \in 1..Len(stack) :
        stack[i].op = "collect" /\ stack[j].op = "collect" => i = j
    /\ phase = "idle" <=> ~Running("collect")
    /\ phase \in {"loop", "counting", "roots"} => TopOp = "collect"
    /\ todo # {} => phase \in {"counting", "roots"}
    /\ \A i \in 1..Len(stack) :
        /\ stack[i].op = "finalizeList" =>
            phase = "finalizing" /\ i > 1 /\ stack[i - 1].op = "collect"
        /\ stack[i].op = "dropList" =>
            phase = "dropping" /\ i > 1 /\ stack[i - 1].op = "collect"

(* The frames of a stack s that hold a guard of State::finalizing, or of     *)
(* State::dropping, when the collection is in phase p.                       *)
SetsFinalizing(f, p) == f.op = "finalizeCc" \/ (f.op = "collect" /\ p = "finalizing")
SetsDropping(f, p) == f.op = "dropCc" \/ (f.op = "collect" /\ p = "dropping")

FinalizingBelow(s, p, i) == \E j \in 1..(i - 1) : SetsFinalizing(s[j], p)
DroppingBelow(s, p, i) == \E j \in 1..(i - 1) : SetsDropping(s[j], p)

(* Each guard saved the value the flag has by the frames below, and the flag *)
(* has the value it has by the whole stack (state.rs, replace_state_field!). *)
FlagsOK ==
    /\ collecting <=> Running("collect")
    /\ finalizing <=> FinalizingBelow(stack, phase, Len(stack) + 1)
    /\ dropping <=> DroppingBelow(stack, phase, Len(stack) + 1)
    /\ \A i \in 1..Len(stack) :
        /\ SetsFinalizing(stack[i], phase) => stack[i].saved = FinalizingBelow(stack, phase, i)
        /\ SetsDropping(stack[i], phase) => stack[i].saved = DroppingBelow(stack, phase, i)

(* The frames of the call stack fit the pointers, the collection and the     *)
(* flags of State.                                                           *)
StackInv == PlacesOK /\ CollectFrames /\ FlagsOK

-----------------------------------------------------------------------------
(* The end of a value is decided when deallocate_list starts, and stays      *)
(* decided when a panic of a destructor leaves values of the list undropped. *)
Decided(o) == tracing[o] = DroppedTc \/ (phase = "dropping" /\ o \in nonRootList)

Gone(o) == status[o] # "live" \/ Decided(o)

(* Which lists __collect uses in which phase, and how far finalize_inner and *)
(* drop_inner are with non_root_list.                                        *)
PhaseOK ==
    /\ phase \notin {"counting", "roots"} => rootList = {} /\ queue = {} /\ current = "none"
    /\ phase \in {"idle", "loop"} => nonRootList = {}
    /\ phase = "roots" => pc = {}
    /\ phase \notin {"finalizing", "dropping"} => work = {}
    /\ work \subseteq nonRootList
    /\ phase = "finalizing" =>
        /\ listSize + Cardinality(work) = Cardinality(nonRootList)
        /\ ~hasFinalized => TopOp = "collect"
    /\ phase = "dropping" =>
        \A o \in nonRootList : status[o] = IF o \in work THEN "live" ELSE "dropped"

(* No list holds what is gone, but non_root_list while it is dropped.        *)
ListsOK ==
    /\ \A o \in pc \cup rootList \cup queue : ~Gone(o)
    /\ current # "none" => ~Gone(current)
    /\ phase # "dropping" => \A o \in nonRootList : ~Gone(o)

(* Nothing points to or is in memory that was given back, and what leads to  *)
(* a value that is gone is gone: of two values of the same list, or because  *)
(* a panic leaked both.                                                      *)
GoneOK ==
    /\ \A o \in Objects : /\ status[o] = "free" => Pointing(o) = {} /\ Fields(o) = {}
                          /\ status[o] = "dropped" => tracing[o] = DroppedTc
    /\ \A c \in Ccs :
        target[c] \in Objects /\ Gone(target[c]) => owner[c] \in Objects /\ Gone(owner[c])
    /\ phase = "dropping" =>
        \A c \in Ccs : /\ target[c] \in nonRootList => owner[c] \in nonRootList
                       /\ owner[c] \in nonRootList => target[c] \in nonRootList \/ ~Gone(target[c])

(* The value whose drop glue Cc::drop runs is pointed to by nobody, nothing  *)
(* it still owns is gone, and its glue runs once.  What collect() finalizes  *)
(* or drops is in non_root_list.                                             *)
Dropping(o) ==
    /\ status[o] = "dropped" /\ o \notin nonRootList
    /\ Pointing(o) = {} /\ \A c \in Fields(o) : ~Gone(target[c])

FramesFit ==
    /\ \A i \in 1..Len(stack) :
        /\ stack[i].op = "dropCc" => Dropping(stack[i].obj)
        /\ stack[i].op \in {"finalizeList", "dropList"} => stack[i].obj \in nonRootList \ work
    /\ \A i, j \in 1..Len(stack) :
        stack[i].op = "dropCc" /\ stack[j].op = "dropCc" /\ stack[i].obj = stack[j].obj => i = j

(* When the glue of a listed value has ended, the value owns no pointer.     *)
ListGlue(o) == \E i \in 1..Len(stack) : stack[i].op = "dropList" /\ stack[i].obj = o

GlueEmpties == phase = "dropping" => \A o \in nonRootList \ work : Fields(o) = {} \/ ListGlue(o)

(* What is finalized or dropped together has no pointer in a call of         *)
(* Cc::drop, and before the first finalizer ran nobody else points to it.    *)
NonRootOK ==
    /\ phase \in {"finalizing", "dropping"} =>
        \A c \in Ccs : owner[c] = "limbo" => target[c] \notin nonRootList
    /\ phase = "finalizing" /\ ~hasFinalized =>
        \A c \in Ccs : target[c] \in nonRootList => owner[c] \in nonRootList

(* What the tracing counters tell.  A Cc to an object of non_root_list was   *)
(* traced from an object that is in a list still, or trace_roots visits it.  *)
TracingOK ==
    /\ current # "none" => todo \subseteq TracedFields(current)
    /\ phase = "counting" => \A o \in Objects : mark[o] = "NonMarked" => Traced \cap Pointing(o) = {}
    /\ phase \in {"counting", "roots"} =>
        /\ \A o \in rootList : ~AllTraced(o)
        /\ \A o \in nonRootList : AllTraced(o)
    /\ phase = "roots" =>
        \A c \in Ccs : target[c] \in nonRootList =>
            \/ c \in todo
            \/ owner[c] \in rootList \cup nonRootList \cup queue /\ c \in TracedFields(owner[c])

SafeInv ==
    /\ PhaseOK /\ ListsOK /\ GoneOK /\ FramesFit /\ GlueEmpties /\ NonRootOK /\ TracingOK
    /\ CounterExact /\ MarksMatchLists /\ TracingExact

(* A value is finalized before anything else happens to it, and no two calls *)
(* of its finalizer run: FinalizeAgain asks for the flags of State.  What is *)
(* dropped together was finalized, in this round or before.                  *)
Finalizers == {i \in 1..Len(stack) : stack[i].op \in {"finalizeCc", "finalizeList"}}

FinalizersOK ==
    /\ \A i \in Finalizers : finalized[stack[i].obj]
    /\ \A i, j \in Finalizers : stack[i].obj = stack[j].obj => i = j
    /\ phase = "finalizing" /\ ~hasFinalized => \A o \in nonRootList \ work : finalized[o]

(* When trace_roots starts, all garbage is in non_root_list; what it visits  *)
(* is not there, hence kept alive, and so is what it takes out of the list.  *)
RootsFound == phase = "roots" => Garbage \subseteq nonRootList /\ current \notin nonRootList

(* What holds in every state, beside TypeOK, as long as no tracing counter   *)
(* of a buffered object is stale (BufferedIsReset).                          *)
CollectorInv == StackInv /\ SafeInv /\ FinalizersOK
=============================================================================
