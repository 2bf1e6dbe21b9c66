----------------------------- MODULE CcCollector -----------------------------
(***************************************************************************)
(* The cycle collector of rust-cc: the reference-counted pointer Cc (cc.rs), *)
(* the collection algorithm (lib.rs), and the program that uses them.        *)
(*                                                                           *)
(* rust-cc is confined to one thread.  What makes it hard is re-entrancy:    *)
(* Finalize::finalize and the destructors of the values are code of the      *)
(* program that runs in the middle of Cc::drop and of the collector, may     *)
(* call every operation again, and may panic.  The Rust call stack is        *)
(* therefore part of the state (stack), and every point at which code of the *)
(* program can run is a state in which the program's actions are enabled.    *)
(*                                                                           *)
(* A Cc is an identity of its own (a member of Ccs), with the place that     *)
(* holds it (owner) and the allocation it points to (target), so a reference *)
(* count is compared with the pointers that really exist.                    *)
(* The order of elements in a list is abstracted: a list is a set, and       *)
(* "the first element" is any element.                                       *)
(*                                                                           *)
(* A definition named X_Fault is X with a mistake one could make in the code *)
(* it models; nothing uses it but the tests of the properties.               *)
(***************************************************************************)
EXTENDS Integers, FiniteSets, Sequences

CONSTANTS
    Objects,    \* the memory blocks allocations (CcBox) may occupy
    Ccs,        \* the identities of Cc pointers
    Untraced,   \* the Ccs that Trace implementations never trace once stored in a value
    MaxCount,   \* counter_marker::MAX, 16382 in the code
    MaxRounds,  \* how often collect() runs __collect, 10 in the code
    UserOps     \* the optional operations the program makes use of

ASSUME UntracedAssumption == Untraced \subseteq Ccs
ASSUME MaxCountAssumption == MaxCount \in Nat /\ MaxCount >= 1
ASSUME MaxRoundsAssumption == MaxRounds \in Nat
ASSUME FiniteAssumption == IsFiniteSet(Objects) /\ IsFiniteSet(Ccs)
ASSUME PlacesAssumption == Objects \cap {"nowhere", "program", "limbo", "none"} = {}

VARIABLES
    \* The allocations (CcBox and its CounterMarker)
    status,      \* "free", "live", or "dropped" once drop_in_place started on its value
    counter,     \* the reference counter
    tracing,     \* the tracing counter; DroppedTc encodes is_dropped
    mark,        \* "NonMarked", "PossibleCycles", "InList" or "InQueue"
    finalized,   \* whether the value needs no finalization any more
    \* The Cc pointers
    owner,       \* an object, "program" (stack and statics), "limbo" or "nowhere"
    target,      \* the allocation each Cc points to
    borrowed,    \* the objects whose value is inside a RefCell that is borrowed
    \* The lists
    pc,          \* POSSIBLE_CYCLES
    pcSize,      \* its size field
    rootList, nonRootList, queue,   \* the lists of __collect
    \* The thread-local State
    collecting, finalizing, dropping,
    \* The collection in progress
    phase,       \* where collect() and __collect are
    round,       \* the iterations of collect() so far
    current,     \* the object whose trace method is running, or "none"
    todo,        \* the Ccs it has still to trace
    work,        \* the elements an iteration over nonRootList has still to visit
    listSize,    \* non_root_list_size
    hasFinalized,
    \* The Rust call stack
    stack, panicking

boxVars  == <<status, counter, tracing, mark, finalized>>
ccVars   == <<owner, target, borrowed>>
pcVars   == <<pc, pcSize>>
listVars == <<rootList, nonRootList, queue>>
flagVars == <<collecting, finalizing, dropping>>
loopVars == <<phase, round, current, todo, work, listSize, hasFinalized>>
callVars == <<stack, panicking>>
vars == <<boxVars, ccVars, pcVars, listVars, flagVars, loopVars, callVars>>

-----------------------------------------------------------------------------
(* The CcBox and its marks. *)

DroppedTc == MaxCount + 1

Marks == {"NonMarked", "PossibleCycles", "InList", "InQueue"}

InListOrQueue(o) == mark[o] \in {"InList", "InQueue"}

(* CounterMarker::needs_finalization *)
NeedsFinalization_Fault(o) == ~finalized[o] /\ ~collecting
NeedsFinalization(o) == ~finalized[o]

(* Every Cc of o was traced: no Cc that points to it is held elsewhere. *)
AllTraced(o) == counter[o] = tracing[o]

(* increment_counter fails when the counter is at its limit. *)
CanIncrement_Fault(o) == counter[o] <= MaxCount
CanIncrement(o) == counter[o] < MaxCount

(* The objects in a list of __collect, and the one that is being traced. *)
Listed == rootList \cup nonRootList \cup queue \cup ({current} \ {"none"})

(* The Ccs the value of o owns, and those its Trace implementation visits:   *)
(* that of RefCell skips its content while the cell is borrowed.             *)
Fields(o) == {c \in Ccs : owner[c] = o}
TracedFields(o) == IF o \in borrowed THEN {} ELSE Fields(o) \ Untraced

(* The Ccs that exist and point to o, whatever became of the place they are in. *)
Pointing(o) == {c \in Ccs : target[c] = o}

(* The pointer c ends to exist. *)
Discard(c) ==
    /\ owner' = [owner EXCEPT ![c] = "nowhere"]
    /\ target' = [target EXCEPT ![c] = "none"]
    /\ UNCHANGED borrowed

Increment(n) == IF n = MaxCount THEN n ELSE n + 1
Decrement(n) == IF n = 0 THEN 0 ELSE n - 1

AddToList_Fault(o) ==
    IF mark[o] = "PossibleCycles"
    THEN UNCHANGED <<pc, pcSize, tracing, mark>>
    ELSE pc' = pc \cup {o} /\ pcSize' = pcSize + 1 /\ UNCHANGED tracing
         /\ mark' = [mark EXCEPT ![o] = "PossibleCycles"]

(* add_to_list: buffer o for the next collection unless it is buffered already. *)
AddToList(o) ==
    IF mark[o] = "PossibleCycles"
    THEN UNCHANGED <<pc, pcSize, tracing, mark>>
    ELSE /\ pc' = pc \cup {o}
         /\ pcSize' = pcSize + 1
         /\ tracing' = [tracing EXCEPT ![o] = 0]
         /\ mark' = [mark EXCEPT ![o] = "PossibleCycles"]

(* remove_from_list: take o out of the buffer if it is there. *)
RemoveFromList_Fault(o) == UNCHANGED <<pc, pcSize, mark>>

RemoveFromList(o) ==
    IF mark[o] = "PossibleCycles"
    THEN /\ mark' = [mark EXCEPT ![o] = "NonMarked"]
         /\ pc' = pc \ {o}
         /\ pcSize' = pcSize - 1
    ELSE UNCHANGED <<pc, pcSize, mark>>

(* cc_dealloc: the memory of the objects of S is given back. *)
Dealloc(S) ==
    /\ status' = [o \in Objects |-> IF o \in S THEN "free" ELSE status[o]]
    /\ counter' = [o \in Objects |-> IF o \in S THEN 0 ELSE counter[o]]
    /\ tracing' = [o \in Objects |-> IF o \in S THEN 0 ELSE tracing[o]]
    /\ finalized' = [o \in Objects |-> IF o \in S THEN FALSE ELSE finalized[o]]

-----------------------------------------------------------------------------
(* The call stack.  A frame is a running collect(), a finalizer or the drop  *)
(* glue of a value; saved is the flag its guard restores, cc the pointer     *)
(* whose Cc::drop is running, unwinding that drop glue runs during a panic.  *)

FrameOps == {"collect", "finalizeCc", "dropCc", "finalizeList", "dropList"}

Frame(op, o, c, saved) ==
    [op |-> op, obj |-> o, cc |-> c, saved |-> saved, unwinding |-> FALSE]

Top == stack[Len(stack)]
TopOp == IF stack = <<>> THEN "main" ELSE Top.op
Push(f) == stack' = Append(stack, f)
Popped == SubSeq(stack, 1, Len(stack) - 1)
WithTop(f) == [stack EXCEPT ![Len(stack)] = f]

(* Code of the program runs at top level, in finalizers and, for the fields  *)
(* that have destructors of their own, between the steps of drop glue.       *)
UserRunning ==
    /\ ~panicking
    /\ \/ TopOp \in {"main", "finalizeCc", "finalizeList"}
       \/ TopOp \in {"dropCc", "dropList"} /\ "Destructor" \in UserOps

(* The collector itself runs. *)
Collector(p) == ~panicking /\ TopOp = "collect" /\ phase = p

(* State::is_tracing, by which a Trace implementation and the debug checks of *)
(* Cc tell that the collector is tracing.                                     *)
IsTracing_Fault == collecting /\ ~finalizing
IsTracing == collecting /\ ~finalizing /\ ~dropping

(* The guard of replace_state_field! puts the flag back to what it was. *)
RestoreDropping_Fault == dropping' = FALSE
RestoreDropping == dropping' = Top.saved

(* What safe code can reach without the Ccs of Without: from the Ccs it      *)
(* holds, and from the &self a running finalizer was given.                  *)
Closed(S) == \A c \in Ccs : owner[c] \in S => target[c] \in S

Reachable(S) == {o \in Objects : \A T \in SUBSET Objects : S \subseteq T /\ Closed(T) => o \in T}

Held == {c \in Ccs : owner[c] = "program"}

Self == IF TopOp \in {"finalizeCc", "finalizeList"} THEN {Top.obj} ELSE {}

Accessible(without) == Reachable(Self \cup {target[c] : c \in Held \ without})

Usable(c) == owner[c] = "program" \/ owner[c] \in Accessible({})

-----------------------------------------------------------------------------
(* The operations of the program on its pointers. *)

(* Cc::new (the collection it may start first is CollectCycles). *)
New(c, o) ==
    /\ UserRunning
    /\ owner[c] = "nowhere" /\ status[o] = "free"
    /\ status' = [status EXCEPT ![o] = "live"]
    /\ counter' = [counter EXCEPT ![o] = 1]
    /\ tracing' = [tracing EXCEPT ![o] = 1]
    /\ mark' = [mark EXCEPT ![o] = "NonMarked"]
    /\ finalized' = [finalized EXCEPT ![o] = finalizing]
    /\ owner' = [owner EXCEPT ![c] = "program"]
    /\ target' = [target EXCEPT ![c] = o]
    /\ borrowed' = borrowed \ {o}
    /\ UNCHANGED <<pcVars, listVars, flagVars, loopVars, callVars>>

(* A pointer d to o comes into existence and marks o alive. *)
NewPointer(d, o) ==
    /\ owner[d] = "nowhere"
    /\ CanIncrement(o)      \* otherwise the operation panics: see UserPanic
    /\ counter' = [counter EXCEPT ![o] = @ + 1]
    /\ RemoveFromList(o)
    /\ owner' = [owner EXCEPT ![d] = "program"]
    /\ target' = [target EXCEPT ![d] = o]
    /\ UNCHANGED <<status, tracing, finalized, borrowed>>
    /\ UNCHANGED <<listVars, flagVars, loopVars, callVars>>

(* Cc::clone *)
Clone(c, d) ==
    /\ "Clone" \in UserOps /\ UserRunning
    /\ Usable(c)
    /\ NewPointer(d, target[c])

StrongCount_Fault(o) ==
    IF counter[o] = 0 \/ tracing[o] = DroppedTc THEN 0 ELSE counter[o]

(* Weak::strong_count of a weak pointer to o whose metadata is still accessible. *)
StrongCount(o) ==
    IF counter[o] = 0 \/ tracing[o] = DroppedTc \/ (InListOrQueue(o) /\ dropping)
    THEN 0
    ELSE counter[o]

(* Weak::upgrade, for a program that keeps a weak pointer to every allocation. *)
Upgrade(o, d) ==
    /\ "Upgrade" \in UserOps /\ UserRunning
    /\ status[o] # "free"       \* drop_metadata made it inaccessible otherwise
    /\ StrongCount(o) # 0
    /\ NewPointer(d, o)

(* Cc::mark_alive *)
MarkAlive(c) ==
    /\ "MarkAlive" \in UserOps /\ UserRunning
    /\ Usable(c)
    /\ RemoveFromList(target[c])
    /\ UNCHANGED <<status, counter, tracing, finalized>>
    /\ UNCHANGED <<ccVars, listVars, flagVars, loopVars, callVars>>

(* The program moves a Cc into, or out of, a value it can access.  The value *)
(* is borrowed during the move, so it is not accessed through the moved Cc.  *)
Store(c, o) ==
    /\ UserRunning
    /\ owner[c] = "program"
    /\ o \in Accessible({c})
    /\ owner' = [owner EXCEPT ![c] = o]
    /\ UNCHANGED <<target, borrowed>>
    /\ UNCHANGED <<boxVars, pcVars, listVars, flagVars, loopVars, callVars>>

Take(c) ==
    /\ "Take" \in UserOps /\ UserRunning
    /\ owner[c] \in Accessible({})
    /\ owner' = [owner EXCEPT ![c] = "program"]
    /\ UNCHANGED <<target, borrowed>>
    /\ UNCHANGED <<boxVars, pcVars, listVars, flagVars, loopVars, callVars>>

(* The program borrows the RefCell of a value it can access, or ends that;   *)
(* a guard may be leaked, and then the cell stays borrowed.                  *)
BorrowCell(o) ==
    /\ "Borrow" \in UserOps /\ UserRunning
    /\ o \in Accessible({})
    /\ \/ o \notin borrowed /\ borrowed' = borrowed \cup {o}
       \/ o \in borrowed /\ borrowed' = borrowed \ {o}
    /\ UNCHANGED <<owner, target>>
    /\ UNCHANGED <<boxVars, pcVars, listVars, flagVars, loopVars, callVars>>

(* Cc::try_unwrap when it succeeds: the value moves to the program and the   *)
(* allocation is given back.                                                 *)
TryUnwrap(c) ==
    /\ "TryUnwrap" \in UserOps /\ UserRunning
    /\ owner[c] = "program"
    /\ counter[target[c]] = 1
    /\ ~collecting /\ ~dropping /\ ~finalizing
    /\ RemoveFromList(target[c])
    /\ Dealloc({target[c]})
    /\ owner' = [d \in Ccs |-> IF d = c THEN "nowhere"
                               ELSE IF owner[d] = target[c] THEN "program"
                               ELSE owner[d]]
    /\ target' = [target EXCEPT ![c] = "none"]
    /\ UNCHANGED <<borrowed, listVars, flagVars, loopVars, callVars>>

(* Cc::finalize_again; elsewhere it panics without an effect: see UserPanic. *)
FinalizeAgain(c) ==
    /\ "FinalizeAgain" \in UserOps /\ UserRunning
    /\ Usable(c)
    /\ ~collecting /\ ~finalizing /\ ~dropping
    /\ finalized' = [finalized EXCEPT ![target[c]] = FALSE]
    /\ UNCHANGED <<status, counter, tracing, mark>>
    /\ UNCHANGED <<ccVars, pcVars, listVars, flagVars, loopVars, callVars>>

-----------------------------------------------------------------------------
(* Cc::drop, run by the program on a Cc it holds, or by drop glue on a Cc    *)
(* stored in the value being dropped.                                        *)

Droppable(c) ==
    \/ UserRunning /\ owner[c] = "program"
    \/ ~panicking /\ TopOp \in {"dropCc", "dropList"} /\ owner[c] = Top.obj

DropListed_Fault(c) ==
    /\ Droppable(c)
    /\ InListOrQueue(target[c])
    /\ Discard(c)
    /\ UNCHANGED <<boxVars, pcVars, listVars, flagVars, loopVars, callVars>>

(* The pointee is in a list of the running collection, which settles its fate. *)
DropListed(c) ==
    /\ Droppable(c)
    /\ InListOrQueue(target[c])
    /\ counter' = [counter EXCEPT ![target[c]] = Decrement(@)]
    /\ Discard(c)
    /\ UNCHANGED <<status, tracing, mark, finalized>>
    /\ UNCHANGED <<pcVars, listVars, flagVars, loopVars, callVars>>

(* handle_possible_cycle *)
HandlePossibleCycle(c) ==
    /\ counter' = [counter EXCEPT ![target[c]] = Decrement(@)]
    /\ Discard(c)
    /\ AddToList(target[c])

DropShared(c) ==
    /\ Droppable(c)
    /\ ~InListOrQueue(target[c])
    /\ counter[target[c]] # 1
    /\ HandlePossibleCycle(c)
    /\ UNCHANGED <<status, finalized, listVars, flagVars, loopVars, callVars>>

(* The last pointer to a value that was not finalized: call finalize. *)
DropFinalize(c) ==
    LET o == target[c] IN
    /\ Droppable(c)
    /\ ~InListOrQueue(o)
    /\ counter[o] = 1
    /\ NeedsFinalization(o)
    /\ finalized' = [finalized EXCEPT ![o] = TRUE]
    /\ owner' = [owner EXCEPT ![c] = "limbo"]
    /\ finalizing' = TRUE
    /\ Push(Frame("finalizeCc", o, c, finalizing))
    /\ UNCHANGED <<status, counter, tracing, mark, target, borrowed>>
    /\ UNCHANGED <<collecting, dropping, panicking>>
    /\ UNCHANGED <<pcVars, listVars, loopVars>>

(* The last pointer c to a finalized value goes away: its drop glue starts in *)
(* a frame on top of the frames below.                                        *)
DropValue(c, below) ==
    LET o == target[c] IN
    /\ counter' = [counter EXCEPT ![o] = Decrement(@)]
    /\ Discard(c)
    /\ RemoveFromList(o)
    /\ status' = [status EXCEPT ![o] = "dropped"]
    /\ tracing' = [tracing EXCEPT ![o] = DroppedTc]
    /\ dropping' = TRUE
    /\ stack' = Append(below, Frame("dropCc", o, "none", dropping))
    /\ UNCHANGED <<finalized, collecting, panicking, listVars, loopVars>>

DropLast(c) ==
    /\ Droppable(c)
    /\ ~InListOrQueue(target[c])
    /\ counter[target[c]] = 1
    /\ ~NeedsFinalization(target[c])
    /\ DropValue(c, stack)
    /\ UNCHANGED finalizing

(* finalize returns to Cc::drop: the value was resurrected, or is dropped now. *)
EndFinalizeCc ==
    /\ UserRunning /\ TopOp = "finalizeCc"
    /\ finalizing' = Top.saved
    /\ IF counter[Top.obj] # 1
       THEN /\ HandlePossibleCycle(Top.cc)
            /\ stack' = Popped
            /\ UNCHANGED <<status, finalized, collecting, dropping, panicking>>
            /\ UNCHANGED <<listVars, loopVars>>
       ELSE DropValue(Top.cc, Popped)

(* The drop glue of a value dropped by Cc::drop has dropped every field. *)
EndDropCc ==
    /\ ~panicking /\ TopOp = "dropCc"
    /\ Fields(Top.obj) = {}
    /\ RestoreDropping
    /\ stack' = Popped
    /\ panicking' = Top.unwinding
    /\ IF Top.unwinding
       THEN UNCHANGED <<status, counter, tracing, finalized>>
       ELSE Dealloc({Top.obj})
    /\ UNCHANGED <<mark, collecting, finalizing, ccVars, pcVars, listVars, loopVars>>

-----------------------------------------------------------------------------
(* collect() and __collect. *)

CollectCycles_Fault ==
    /\ UserRunning
    /\ collecting' = TRUE
    /\ phase' = "loop" /\ round' = 0
    /\ Push(Frame("collect", "none", "none", FALSE))
    /\ UNCHANGED <<boxVars, ccVars, pcVars, listVars, finalizing, dropping, panicking>>
    /\ UNCHANGED <<current, todo, work, listSize, hasFinalized>>

(* collect_cycles, or the trigger_collection of Cc::new when the buffer is   *)
(* large enough.                                                             *)
CollectCycles ==
    /\ UserRunning
    /\ ~collecting
    /\ collecting' = TRUE
    /\ phase' = "loop" /\ round' = 0
    /\ Push(Frame("collect", "none", "none", FALSE))
    /\ UNCHANGED <<boxVars, ccVars, pcVars, listVars, finalizing, dropping, panicking>>
    /\ UNCHANGED <<current, todo, work, listSize, hasFinalized>>

NextRound ==
    /\ Collector("loop")
    /\ pc # {} /\ round < MaxRounds
    /\ round' = round + 1
    /\ phase' = "counting"
    /\ UNCHANGED <<boxVars, ccVars, pcVars, listVars, flagVars, callVars>>
    /\ UNCHANGED <<current, todo, work, listSize, hasFinalized>>

EndCollect ==
    /\ Collector("loop")
    /\ pc = {} \/ round = MaxRounds
    /\ collecting' = FALSE
    /\ phase' = "idle" /\ round' = 0
    /\ stack' = Popped
    /\ UNCHANGED <<boxVars, ccVars, pcVars, listVars, finalizing, dropping, panicking>>
    /\ UNCHANGED <<current, todo, work, listSize, hasFinalized>>

(* __trace_counting starts on an object of possible_cycles, or on an object  *)
(* of the queue once possible_cycles is empty.                               *)
StartCounting(o) ==
    /\ Collector("counting") /\ current = "none"
    /\ \/ /\ o \in pc
          /\ pc' = pc \ {o} /\ pcSize' = pcSize - 1
          /\ UNCHANGED queue
       \/ /\ pc = {} /\ o \in queue
          /\ queue' = queue \ {o}
          /\ UNCHANGED pcVars
    /\ mark' = [mark EXCEPT ![o] = "InQueue"]
    /\ current' = o /\ todo' = TracedFields(o)
    /\ UNCHANGED <<status, counter, tracing, finalized, ccVars, rootList, nonRootList>>
    /\ UNCHANGED <<flagVars, callVars, phase, round, work, listSize, hasFinalized>>

(* CcBox::trace with ContextInner::Counting, for one Cc of the traced value. *)
CountListed(t) ==
    /\ InListOrQueue(t)
    /\ tracing' = [tracing EXCEPT ![t] = Increment(@)]
    /\ IF mark[t] = "InList" /\ counter[t] = tracing'[t]
       THEN rootList' = rootList \ {t} /\ nonRootList' = nonRootList \cup {t}
       ELSE UNCHANGED <<rootList, nonRootList>>
    /\ UNCHANGED <<mark, queue>>

CountBuffered(t) ==
    /\ mark[t] = "PossibleCycles"
    /\ tracing' = [tracing EXCEPT ![t] = Increment(@)]
    /\ UNCHANGED <<mark, listVars>>

CountNew_Fault(t) ==
    /\ mark[t] = "NonMarked"
    /\ tracing' = [tracing EXCEPT ![t] = Increment(@)]
    /\ mark' = [mark EXCEPT ![t] = "InQueue"]
    /\ queue' = queue \cup {t}
    /\ UNCHANGED <<rootList, nonRootList>>

CountNew(t) ==
    /\ mark[t] = "NonMarked"
    /\ tracing' = [tracing EXCEPT ![t] = 1]
    /\ mark' = [mark EXCEPT ![t] = "InQueue"]
    /\ queue' = queue \cup {t}
    /\ UNCHANGED <<rootList, nonRootList>>

TraceCounting(c) ==
    /\ Collector("counting") /\ c \in todo
    /\ todo' = todo \ {c}
    /\ CountListed(target[c]) \/ CountBuffered(target[c]) \/ CountNew(target[c])
    /\ UNCHANGED <<status, counter, finalized, ccVars, pcVars, flagVars, callVars>>
    /\ UNCHANGED <<phase, round, current, work, listSize, hasFinalized>>

(* __trace_counting ends: every Cc owned by the value was traced. *)
EndCounting ==
    /\ Collector("counting") /\ current # "none" /\ todo = {}
    /\ IF AllTraced(current)
       THEN nonRootList' = nonRootList \cup {current} /\ UNCHANGED rootList
       ELSE rootList' = rootList \cup {current} /\ UNCHANGED nonRootList
    /\ mark' = [mark EXCEPT ![current] = "InList"]
    /\ current' = "none"
    /\ UNCHANGED <<status, counter, tracing, finalized, ccVars, pcVars, queue>>
    /\ UNCHANGED <<flagVars, callVars, phase, round, todo, work, listSize, hasFinalized>>

EndTraceCounting ==
    /\ Collector("counting") /\ current = "none" /\ pc = {} /\ queue = {}
    /\ phase' = "roots"
    /\ UNCHANGED <<boxVars, ccVars, pcVars, listVars, flagVars, callVars>>
    /\ UNCHANGED <<round, current, todo, work, listSize, hasFinalized>>

(* __trace_roots starts on a root, or on an object of the queue once there   *)
(* is no root left.                                                          *)
StartRoot(o) ==
    /\ Collector("roots") /\ current = "none"
    /\ \/ /\ o \in rootList
          /\ rootList' = rootList \ {o}
          /\ UNCHANGED queue
       \/ /\ rootList = {} /\ o \in queue
          /\ queue' = queue \ {o}
          /\ UNCHANGED rootList
    /\ mark' = [mark EXCEPT ![o] = "NonMarked"]
    /\ current' = o /\ todo' = TracedFields(o)
    /\ UNCHANGED <<status, counter, tracing, finalized, ccVars, pcVars, nonRootList>>
    /\ UNCHANGED <<flagVars, callVars, phase, round, work, listSize, hasFinalized>>

(* CcBox::trace with ContextInner::RootTracing: what a root owns is no      *)
(* garbage; trace it too.                                                    *)
InNonRootList_Fault(t) == AllTraced(t)
InNonRootList(t) == mark[t] = "InList" /\ AllTraced(t)

Requeue_Fault(t) ==
    /\ nonRootList' = nonRootList \ {t}
    /\ mark' = [mark EXCEPT ![t] = "NonMarked"]
    /\ UNCHANGED queue

Requeue(t) ==
    /\ nonRootList' = nonRootList \ {t}
    /\ queue' = queue \cup {t}
    /\ mark' = [mark EXCEPT ![t] = "InQueue"]

TraceRoots(c) ==
    LET t == target[c] IN
    /\ Collector("roots") /\ c \in todo
    /\ todo' = todo \ {c}
    /\ IF InNonRootList(t)
       THEN Requeue(t)
       ELSE UNCHANGED <<nonRootList, queue, mark>>
    /\ UNCHANGED <<status, counter, tracing, finalized, ccVars, pcVars, rootList>>
    /\ UNCHANGED <<flagVars, callVars, phase, round, current, work, listSize, hasFinalized>>

EndRoot ==
    /\ Collector("roots") /\ current # "none" /\ todo = {}
    /\ current' = "none"
    /\ UNCHANGED <<boxVars, ccVars, pcVars, listVars, flagVars, callVars>>
    /\ UNCHANGED <<phase, round, todo, work, listSize, hasFinalized>>

(* trace_roots is done; finalize what is left in non_root_list, if anything. *)
EndTraceRoots ==
    /\ Collector("roots") /\ current = "none" /\ rootList = {} /\ queue = {}
    /\ IF nonRootList = {}
       THEN phase' = "loop" /\ UNCHANGED <<work, listSize, hasFinalized, finalizing, stack>>
       ELSE /\ phase' = "finalizing"
            /\ work' = nonRootList /\ listSize' = 0 /\ hasFinalized' = FALSE
            /\ finalizing' = TRUE
            /\ stack' = WithTop([Top EXCEPT !.saved = finalizing])
    /\ UNCHANGED <<boxVars, ccVars, pcVars, listVars, collecting, dropping, panicking>>
    /\ UNCHANGED <<round, current, todo>>

(* finalize_inner *)
FinalizeInner(o) ==
    /\ Collector("finalizing") /\ o \in work
    /\ work' = work \ {o}
    /\ listSize' = listSize + 1
    /\ IF NeedsFinalization(o)
       THEN /\ finalized' = [finalized EXCEPT ![o] = TRUE]
            /\ hasFinalized' = TRUE
            /\ Push(Frame("finalizeList", o, "none", FALSE))
       ELSE UNCHANGED <<finalized, hasFinalized, stack>>
    /\ UNCHANGED <<status, counter, tracing, mark, ccVars, pcVars, listVars, flagVars>>
    /\ UNCHANGED <<phase, round, current, todo, panicking>>

EndFinalizeList ==
    /\ UserRunning /\ TopOp = "finalizeList"
    /\ stack' = Popped
    /\ UNCHANGED <<boxVars, ccVars, pcVars, listVars, flagVars, loopVars, panicking>>

SwapAndAppend_Fault ==
    /\ pc' = nonRootList
    /\ pcSize' = listSize
    /\ tracing' = [o \in Objects |-> IF o \in nonRootList THEN 0 ELSE tracing[o]]
    /\ mark' = [o \in Objects |-> IF o \in nonRootList THEN "PossibleCycles" ELSE mark[o]]
    /\ nonRootList' = {}

(* A finalizer ran: swap_list and mark_self_and_append put the objects back  *)
(* into possible_cycles, in front of those buffered meanwhile.               *)
SwapAndAppend ==
    /\ pc' = nonRootList \cup pc
    /\ pcSize' = listSize + pcSize
    /\ tracing' = [o \in Objects |-> IF o \in nonRootList THEN 0 ELSE tracing[o]]
    /\ mark' = [o \in Objects |-> IF o \in nonRootList THEN "PossibleCycles" ELSE mark[o]]
    /\ nonRootList' = {}

EndFinalizing ==
    /\ Collector("finalizing") /\ work = {}
    /\ finalizing' = Top.saved
    /\ IF hasFinalized
       THEN /\ SwapAndAppend
            /\ phase' = "loop"
            /\ UNCHANGED <<work, dropping, stack>>
       ELSE /\ phase' = "dropping"
            /\ work' = nonRootList
            /\ dropping' = TRUE
            /\ stack' = WithTop([Top EXCEPT !.saved = dropping])
            /\ UNCHANGED <<pcVars, tracing, mark, nonRootList>>
    /\ UNCHANGED <<status, counter, finalized, ccVars, rootList, queue, collecting, panicking>>
    /\ listSize' = 0 /\ hasFinalized' = FALSE
    /\ UNCHANGED <<round, current, todo>>

(* drop_inner, called by deallocate_list on every element before any of them *)
(* is given back.                                                            *)
DropInner(o) ==
    /\ Collector("dropping") /\ o \in work
    /\ work' = work \ {o}
    /\ tracing' = [tracing EXCEPT ![o] = DroppedTc]
    /\ status' = [status EXCEPT ![o] = "dropped"]
    /\ Push(Frame("dropList", o, "none", FALSE))
    /\ UNCHANGED <<counter, mark, finalized, ccVars, pcVars, listVars, flagVars>>
    /\ UNCHANGED <<phase, round, current, todo, listSize, hasFinalized, panicking>>

EndDropInner ==
    /\ ~panicking /\ TopOp = "dropList"
    /\ Fields(Top.obj) = {}
    /\ stack' = Popped
    /\ panicking' = Top.unwinding
    /\ UNCHANGED <<boxVars, ccVars, pcVars, listVars, flagVars, loopVars>>

DeallocateList ==
    /\ Collector("dropping") /\ work = {}
    /\ Dealloc(nonRootList)
    /\ mark' = [o \in Objects |-> IF o \in nonRootList THEN "NonMarked" ELSE mark[o]]
    /\ nonRootList' = {}
    /\ RestoreDropping
    /\ phase' = "loop"
    /\ UNCHANGED <<ccVars, pcVars, rootList, queue, collecting, finalizing, callVars>>
    /\ UNCHANGED <<round, current, todo, work, listSize, hasFinalized>>

-----------------------------------------------------------------------------
(* Panics.  A panic inside a destructor that runs because of a panic aborts  *)
(* the process, so such a panic is not modelled.                             *)

(* Code of the program panics: of itself, or because an operation does.      *)
UserPanic ==
    /\ "Panic" \in UserOps /\ UserRunning
    /\ \A i \in 1..Len(stack) : ~stack[i].unwinding
    /\ stack # <<>>
    /\ panicking' = TRUE
    /\ UNCHANGED <<boxVars, ccVars, pcVars, listVars, flagVars, loopVars, stack>>

(* A Trace implementation panics, in either tracing phase. *)
TracePanic ==
    /\ "TracePanic" \in UserOps
    /\ Collector("counting") \/ Collector("roots")
    /\ current # "none"
    /\ \A i \in 1..Len(stack) : ~stack[i].unwinding
    /\ panicking' = TRUE
    /\ UNCHANGED <<boxVars, ccVars, pcVars, listVars, flagVars, loopVars, stack>>

(* catch_unwind in code of the program: at top level, in a finalizer, or in  *)
(* a destructor that called the operation which panicked.                    *)
Catch ==
    /\ panicking /\ TopOp # "collect"
    /\ panicking' = FALSE
    /\ UNCHANGED <<boxVars, ccVars, pcVars, listVars, flagVars, loopVars, stack>>

(* The panic leaves a finalizer.  Cc::drop gives up without decrementing. *)
UnwindFinalizer ==
    /\ panicking /\ TopOp \in {"finalizeCc", "finalizeList"}
    /\ finalizing' = IF TopOp = "finalizeCc" THEN Top.saved ELSE finalizing
    /\ stack' = Popped
    /\ UNCHANGED <<boxVars, ccVars, pcVars, listVars, collecting, dropping, loopVars, panicking>>

(* The panic reaches drop glue, which drops the remaining fields first. *)
UnwindDropGlue ==
    /\ panicking /\ TopOp \in {"dropCc", "dropList"}
    /\ stack' = WithTop([Top EXCEPT !.unwinding = TRUE])
    /\ panicking' = FALSE
    /\ UNCHANGED <<boxVars, ccVars, pcVars, listVars, flagVars, loopVars>>

(* The panic leaves collect(): the drops of its lists and guards. *)
UnwindCollect ==
    /\ panicking /\ TopOp = "collect"
    /\ mark' = [o \in Objects |-> IF o \in Listed THEN "NonMarked" ELSE mark[o]]
    /\ tracing' = [o \in Objects |-> IF phase = "dropping" /\ o \in nonRootList
                                     THEN DroppedTc ELSE tracing[o]]
    /\ rootList' = {} /\ nonRootList' = {} /\ queue' = {}
    /\ finalizing' = IF phase = "finalizing" THEN Top.saved ELSE finalizing
    /\ dropping' = IF phase = "dropping" THEN Top.saved ELSE dropping
    /\ collecting' = FALSE
    /\ phase' = "idle" /\ round' = 0 /\ current' = "none" /\ todo' = {} /\ work' = {}
    /\ listSize' = 0 /\ hasFinalized' = FALSE
    /\ stack' = Popped
    /\ UNCHANGED <<status, counter, finalized, ccVars, pcVars, panicking>>

-----------------------------------------------------------------------------
(* The specification. *)

Init ==
    /\ status = [o \in Objects |-> "free"]
    /\ counter = [o \in Objects |-> 0]
    /\ tracing = [o \in Objects |-> 0]
    /\ mark = [o \in Objects |-> "NonMarked"]
    /\ finalized = [o \in Objects |-> FALSE]
    /\ owner = [c \in Ccs |-> "nowhere"]
    /\ target = [c \in Ccs |-> "none"]
    /\ borrowed = {}
    /\ pc = {} /\ pcSize = 0
    /\ rootList = {} /\ nonRootList = {} /\ queue = {}
    /\ collecting = FALSE /\ finalizing = FALSE /\ dropping = FALSE
    /\ phase = "idle" /\ round = 0 /\ current = "none" /\ todo = {} /\ work = {}
    /\ listSize = 0 /\ hasFinalized = FALSE
    /\ stack = <<>> /\ panicking = FALSE

(* What the program chooses to do. *)
UserStep ==
    \/ \E c \in Ccs, o \in Objects : New(c, o) \/ Upgrade(o, c) \/ Store(c, o)
    \/ \E o \in Objects : BorrowCell(o)
    \/ \E c, d \in Ccs : Clone(c, d)
    \/ \E c \in Ccs : MarkAlive(c) \/ Take(c) \/ TryUnwrap(c) \/ FinalizeAgain(c)
    \/ CollectCycles \/ UserPanic \/ TracePanic \/ Catch

CcDrop(c) == DropListed(c) \/ DropShared(c) \/ DropFinalize(c) \/ DropLast(c)

(* The program returns from a finalizer. *)
UserReturn == EndFinalizeCc \/ EndFinalizeList

(* What the library does once it was called. *)
CollectorStep ==
    \/ NextRound \/ EndCollect
    \/ \E o \in Objects : StartCounting(o) \/ StartRoot(o) \/ FinalizeInner(o) \/ DropInner(o)
    \/ \E c \in Ccs : TraceCounting(c) \/ TraceRoots(c)
    \/ EndCounting \/ EndTraceCounting \/ EndRoot \/ EndTraceRoots
    \/ EndFinalizing \/ DeallocateList

GlueStep ==
    \/ \E c \in Ccs : TopOp \in {"dropCc", "dropList"} /\ owner[c] = Top.obj /\ CcDrop(c)
    \/ EndDropCc \/ EndDropInner

UnwindStep == UnwindFinalizer \/ UnwindDropGlue \/ UnwindCollect

Next ==
    \/ UserStep
    \/ \E c \in Ccs : CcDrop(c)
    \/ UserReturn \/ CollectorStep \/ EndDropCc \/ EndDropInner \/ UnwindStep

Spec == Init /\ [][Next]_vars

(* The library does not block, so once called it proceeds; and every         *)
(* finalizer and destructor, at each depth of the call stack, eventually     *)
(* returns, whatever it does before.  A frame stands for a different object  *)
(* each, except that of collect, which bounds the depth.                     *)
Fairness ==
    /\ WF_vars(CollectorStep) /\ WF_vars(UnwindStep)
    /\ \A n \in 1..(Cardinality(Objects) + 1) :
        SF_vars(Len(stack) = n /\ (GlueStep \/ UserReturn))

FairSpec == Spec /\ Fairness

(* A program that calls collect_cycles again and again. *)
CollectingSpec == FairSpec /\ SF_vars(CollectCycles)
=============================================================================
