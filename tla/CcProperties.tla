---------------------------- MODULE CcProperties ----------------------------
(* What makes the collector of CcCollector correct. *)
EXTENDS CcCollector

Frames ==
    [op : FrameOps, obj : Objects \cup {"none"}, cc : Ccs \cup {"none"},
     saved : BOOLEAN, unwinding : BOOLEAN]

TypeOK ==
    /\ status \in [Objects -> {"free", "live", "dropped"}]
    /\ counter \in [Objects -> 0..MaxCount]
    /\ tracing \in [Objects -> Nat]
    /\ mark \in [Objects -> Marks]
    /\ finalized \in [Objects -> BOOLEAN]
    /\ owner \in [Ccs -> Objects \cup {"program", "limbo", "nowhere"}]
    /\ target \in [Ccs -> Objects \cup {"none"}]
    /\ borrowed \subseteq Objects
    /\ pc \subseteq Objects /\ pcSize \in Int
    /\ rootList \subseteq Objects /\ nonRootList \subseteq Objects /\ queue \subseteq Objects
    /\ collecting \in BOOLEAN /\ finalizing \in BOOLEAN /\ dropping \in BOOLEAN
    /\ phase \in {"idle", "loop", "counting", "roots", "finalizing", "dropping"}
    /\ round \in 0..MaxRounds
    /\ current \in Objects \cup {"none"} /\ todo \subseteq Ccs
    /\ work \subseteq Objects /\ listSize \in Nat /\ hasFinalized \in BOOLEAN
    /\ stack \in Seq(Frames)
    /\ panicking \in BOOLEAN

(* The reference counter of an allocation is the number of Ccs that point to *)
(* it, at every point where code of the program can look (cc.rs, clone and   *)
(* drop; weak/mod.rs, upgrade), a Cc whose drop gave up in a panic included. *)
CounterExact ==
    \A o \in Objects : status[o] # "free" => counter[o] = Cardinality(Pointing(o))

(* What the program can reach was neither dropped nor given back: not by the *)
(* collector while it is reachable, and not reachable again by Weak::upgrade *)
(* or through a finalizer once its destruction is decided.                   *)
AccessibleIsLive ==
    \A o \in Accessible({}) : status[o] = "live" /\ tracing[o] # DroppedTc

(* The mark says in which list an object is; an object is in one list only;  *)
(* the size field of PossibleCycles is its length.  remove_from_list and     *)
(* add_to_list follow the mark only, so a wrong mark unlinks an element from *)
(* a list it is not in.                                                      *)
MarksMatchLists ==
    LET current1 == IF phase = "counting" THEN {current} \ {"none"} ELSE {} IN
    /\ pcSize = Cardinality(pc)
    /\ rootList \cap nonRootList = {} /\ queue \cap current1 = {}
    /\ \A o \in Objects :
        /\ mark[o] = "PossibleCycles" <=> o \in pc
        /\ mark[o] = "InList" <=> o \in rootList \cup nonRootList
        /\ mark[o] = "InQueue" <=> o \in queue \cup current1

(* What the collector traces, buffers or counts is a live allocation: no     *)
(* list keeps an object that was dropped or given back.                      *)
ListedIsLive ==
    /\ \A o \in pc \cup rootList \cup queue : status[o] = "live" /\ tracing[o] # DroppedTc
    /\ \A o \in nonRootList :
        status[o] = "live" \/ (phase = "dropping" /\ o \notin work /\ status[o] = "dropped")
    /\ current # "none" => status[current] = "live"

(* During trace_counting the tracing counter of every object that was met is *)
(* the number of its Ccs traced so far, so that it never exceeds the         *)
(* reference counter and equals it only if no Cc is held outside.            *)
Traced ==
    (UNION {TracedFields(o) : o \in rootList \cup nonRootList})
        \cup (IF current = "none" THEN {} ELSE TracedFields(current) \ todo)

TracingExact ==
    phase = "counting" =>
        \A o \in Objects :
            mark[o] # "NonMarked" => tracing[o] = Cardinality(Traced \cap Pointing(o))

(* A buffered object has been met by nobody when a tracing phase starts:     *)
(* "The tracing counter has already been reset by add_to_list" (lib.rs).     *)
BufferedIsReset == phase \notin {"counting"} => \A o \in pc : tracing[o] = 0

(* Once the collector decided to drop non_root_list, only members of the     *)
(* list hold Ccs to members: neither a finalizer nor a destructor, nor a     *)
(* weak pointer, has brought one of them back.                               *)
DoomedIsUnreachable ==
    (phase = "dropping" \/ (phase = "finalizing" /\ ~hasFinalized)) =>
        \A c \in Ccs : target[c] \in nonRootList => owner[c] \in nonRootList

(* The flags of State describe the call stack, through nested calls, nested  *)
(* collections and panics alike: when everything returned they are all off.  *)
FlagsMatchStack ==
    LET running(op) == \E i \in 1..Len(stack) : stack[i].op = op IN
    /\ collecting <=> running("collect")
    /\ finalizing <=> running("finalizeCc") \/ phase = "finalizing"
    /\ dropping <=> running("dropCc") \/ phase = "dropping"

(* is_tracing is true for no finalizer, destructor or other code of the      *)
(* program, which the debug checks of Cc and Weak would panic in, and true   *)
(* for a Trace implementation, unless a finalizer or destructor that runs in *)
(* a call of Cc::drop has started the collection (state.rs, trace.rs).       *)
IsTracingTells ==
    LET nested == \E i \in 1..Len(stack) : stack[i].op \in {"finalizeCc", "dropCc"} IN
    /\ TopOp # "collect" => ~IsTracing
    /\ phase \in {"counting", "roots"} => (IsTracing <=> ~nested)

(* The objects that nobody but other garbage points to: a Cc held by the     *)
(* program, in a call of Cc::drop, left in a value whose drop glue runs, or  *)
(* stored where Trace does not visit it keeps its pointee alive.             *)
Keeping ==
    {c \in Ccs : \/ owner[c] \in {"program", "limbo"} \cup borrowed
                 \/ c \in Untraced /\ owner[c] # "nowhere"
                 \/ owner[c] \in Objects /\ status[owner[c]] = "dropped"}

Garbage == {o \in Objects : status[o] = "live"} \ Reachable({target[c] : c \in Keeping})

(* Nothing leaks: every garbage object is in a list of the collector, or     *)
(* owned through Ccs by one that is, so the collector will come across it.   *)
(* mark_alive, clone, upgrade, trace_roots and Cc::drop all take objects out *)
(* of the lists or leave them out.                                           *)
GarbageIsBuffered ==
    Garbage \subseteq Reachable(pc \cup Listed)

(* A collection ends, whatever graph it finds and whatever the finalizers    *)
(* and destructors do, as long as each of them returns (lib.rs, collect).    *)
CollectionEnds == collecting ~> ~collecting

(* What a collection still has to do in its round: the objects it did not    *)
(* reach in this phase, and those it reached and has still to trace.         *)
Unreached ==
    {o \in Objects : \/ phase = "counting" /\ mark[o] = "NonMarked"
                     \/ phase = "roots" /\ o \in nonRootList
                     \/ phase \in {"finalizing", "dropping"} /\ o \in work}

Waiting ==
    {o \in Objects : \/ phase = "counting" /\ o \in pc \cup queue
                     \/ phase = "roots" /\ o \in rootList \cup queue}

PhaseOrder ==
    {<<"counting", "roots">>, <<"roots", "finalizing">>, <<"roots", "loop">>,
     <<"finalizing", "dropping">>, <<"finalizing", "loop">>, <<"dropping", "loop">>}

Advances ==
    \/ round' = round + 1
    \/ round' = round /\ <<phase, phase'>> \in PhaseOrder
    \/ /\ UNCHANGED <<round, phase>>
       /\ \/ Unreached' \subseteq Unreached /\ Unreached' # Unreached
          \/ /\ Unreached' = Unreached
             /\ \/ Waiting' \subseteq Waiting /\ Waiting' # Waiting
                \/ Waiting' = Waiting /\ current # "none" /\ current' = "none"
                \/ UNCHANGED <<Waiting, current>> /\ todo' \subseteq todo /\ todo' # todo

(* Each step of the collector brings a collection nearer to its end, and     *)
(* nothing that a finalizer, a destructor or a panic does meanwhile takes it *)
(* back: no object is traced twice in a phase or finalized or dropped twice  *)
(* in a round, and there are MaxRounds rounds (lib.rs, collect, __collect).  *)
Forward ==
    phase # "idle" /\ phase' # "idle" =>
        \/ Advances
        \/ /\ TopOp # "collect" \/ panicking'
           /\ UNCHANGED <<round, phase, Unreached, Waiting, current, todo>>

CollectionAdvances == [][Forward]_vars

(* A program that calls collect_cycles again and again gets rid of all       *)
(* garbage: no object stays garbage for ever.                                *)
GarbageIsReclaimed == \A o \in Objects : (o \in Garbage) ~> (o \notin Garbage)

=============================================================================
