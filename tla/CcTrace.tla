------------------------------- MODULE CcTrace -------------------------------
(***************************************************************************)
(* Which Ccs a Trace implementation visits: the implementations for library *)
(* types (trace.rs), those of Cc, Weak and the cleaners, and what the derive *)
(* macros generate (derive/src/lib.rs).                                      *)
(*                                                                           *)
(* A value is a tree of Nodes below Root.  A "cc" is a Cc, a "leaf" a value   *)
(* that traces nothing (empty_trace!, PhantomData, Weak, the cleaners, or an *)
(* implementation of the program that panics), a "cell" a RefCell, a "group" *)
(* a type that forwards to what it contains (Box, Option, Result, arrays,    *)
(* Vec, tuples, NewCyclicWrapper, CcBox), and a "struct" a type with          *)
(* derive(Trace) and a Finalize of the program.                              *)
(***************************************************************************)
EXTENDS Integers, Sequences, FiniteSets, SequencesExt

CONSTANTS
    Nodes, Root,
    Kind,        \* of each node
    Ignored,     \* the fields and variants under #[rust_cc(ignore)]
    Values,      \* what the program may wrap in a Cc: the content of each node
    MaxContent   \* bound: the length of a group

(* What is found from n over the edges more. *)
From(n, more) ==
    LET found[k \in 0..Cardinality(Nodes)] ==
            IF k = 0 THEN {n}
            ELSE LET before == found[k - 1]
                 IN  before \cup UNION {more[m] : m \in before}
    IN  found[Cardinality(Nodes)]

PartsIn(value) == [n \in Nodes |-> ToSet(value[n])]

(* Ownership: what a node contains is in no other place, and not around it.    *)
IsOwned(value) ==
    /\ \A m, n \in Nodes : \A i \in 1..Len(value[m]), j \in 1..Len(value[n]) :
         value[m][i] = value[n][j] => m = n /\ i = j
    /\ \A n \in Nodes : \A i \in 1..Len(value[n]) :
         /\ value[n][i] # Root
         /\ n \notin From(value[n][i], PartsIn(value))
         /\ Kind[n] \notin {"cc", "leaf"}

ASSUME NodesAssumption == IsFiniteSet(Nodes) /\ Root \in Nodes
ASSUME KindAssumption == Kind \in [Nodes -> {"cc", "leaf", "cell", "group", "struct"}]
ASSUME ValuesAssumption == Values \subseteq {value \in [Nodes -> Seq(Nodes)] : IsOwned(value)}

VARIABLES
    content,   \* what a node contains, in the order it is visited
    flag,      \* the borrow flag of a RefCell: -1, or the number of shared borrows
    guards,    \* the guard of a RefCell the program holds: "mut", "shared" or "none"
    agenda,    \* what the calls in progress have still to do, the innermost first
    traced,    \* the Ccs the present trace call has visited
    earlier,   \* those the first call of the same tracing phase visited
    phase      \* "idle", "counting", "between" or "roots": the collector's calls

valueVars == <<content, flag, guards>>
phaseVars == <<traced, earlier, phase>>
vars == <<valueVars, agenda, phaseVars>>

Cells == {n \in Nodes : Kind[n] = "cell"}

(* A call visits nodes, gives the borrow of a cell back, or is a finalizer of *)
(* the program that runs.                                                    *)
Task(op, do, n) == [op |-> op, do |-> do, node |-> n]
Visits(op, ns) == [i \in 1..Len(ns) |-> Task(op, "visit", ns[i])]
Returned == agenda # <<>> => agenda[1].do = "run"

Visiting(op, kinds) ==
    /\ agenda # <<>>
    /\ agenda[1].op = op /\ agenda[1].do = "visit" /\ Kind[agenda[1].node] \in kinds
Visited == agenda[1].node

Calls(tasks) == agenda' = tasks \o Tail(agenda)

Parts(n) == ToSet(content[n])

Inside(n) == From(n, PartsIn(content))
Around(n) == {c \in Cells \ {n} : n \in Inside(c)}

-----------------------------------------------------------------------------
(* The program: it runs between collections and in its finalizers.  A guard is *)
(* taken by a path on which each cell is borrowed already.                     *)

UserRuns == phase = "idle" /\ Returned

Lent(d) == flag[d] > 0 /\ agenda # <<>> /\ agenda[1].node \in Inside(d)

Guarded(c) == guards[c] # "none"

(* The guards that exist do not need the borrow of a call that ends. *)
GuardsOutlive == \A c \in Cells : Guarded(c) => \A d \in Around(c) : Guarded(d)

Borrow(c) ==
    /\ UserRuns /\ guards[c] = "none"
    /\ c \in Inside(Root)
    /\ \A d \in Around(c) : Guarded(d) \/ Lent(d)
    /\ \/ /\ flag[c] = 0
          /\ flag' = [flag EXCEPT ![c] = -1] /\ guards' = [guards EXCEPT ![c] = "mut"]
       \/ /\ flag[c] >= 0
          /\ flag' = [flag EXCEPT ![c] = @ + 1] /\ guards' = [guards EXCEPT ![c] = "shared"]
    /\ UNCHANGED <<content, agenda, phaseVars>>

DropGuard(c) ==
    /\ UserRuns /\ Guarded(c)
    /\ \A d \in Cells : c \in Around(d) => ~Guarded(d)
    /\ flag' = [flag EXCEPT ![c] = IF guards[c] = "mut" THEN 0 ELSE @ - 1]
    /\ guards' = [guards EXCEPT ![c] = "none"]
    /\ UNCHANGED <<content, agenda, phaseVars>>

(* A group can be changed through the mutable guard of the cell it is in. *)
Mutable(g) ==
    /\ Kind[g] = "group"
    /\ \E c \in Cells :
         /\ guards[c] = "mut" /\ g \in Inside(c)
         /\ \A d \in Around(g) : c \in Around(d) => ~Guarded(d)

Detach(g, i) ==
    /\ UserRuns /\ Mutable(g)
    /\ \A c \in Cells : c \in Inside(content[g][i]) => flag[c] = 0
    /\ content' = [content EXCEPT ![g] = RemoveAt(@, i)]
    /\ UNCHANGED <<flag, guards, agenda, phaseVars>>

Attach(g, n) ==
    /\ UserRuns /\ Mutable(g)
    /\ n # Root /\ \A m \in Nodes : n \notin Parts(m)
    /\ Len(content[g]) < MaxContent
    /\ content' = [content EXCEPT ![g] = Append(@, n)]
    /\ UNCHANGED <<flag, guards, agenda, phaseVars>>

-----------------------------------------------------------------------------
(* A tracing phase: the value is traced to count the Ccs it owns, and once more *)
(* if it is reached from a root.                                                *)

StartCounting ==
    /\ UserRuns
    /\ phase' = "counting" /\ traced' = <<>> /\ earlier' = <<>>
    /\ agenda' = <<Task("trace", "visit", Root)>> \o agenda
    /\ UNCHANGED valueVars

EndCounting ==
    /\ phase = "counting" /\ Returned
    /\ phase' = "between" /\ earlier' = traced
    /\ UNCHANGED <<valueVars, agenda, traced>>

StartRoots ==
    /\ phase = "between"
    /\ phase' = "roots" /\ traced' = <<>>
    /\ agenda' = <<Task("trace", "visit", Root)>> \o agenda
    /\ UNCHANGED <<valueVars, earlier>>

EndPhase ==
    /\ phase = "between" \/ (phase = "roots" /\ Returned)
    /\ phase' = "idle" /\ traced' = <<>> /\ earlier' = <<>>
    /\ UNCHANGED <<valueVars, agenda>>

(* Cc::trace: the collector is told of the pointer, CcBox::trace goes no deeper. *)
TraceCc ==
    /\ Visiting("trace", {"cc"})
    /\ traced' = Append(traced, Visited)
    /\ Calls(<<>>)
    /\ UNCHANGED <<valueVars, earlier, phase>>

TraceNothing ==
    /\ Visiting("trace", {"leaf"})
    /\ Calls(<<>>)
    /\ UNCHANGED <<valueVars, phaseVars>>

(* The macro deref_trace! generates this for trace and for finalize. *)
Forward(op) ==
    /\ Visiting(op, {"group"})
    /\ Calls(Visits(op, content[Visited]))

TraceForward ==
    /\ Forward("trace")
    /\ UNCHANGED <<valueVars, phaseVars>>

(* derive(Trace): the fields of the present variant without an ignore attribute. *)
AttrContainsIgnore(n) == n \in Ignored

Derived_Fault(ns) == ns     \* a mutant: the attribute is not looked at
Derived(ns) ==
    LET kept[k \in 0..Len(ns)] ==
            IF k = 0 THEN <<>>
            ELSE IF AttrContainsIgnore(ns[k]) THEN kept[k - 1] ELSE Append(kept[k - 1], ns[k])
    IN  kept[Len(ns)]

TraceStruct ==
    /\ Visiting("trace", {"struct"})
    /\ Calls(Visits("trace", Derived(content[Visited])))
    /\ UNCHANGED <<valueVars, phaseVars>>

(* RefCell: try_borrow_mut, and nothing when the cell is borrowed. *)
TraceCell ==
    /\ Visiting("trace", {"cell"})
    /\ IF flag[Visited] = 0
       THEN /\ flag' = [flag EXCEPT ![Visited] = -1]
            /\ Calls(Append(Visits("trace", content[Visited]), Task("trace", "release", Visited)))
       ELSE Calls(<<>>) /\ UNCHANGED flag
    /\ UNCHANGED <<content, guards, phaseVars>>

EndTraceCell_Fault ==       \* a mutant: the guard is forgotten
    /\ agenda # <<>> /\ agenda[1].op = "trace" /\ agenda[1].do = "release"
    /\ Calls(<<>>)
    /\ UNCHANGED <<valueVars, phaseVars>>

EndTraceCell ==
    /\ agenda # <<>> /\ agenda[1].op = "trace" /\ agenda[1].do = "release"
    /\ flag' = [flag EXCEPT ![Visited] = 0]
    /\ Calls(<<>>)
    /\ UNCHANGED <<content, guards, phaseVars>>

-----------------------------------------------------------------------------
(* Finalize: Cc::drop calls it outside of a collection, and the finalizer may  *)
(* start one; a call by the collector allows less.                             *)

StartFinalize ==
    /\ phase = "idle" /\ agenda = <<>>
    /\ agenda' = <<Task("finalize", "visit", Root)>>
    /\ UNCHANGED <<valueVars, phaseVars>>

(* The default finalize does nothing, that of a Cc as well. *)
FinalizeNothing ==
    /\ Visiting("finalize", {"cc", "leaf"})
    /\ Calls(<<>>)
    /\ UNCHANGED <<valueVars, phaseVars>>

FinalizeForward ==
    /\ Forward("finalize")
    /\ UNCHANGED <<valueVars, phaseVars>>

(* The program's finalizer, or the derived one, which does not forward. *)
FinalizeStruct ==
    /\ Visiting("finalize", {"struct"})
    /\ Calls(<<Task("finalize", "run", Visited)>>)
    /\ UNCHANGED <<valueVars, phaseVars>>

EndFinalizer ==
    /\ UserRuns /\ agenda # <<>> /\ GuardsOutlive
    /\ Calls(<<>>)
    /\ UNCHANGED <<valueVars, phaseVars>>

(* A mutant: the guard is dropped before the content is finalized. *)
FinalizeCell_Fault ==
    /\ Visiting("finalize", {"cell"})
    /\ IF flag[Visited] >= 0 THEN Calls(Visits("finalize", content[Visited])) ELSE Calls(<<>>)
    /\ UNCHANGED <<valueVars, phaseVars>>

(* RefCell: try_borrow, held while the content is finalized. *)
FinalizeCell ==
    /\ Visiting("finalize", {"cell"})
    /\ IF flag[Visited] >= 0
       THEN /\ flag' = [flag EXCEPT ![Visited] = @ + 1]
            /\ Calls(Append(Visits("finalize", content[Visited]), Task("finalize", "release", Visited)))
       ELSE Calls(<<>>) /\ UNCHANGED flag
    /\ UNCHANGED <<content, guards, phaseVars>>

EndFinalizeCell ==
    /\ agenda # <<>> /\ agenda[1].op = "finalize" /\ agenda[1].do = "release"
    /\ flag' = [flag EXCEPT ![Visited] = @ - 1]
    /\ Calls(<<>>)
    /\ UNCHANGED <<content, guards, phaseVars>>

-----------------------------------------------------------------------------
(* A panic unwinds to where the program catches it, in a finalizer or outside; *)
(* the guards of the calls it leaves are dropped.                              *)

Unwind_Fault(k) ==       \* a mutant: the borrows are left over
    agenda' = SubSeq(agenda, k + 1, Len(agenda)) /\ UNCHANGED flag

Unwind(k) ==
    LET left == {agenda[i] : i \in 1..k}
    IN  /\ agenda' = SubSeq(agenda, k + 1, Len(agenda))
        /\ flag' = [c \in Cells |->
             IF Task("trace", "release", c) \in left THEN 0
             ELSE IF Task("finalize", "release", c) \in left THEN flag[c] - 1
             ELSE flag[c]]

(* It is always safe to panic in Trace. *)
TracePanic ==
    /\ Visiting("trace", {"leaf"})
    /\ \E k \in 1..Len(agenda) :
         /\ k < Len(agenda) => agenda[k + 1].do = "run"
         /\ (\E i \in 1..k : agenda[i].do = "run") => GuardsOutlive
         /\ Unwind(k)
    /\ phase' = "idle" /\ traced' = <<>> /\ earlier' = <<>>
    /\ UNCHANGED <<content, guards>>

FinalizerPanic ==
    /\ UserRuns /\ agenda # <<>> /\ GuardsOutlive
    /\ Unwind(Len(agenda))
    /\ UNCHANGED <<content, guards, phaseVars>>

-----------------------------------------------------------------------------
Init ==
    /\ content \in Values
    /\ flag = [c \in Cells |-> 0]
    /\ guards = [c \in Cells |-> "none"]
    /\ agenda = <<>>
    /\ traced = <<>> /\ earlier = <<>> /\ phase = "idle"

UserStep ==
    \/ \E c \in Cells : Borrow(c) \/ DropGuard(c)
    \/ \E g \in Nodes : \E i \in 1..Len(content[g]) : Detach(g, i)
    \/ \E g, n \in Nodes : Attach(g, n)
    \/ EndFinalizer \/ FinalizerPanic

TraceStep ==
    \/ StartCounting \/ EndCounting \/ StartRoots \/ EndPhase
    \/ TraceCc \/ TraceNothing \/ TraceForward \/ TraceStruct
    \/ TraceCell \/ EndTraceCell \/ TracePanic

FinalizeStep ==
    \/ StartFinalize \/ FinalizeNothing \/ FinalizeForward \/ FinalizeStruct
    \/ FinalizeCell \/ EndFinalizeCell

Next == UserStep \/ TraceStep \/ FinalizeStep

Spec == Init /\ [][Next]_vars

-----------------------------------------------------------------------------
(* "maximum once every Cc instance exclusively owned by self" (trace.rs): a    *)
(* call visits no Cc twice, and when it returns it has visited the Ccs of the  *)
(* value except those under an ignored field or in a RefCell of which a guard  *)
(* exists, of the program or of a finalize in progress.  No borrow that an     *)
(* earlier call took, and that ended by a panic, keeps a Cc from being visited. *)
Finalizing(c) == \E i \in 1..Len(agenda) : agenda[i] = Task("finalize", "release", c)

Open(n) ==
    CASE Kind[n] = "struct" -> Parts(n) \ Ignored
      [] Kind[n] = "cell" /\ (Guarded(n) \/ Finalizing(n)) -> {}
      [] OTHER -> Parts(n)

Traceable == {n \in From(Root, [m \in Nodes |-> Open(m)]) : Kind[n] = "cc"}

TraceExact ==
    phase \in {"counting", "roots"} =>
        /\ \A i, j \in 1..Len(traced) : traced[i] = traced[j] => i = j
        /\ ToSet(traced) \subseteq Inside(Root)
        /\ Returned => ToSet(traced) = Traceable

(* Two calls of one tracing phase trace the same Ccs, and a second one that     *)
(* panics a part of them (trace.rs): the collector subtracts what the second    *)
(* finds from what the first has counted.                                       *)
SameInPhase ==
    phase = "roots" => /\ IsPrefix(traced, earlier)
                       /\ Returned => traced = earlier

(* What a call of trace or finalize has still to visit stays where it is: no    *)
(* finalizer, nested collection or panic moves it or lends it for mutation      *)
(* while the call holds a reference to it.                                      *)
VisitedStays ==
    \A i \in 1..Len(agenda) :
        LET n == agenda[i].node
        IN  /\ n \in Inside(Root)
            /\ agenda[i].do = "visit" =>
                 \A c \in Around(n) : guards[c] # "mut"

=============================================================================
