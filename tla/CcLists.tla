------------------------------- MODULE CcLists -------------------------------
(***************************************************************************)
(* The intrusive lists (lists.rs) at the level of their pointers.  Each     *)
(* CcBox has one next and one prev link, so an allocation can be in one list *)
(* at a time; which one is told by its mark, set by the users of the lists   *)
(* (cc.rs, lib.rs).  Operations run to completion on one thread, but the     *)
(* iterations over non_root_list call finalizers and destructors, which use  *)
(* the buffer POSSIBLE_CYCLES meanwhile, and the last one frees the          *)
(* allocations it walks over.                                                *)
(*                                                                           *)
(* Which object moves where is left open here, as far as the calls allow it; *)
(* CcCollector decides it.  Tracing counters are in CcCollector too.         *)
(***************************************************************************)
EXTENDS Naturals, Sequences, FiniteSets, SequencesExt

CONSTANTS
    Objects,   \* the memory blocks allocations may occupy
    None       \* Option::None

ASSUME NoneAssumption == None \notin Objects
ASSUME FiniteAssumption == IsFiniteSet(Objects)

VARIABLES
    mem,        \* the links and marks of the CcBoxes, and the fields of the lists
    alloc,      \* the blocks that hold a CcBox
    phase,      \* what the collector does: one of Phases
    current,    \* the object whose value is being traced
    cursor,     \* Iter::next of the iteration over non_root_list
    listSize    \* non_root_list_size

vars == <<mem, alloc, phase, current, cursor, listSize>>

Links == Objects \cup {None}
Marks == {"NonMarked", "PossibleCycles", "InList", "InQueue"}
Phases == {"idle", "counting", "roots", "finalizing", "dropping", "freeing", "ended"}
ListNames == {"pc", "root", "nonRoot", "queue"}

-----------------------------------------------------------------------------
(* The operations, from a memory h to the memory they leave. *)

(* Iter::next i times, from f on.  A walk that comes back to an element is   *)
(* cut after one step too many.                                              *)
Follow(h, f) ==
    LET at[i \in 0..Cardinality(Objects)] ==
            IF i = 0 THEN f
            ELSE IF at[i - 1] = None THEN None
            ELSE h.next[at[i - 1]]
    IN  at

(* The elements that Iter visits from f on *)
Walk(h, f) ==
    LET at == Follow(h, f)
    IN  [i \in 1..Cardinality({k \in DOMAIN at : at[k] # None}) |-> at[i - 1]]

Content(h, l) == Walk(h, h.first[l])

SetMark(h, o, m) == [h EXCEPT !.mark[o] = m]

(* LinkedList::add and PossibleCycles::add *)
AddFirst_Fault(h, l, o) ==
    [h EXCEPT !.next[o] = h.first[l], !.first[l] = o]

AddFirst(h, l, o) ==
    LET f == h.first[l]
        linked == IF f = None THEN h ELSE [h EXCEPT !.prev[f] = o, !.next[o] = f]
    IN  [linked EXCEPT !.first[l] = o]

(* LinkedList::remove and PossibleCycles::remove: the neighbours of o are     *)
(* linked to each other, and the list starts after o if nothing was before.   *)
Unlink_Fault(h, l, o) ==
    LET n == h.next[o]
        p == h.prev[o]
    IN  [h EXCEPT !.next = [x \in Objects |-> IF x = o THEN None ELSE IF x = p THEN n ELSE h.next[x]],
                  !.prev[o] = None,
                  !.first[l] = IF p = None THEN n ELSE @]

Unlink(h, l, o) ==
    LET n == h.next[o]
        p == h.prev[o]
    IN  [h EXCEPT !.next = [x \in Objects |-> IF x = o THEN None ELSE IF x = p THEN n ELSE h.next[x]],
                  !.prev = [x \in Objects |-> IF x = o THEN None ELSE IF x = n THEN p ELSE h.prev[x]],
                  !.first[l] = IF p = None THEN n ELSE @]

(* LinkedList::remove_first and PossibleCycles::remove_first *)
ListRemoveFirst(h, l) ==
    LET f == h.first[l]
        n == h.next[f]
    IN  [h EXCEPT !.first[l] = n,
                  !.prev = [x \in Objects |-> IF x = n THEN None ELSE h.prev[x]],
                  !.next[f] = None,
                  !.mark[f] = "NonMarked"]

(* LinkedQueue::add *)
Enqueue(h, o) ==
    LET linked == IF h.last = None
                  THEN [h EXCEPT !.first["queue"] = o]
                  ELSE [h EXCEPT !.next[h.last] = o]
    IN  [linked EXCEPT !.last = o]

(* LinkedQueue::poll *)
Poll(h) ==
    LET f == h.first["queue"]
        n == h.next[f]
    IN  [h EXCEPT !.first["queue"] = n,
                  !.last = IF n = None THEN None ELSE @,
                  !.next[f] = None,
                  !.mark[f] = "NonMarked"]

PcAdd(h, o) == [AddFirst(h, "pc", o) EXCEPT !.size = @ + 1]
PcRemove(h, o) == [Unlink(h, "pc", o) EXCEPT !.size = @ - 1]
PcRemoveFirst(h) == [ListRemoveFirst(h, "pc") EXCEPT !.size = @ - 1]

TakeFirst(h, l) ==
    CASE l = "pc" -> PcRemoveFirst(h)
      [] l = "queue" -> Poll(h)
      [] OTHER -> ListRemoveFirst(h, l)

(* Drop for LinkedList, LinkedQueue and PossibleCycles: the first element is  *)
(* removed until there is none.                                               *)
DropList_Fault(h, l) == [h EXCEPT !.first[l] = None, !.size = IF l = "pc" THEN 0 ELSE @]

DropList(h, l) ==
    LET left[i \in 0..Cardinality(Objects)] ==
            IF i = 0 THEN h
            ELSE IF left[i - 1].first[l] = None THEN left[i - 1]
            ELSE TakeFirst(left[i - 1], l)
    IN  left[Cardinality(Objects)]

(* PossibleCycles::swap_list with non_root_list, of n elements *)
SwapList_Fault(h, n) ==
    [h EXCEPT !.first["pc"] = h.first["nonRoot"],
              !.first["nonRoot"] = h.first["pc"]]

SwapList(h, n) ==
    [h EXCEPT !.first["pc"] = h.first["nonRoot"],
              !.first["nonRoot"] = h.first["pc"],
              !.size = n]

(* PossibleCycles::mark_self_and_append of non_root_list, of n elements: the  *)
(* walk that marks the elements ends at the one the other list is linked to.  *)
MarkSelfAndAppend(h, m, n) ==
    LET own == Content(h, "pc")
        a == h.first["nonRoot"]
        marked == [h EXCEPT !.mark = [x \in Objects |-> IF x \in ToSet(own) THEN m ELSE @[x]]]
        appended ==
            IF own = <<>> THEN [marked EXCEPT !.first["pc"] = a]
            ELSE IF a = None THEN marked
            ELSE [marked EXCEPT !.next[own[Len(own)]] = a, !.prev[a] = own[Len(own)]]
    IN  [appended EXCEPT !.size = @ + n, !.first["nonRoot"] = None]

-----------------------------------------------------------------------------
(* The use of the lists by code of the program, through Cc. *)

UserRuns == phase \in {"idle", "finalizing", "dropping", "ended"}

(* CcBox::new: a box in no list. *)
NewBox(o) ==
    /\ UserRuns /\ o \notin alloc
    /\ alloc' = alloc \cup {o}
    /\ mem' = [mem EXCEPT !.next[o] = None, !.prev[o] = None, !.mark[o] = "NonMarked"]
    /\ UNCHANGED <<phase, current, cursor, listSize>>

(* add_to_list of an object whose last Cc but some was dropped. *)
AddToList_Fault(o) ==
    /\ UserRuns /\ o \in alloc
    /\ mem.mark[o] # "PossibleCycles"
    /\ mem' = SetMark(PcAdd(mem, o), o, "PossibleCycles")
    /\ UNCHANGED <<alloc, phase, current, cursor, listSize>>

AddToList(o) ==
    /\ UserRuns /\ o \in alloc
    /\ phase # "ended"              \* else try_with fails, and nothing happens
    /\ mem.mark[o] = "NonMarked"    \* Cc::drop leaves objects in a list or queue alone
    /\ mem' = SetMark(PcAdd(mem, o), o, "PossibleCycles")
    /\ UNCHANGED <<alloc, phase, current, cursor, listSize>>

(* remove_from_list *)
RemoveFromList(o) ==
    /\ UserRuns /\ o \in alloc
    /\ mem.mark[o] = "PossibleCycles"
    /\ mem' = PcRemove(SetMark(mem, o, "NonMarked"), o)
    /\ UNCHANGED <<alloc, phase, current, cursor, listSize>>

(* Cc::drop of the last Cc, after remove_from_list *)
FreeBox(o) ==
    /\ UserRuns /\ o \in alloc
    /\ mem.mark[o] = "NonMarked"
    /\ alloc' = alloc \ {o}
    /\ UNCHANGED <<mem, phase, current, cursor, listSize>>

(* The thread ends: the destructor of POSSIBLE_CYCLES empties it.  Other       *)
(* thread-local values may be dropped later, and use and drop Ccs.            *)
EndThread ==
    /\ phase = "idle"
    /\ mem' = DropList(mem, "pc")
    /\ phase' = "ended"
    /\ UNCHANGED <<alloc, current, cursor, listSize>>

-----------------------------------------------------------------------------
(* __collect *)

Tracing(in, new, object) ==
    /\ phase = in
    /\ mem' = new /\ current' = object
    /\ UNCHANGED <<alloc, phase, cursor, listSize>>

StartCounting ==
    /\ phase = "idle" /\ mem.first["pc"] # None
    /\ phase' = "counting"
    /\ UNCHANGED <<mem, alloc, current, cursor, listSize>>

(* trace_counting takes the objects of the buffer first, then those of the     *)
(* queue, and marks them InQueue while they are traced, though in no list.     *)
TakeBuffered ==
    LET f == mem.first["pc"] IN
    /\ current = None /\ f # None
    /\ Tracing("counting", SetMark(PcRemoveFirst(mem), f, "InQueue"), f)

TakeQueued ==
    LET f == mem.first["queue"] IN
    /\ current = None /\ mem.first["pc"] = None /\ f # None
    /\ Tracing("counting", SetMark(Poll(mem), f, "InQueue"), f)

(* CcBox::trace queues an object it meets for the first time. *)
QueueNew(o) ==
    /\ current # None
    /\ o \in alloc /\ mem.mark[o] = "NonMarked"
    /\ Tracing("counting", SetMark(Enqueue(mem, o), o, "InQueue"), current)

(* CcBox::trace moves an object from root_list to non_root_list. *)
Promote(o) ==
    /\ current # None
    /\ o \in ToSet(Content(mem, "root"))
    /\ Tracing("counting", AddFirst(Unlink(mem, "root", o), "nonRoot", o), current)

(* __trace_counting files the traced object under one of two lists. *)
File(l) ==
    /\ current # None
    /\ Tracing("counting", SetMark(AddFirst(mem, l, current), current, "InList"), None)

StartRoots ==
    /\ phase = "counting" /\ current = None
    /\ mem.first["pc"] = None /\ mem.first["queue"] = None
    /\ phase' = "roots"
    /\ UNCHANGED <<mem, alloc, current, cursor, listSize>>

(* trace_roots takes the objects of root_list first, then those of the queue. *)
TakeRoot ==
    LET f == mem.first["root"] IN
    /\ f # None
    /\ Tracing("roots", ListRemoveFirst(mem, "root"), f)

TakeReached ==
    LET f == mem.first["queue"] IN
    /\ mem.first["root"] = None /\ f # None
    /\ Tracing("roots", Poll(mem), f)

(* CcBox::trace moves an object from non_root_list to the queue. *)
Requeue(o) ==
    /\ current # None
    /\ o \in ToSet(Content(mem, "nonRoot"))
    /\ Tracing("roots",
               SetMark(Enqueue(Unlink(SetMark(mem, o, "NonMarked"), "nonRoot", o), o), o, "InQueue"),
               current)

(* Trace panics: ResetMarkDropGuard, where there is one, resets the mark of    *)
(* the traced object, and the queue and both lists are dropped.                *)
TracePanic ==
    /\ phase \in {"counting", "roots"} /\ current # None
    /\ LET reset == IF phase = "counting" THEN SetMark(mem, current, "NonMarked") ELSE mem
       IN  mem' = DropList(DropList(DropList(reset, "queue"), "root"), "nonRoot")
    /\ phase' = "idle" /\ current' = None
    /\ UNCHANGED <<alloc, cursor, listSize>>

(* Everything is traced.  The iteration over non_root_list starts. *)
EndTracing ==
    /\ phase = "roots"
    /\ mem.first["root"] = None /\ mem.first["queue"] = None
    /\ current' = None
    /\ phase' = IF mem.first["nonRoot"] = None THEN "idle" ELSE "finalizing"
    /\ cursor' = mem.first["nonRoot"]
    /\ listSize' = 0
    /\ UNCHANGED <<mem, alloc>>

(* Iter::next, before finalize_inner or drop_inner is called *)
Visit ==
    /\ phase \in {"finalizing", "dropping"} /\ cursor # None
    /\ cursor' = mem.next[cursor]
    /\ listSize' = IF phase = "finalizing" THEN listSize + 1 ELSE listSize
    /\ UNCHANGED <<mem, alloc, phase, current>>

(* A finalizer or a destructor panics: non_root_list is dropped. *)
UserPanic ==
    /\ phase \in {"finalizing", "dropping"}
    /\ mem' = DropList(mem, "nonRoot")
    /\ phase' = "idle" /\ cursor' = None /\ listSize' = 0
    /\ UNCHANGED <<alloc, current>>

(* Something was finalized: non_root_list goes back to the buffer. *)
PutBack ==
    /\ phase = "finalizing" /\ cursor = None
    /\ mem' = MarkSelfAndAppend(SwapList(mem, listSize), "PossibleCycles", mem.size)
    /\ phase' = "idle" /\ listSize' = 0
    /\ UNCHANGED <<alloc, current, cursor>>

(* Nothing was finalized: deallocate_list walks over the list twice. *)
StartDropping ==
    /\ phase = "finalizing" /\ cursor = None
    /\ phase' = "dropping" /\ cursor' = mem.first["nonRoot"] /\ listSize' = 0
    /\ UNCHANGED <<mem, alloc, current>>

StartFreeing ==
    /\ phase = "dropping" /\ cursor = None
    /\ phase' = "freeing" /\ cursor' = mem.first["nonRoot"]
    /\ UNCHANGED <<mem, alloc, current, listSize>>

(* cc_dealloc of the element Iter::next returned: the iterator has moved on.  *)
(* At the end the list, which is never dropped, is forgotten.                 *)
FreeVisited ==
    /\ phase = "freeing" /\ cursor # None
    /\ alloc' = alloc \ {cursor}
    /\ cursor' = mem.next[cursor]
    /\ UNCHANGED <<mem, phase, current, listSize>>

EndFreeing ==
    /\ phase = "freeing" /\ cursor = None
    /\ mem' = [mem EXCEPT !.first["nonRoot"] = None]
    /\ phase' = "idle"
    /\ UNCHANGED <<alloc, current, cursor, listSize>>

-----------------------------------------------------------------------------

Init ==
    /\ mem = [next |-> [o \in Objects |-> None], prev |-> [o \in Objects |-> None],
              mark |-> [o \in Objects |-> "NonMarked"],
              first |-> [l \in ListNames |-> None], last |-> None, size |-> 0]
    /\ alloc = {} /\ phase = "idle" /\ current = None /\ cursor = None /\ listSize = 0

Next ==
    \/ \E o \in Objects :
         \/ NewBox(o) \/ AddToList(o) \/ RemoveFromList(o) \/ FreeBox(o)
         \/ QueueNew(o) \/ Promote(o) \/ Requeue(o)
    \/ StartCounting \/ TakeBuffered \/ TakeQueued \/ \E l \in {"root", "nonRoot"} : File(l)
    \/ StartRoots \/ TakeRoot \/ TakeReached \/ TracePanic \/ EndTracing
    \/ Visit \/ UserPanic \/ PutBack \/ StartDropping \/ StartFreeing
    \/ FreeVisited \/ EndFreeing \/ EndThread

Spec == Init /\ [][Next]_vars

-----------------------------------------------------------------------------
(* What holds of the links. *)

TypeOK ==
    /\ mem \in [next : [Objects -> Links], prev : [Objects -> Links],
                mark : [Objects -> Marks], first : [ListNames -> Links],
                last : Links, size : 0..Cardinality(Objects)]
    /\ alloc \subseteq Objects
    /\ phase \in Phases
    /\ current \in Links /\ cursor \in Links
    /\ listSize \in 0..Cardinality(Objects)

(* The lists as sequences: while they are freed, only what is left counts.    *)
Contents ==
    [l \in ListNames |-> IF l = "nonRoot" /\ phase = "freeing"
                         THEN Walk(mem, cursor) ELSE Content(mem, l)]

Elements == UNION {ToSet(Contents[l]) : l \in ListNames}

(* The object that is marked InQueue while it is traced *)
Traced == IF phase = "counting" THEN {current} \ {None} ELSE {}

(* What add and remove rely on and leave behind: an allocation in no list has  *)
(* no links, also when the thread has ended and no list is left; in the lists that remove works on, the links of neighbours are    *)
(* inverse to each other; the queue, which has no prev, knows the end of the   *)
(* chain that starts at its first element.                                     *)
LinksOK ==
    /\ \A o \in alloc \ Elements : mem.next[o] = None /\ mem.prev[o] = None
    /\ phase # "freeing" =>
         \A l \in ListNames \ {"queue"} : LET s == Contents[l] IN
           \A i \in 1..Len(s) : mem.prev[s[i]] = IF i = 1 THEN None ELSE s[i - 1]
    /\ LET q == Contents["queue"] IN
       mem.last = IF q = <<>> THEN None ELSE q[Len(q)]

(* The mark of an allocation tells the list it is in (add_to_list,            *)
(* remove_from_list and CcBox::trace choose the list to remove it from by it). *)
MarkTellsList ==
    \A o \in alloc :
        /\ mem.mark[o] = "PossibleCycles" <=> o \in ToSet(Contents["pc"])
        /\ mem.mark[o] = "InList" <=> o \in ToSet(Contents["root"]) \cup ToSet(Contents["nonRoot"])
        /\ mem.mark[o] = "InQueue" <=> o \in ToSet(Contents["queue"]) \cup Traced

(* No list contains an allocation twice, two lists have none in common, and   *)
(* what a list or an iteration will read is allocated.                        *)
ListsDisjoint ==
    /\ \A l \in ListNames :
         /\ IsInjective(Contents[l])
         /\ ToSet(Contents[l]) \subseteq alloc
         /\ \A k \in ListNames \ {l} : ToSet(Contents[l]) \cap ToSet(Contents[k]) = {}
    /\ current \notin Elements
    /\ ToSet(Walk(mem, cursor)) \subseteq ToSet(Contents["nonRoot"])

(* The links implement the sequences of CcSequences: every operation changes  *)
(* the contents of the lists as one on sequences does, size is the length of  *)
(* the buffer, and iterations visit every element once and in order.          *)
Sequences_ == INSTANCE CcSequences WITH
    seqs <- Contents, size <- mem.size, alloc <- alloc, rest <- Walk(mem, cursor)

ListsImplementSequences == Sequences_!SeqSpec

==============================================================================
