----------------------------- MODULE CcSequences -----------------------------
(***************************************************************************)
(* What the intrusive lists of rust-cc promise to the collector: each list  *)
(* is a sequence, an allocation is in at most one of them, and the buffer of *)
(* possible cycles knows its length.  CcLists implements it with links.      *)
(***************************************************************************)
EXTENDS Naturals, Sequences, FiniteSets, SequencesExt

CONSTANT Objects

VARIABLES
    seqs,    \* the contents of the lists: "pc", "root", "nonRoot" and "queue"
    size,    \* the length of "pc" as PossibleCycles::size tells it
    alloc,   \* the allocations that exist
    rest     \* what the iteration in progress has still to visit

seqVars == <<seqs, size, alloc, rest>>

Names == {"pc", "root", "nonRoot", "queue"}

Elements == UNION {ToSet(seqs[l]) : l \in Names}
Loose == alloc \ Elements

InFront(o, s) == <<o>> \o s

Sized(new) == seqs' = new /\ size' = Len(new["pc"])

SeqInit ==
    /\ seqs = [l \in Names |-> <<>>]
    /\ size = 0 /\ alloc = {} /\ rest = <<>>

Allocate == \E o \in Objects \ alloc : alloc' = alloc \cup {o} /\ UNCHANGED <<seqs, size, rest>>

Release == \E o \in Loose : alloc' = alloc \ {o} /\ UNCHANGED <<seqs, size, rest>>

(* A loose element is put in front of a list, or at the end of the queue. *)
Add ==
    /\ \E o \in Loose :
         \/ \E l \in Names \ {"queue"} : Sized([seqs EXCEPT ![l] = InFront(o, @)])
         \/ Sized([seqs EXCEPT !["queue"] = Append(@, o)])
    /\ UNCHANGED <<alloc, rest>>

(* The first element, or any element of the buffer, is taken out. *)
TakeOut ==
    /\ \/ \E l \in Names : seqs[l] # <<>> /\ Sized([seqs EXCEPT ![l] = Tail(@)])
       \/ \E i \in DOMAIN seqs["pc"] : Sized([seqs EXCEPT !["pc"] = RemoveAt(@, i)])
    /\ UNCHANGED <<alloc, rest>>

(* An element of root moves to the front of nonRoot, one of nonRoot to the queue. *)
Move ==
    /\ \/ \E i \in DOMAIN seqs["root"] :
            Sized([seqs EXCEPT !["root"] = RemoveAt(@, i),
                               !["nonRoot"] = InFront(seqs["root"][i], @)])
       \/ \E i \in DOMAIN seqs["nonRoot"] :
            Sized([seqs EXCEPT !["nonRoot"] = RemoveAt(@, i),
                               !["queue"] = Append(@, seqs["nonRoot"][i])])
    /\ UNCHANGED <<alloc, rest>>

(* An iteration over nonRoot visits its elements in order, each of them once. *)
Start == rest = <<>> /\ rest' = seqs["nonRoot"] /\ UNCHANGED <<seqs, size, alloc>>

Visit == rest # <<>> /\ rest' = Tail(rest) /\ UNCHANGED <<seqs, size, alloc>>

(* nonRoot is put in front of the buffer. *)
PutInFront ==
    /\ rest = <<>>
    /\ Sized([seqs EXCEPT !["pc"] = seqs["nonRoot"] \o @, !["nonRoot"] = <<>>])
    /\ UNCHANGED <<alloc, rest>>

(* Every list of a collection that unwinds is emptied. *)
Abandon ==
    /\ Sized([l \in Names |-> IF l = "pc" THEN seqs[l] ELSE <<>>])
    /\ rest' = <<>>
    /\ UNCHANGED alloc

(* The buffer is emptied for ever when the thread ends. *)
End ==
    /\ rest = <<>>
    /\ Sized([seqs EXCEPT !["pc"] = <<>>])
    /\ UNCHANGED <<alloc, rest>>

(* The elements of nonRoot are given back, the first of rest next. *)
GiveBack ==
    /\ rest # <<>>
    /\ alloc' = alloc \ {Head(rest)}
    /\ rest' = Tail(rest)
    /\ Sized([seqs EXCEPT !["nonRoot"] = Tail(rest)])

SeqNext ==
    \/ Allocate \/ Release \/ Add \/ TakeOut \/ Move
    \/ Start \/ Visit \/ PutInFront \/ Abandon \/ GiveBack \/ End

SeqSpec == SeqInit /\ [][SeqNext]_seqVars

==============================================================================
