------------------------------ MODULE CcGarbage ------------------------------
(***************************************************************************)
(* What a user of rust-cc may rely on, without the lists, marks, counters    *)
(* and flags that achieve it: a value is finalized once, then doomed once    *)
(* nothing the program can reach leads to it, then dropped once, and its     *)
(* memory is given back when no Cc points to it.  CcRefinementProof shows    *)
(* that CcCollector does this, and that it makes Cc safe to use.             *)
(***************************************************************************)
CONSTANTS
    Objects,    \* the memory blocks for allocations
    Ccs         \* the identities of Cc pointers

VARIABLES
    value,      \* "absent", "live", "doomed" (decided to be dropped) or "dropped"
    finalized,  \* whether the value is not to be finalized any more
    place,      \* an object, "program", or "nobody": in a call of Cc::drop, or no pointer
    points,     \* the object a Cc points to, or "none"
    selves      \* the objects whose finalizer is running

heap == <<place, points>>
vars == <<value, finalized, heap, selves>>

-----------------------------------------------------------------------------
Values == {"absent", "live", "doomed", "dropped"}

Live == {o \in Objects : value[o] = "live"}
Pointing(o) == {c \in Ccs : points[c] = o}

(* What the program can reach: from the Ccs it holds, and from the &self of  *)
(* the finalizers that run.                                                  *)
Roots == selves \cup {points[c] : c \in {d \in Ccs : place[d] = "program"}}
Closed(S) == \A c \in Ccs : place[c] \in S => points[c] \in S
Accessible == {o \in Objects : \A T \in SUBSET Objects : Roots \subseteq T /\ Closed(T) => o \in T}

Become(S, v) == value' = [o \in Objects |-> IF o \in S THEN v ELSE value[o]]

Point(c, p, o) == place' = [place EXCEPT ![c] = p] /\ points' = [points EXCEPT ![c] = o]

-----------------------------------------------------------------------------
(* What the program does with its pointers. *)
Create(c, o) ==
    /\ points[c] = "none" /\ value[o] = "absent"
    /\ Become({o}, "live")
    /\ finalized' \in {[finalized EXCEPT ![o] = b] : b \in BOOLEAN}
    /\ Point(c, "program", o)
    /\ UNCHANGED selves

(* Through a Cc or a weak pointer; never to a value whose end is decided. *)
Copy(c, o) ==
    /\ points[c] = "none" /\ value[o] = "live"
    /\ Point(c, "program", o)
    /\ UNCHANGED <<value, finalized, selves>>

Move(c, p) ==
    /\ points[c] # "none"
    /\ Point(c, p, points[c])
    /\ {place[c], p} \subseteq Accessible \cup {"program"}
    /\ UNCHANGED <<value, finalized, selves>>

FinalizeAgain(o) ==
    /\ finalized[o] /\ finalized' = [finalized EXCEPT ![o] = FALSE]
    /\ o \in Accessible
    /\ UNCHANGED <<value, heap, selves>>

(* The value of the only pointer c moves to the program. *)
Unwrap(c) ==
    LET o == points[c] IN
    /\ o \in Live \ selves /\ Pointing(o) = {c} /\ place[c] = "program"
    /\ Become({o}, "absent")
    /\ finalized' = [finalized EXCEPT ![o] = FALSE]
    /\ place' = [d \in Ccs |-> IF d = c THEN "nobody" ELSE IF place[d] = o THEN "program" ELSE place[d]]
    /\ points' = [points EXCEPT ![c] = "none"]
    /\ UNCHANGED selves

-----------------------------------------------------------------------------
(* What the library does. *)

(* A finalizer is called, either by the collector or because the last        *)
(* pointer c goes away, and returns, or ends in a panic.                     *)
Finalize(o) ==
    /\ value[o] = "live" /\ ~finalized[o]
    /\ finalized' = [finalized EXCEPT ![o] = TRUE]
    /\ selves' = selves \cup {o}
    /\ \/ UNCHANGED heap
       \/ \E c \in Ccs : Pointing(o) = {c} /\ Point(c, "nobody", o)
    /\ UNCHANGED value

Return(o) ==
    /\ o \in selves
    /\ selves' = selves \ {o}
    /\ UNCHANGED <<value, finalized, heap>>

(* The pointer c ends, be it after the finalizer of its pointee returned. *)
Release(c) ==
    /\ points[c] # "none"
    /\ Point(c, "nobody", "none")
    /\ selves' \in {selves, selves \ {points[c]}}
    /\ UNCHANGED <<value, finalized>>

(* It was the last one, and the value is dropped. *)
Destroy(c) ==
    LET o == points[c] IN
    /\ o \in Live /\ finalized[o] /\ Pointing(o) = {c}
    /\ Become({o}, "dropped")
    /\ Point(c, "nobody", "none")
    /\ selves' = selves \ {o}
    /\ UNCHANGED finalized

(* The collector decides to drop a set of values that only they point to. *)
Doom(S) ==
    /\ S \subseteq Live \ selves /\ S # {}
    /\ \A o \in S : finalized[o]
    /\ \A c \in Ccs : points[c] \in S => place[c] \in S
    /\ Become(S, "doomed")
    /\ UNCHANGED <<finalized, heap, selves>>

Drop(o) ==
    /\ value[o] = "doomed"
    /\ Become({o}, "dropped")
    /\ UNCHANGED <<finalized, heap, selves>>

(* The memory of values that were dropped is given back. *)
Free(S) ==
    /\ \A o \in S : value[o] = "dropped"
    /\ \A c \in Ccs : points[c] \notin S /\ place[c] \notin S
    /\ Become(S, "absent")
    /\ finalized' = [o \in Objects |-> IF o \in S THEN FALSE ELSE finalized[o]]
    /\ UNCHANGED <<heap, selves>>

-----------------------------------------------------------------------------
Init ==
    /\ value = [o \in Objects |-> "absent"]
    /\ finalized = [o \in Objects |-> FALSE]
    /\ place = [c \in Ccs |-> "nobody"]
    /\ points = [c \in Ccs |-> "none"]
    /\ selves = {}

Next ==
    \/ \E c \in Ccs, o \in Objects : Create(c, o) \/ Copy(c, o)
    \/ \E c \in Ccs, p \in Objects \cup {"program"} : Move(c, p)
    \/ \E c \in Ccs : Unwrap(c) \/ Release(c) \/ Destroy(c)
    \/ \E o \in Objects : FinalizeAgain(o) \/ Finalize(o) \/ Return(o) \/ Drop(o)
    \/ \E S \in SUBSET Objects : Doom(S) \/ Free(S)

Spec == Init /\ [][Next]_vars
=============================================================================
