-------------------------------- MODULE CcWeak --------------------------------
(***************************************************************************)
(* Weak pointers (weak/mod.rs) and the metadata block that outlives the box *)
(* they point to (cc.rs: get_or_init_metadata, drop_metadata).              *)
(*                                                                           *)
(* Memory is reused: Objects are places for a CcBox and Metas places for its *)
(* metadata, and a Weak keeps the addresses of both.  Strong pointers are    *)
(* numbers: those the program holds, and those stored in values of cycles.   *)
(* Which cycles are garbage, and what finalizers do, is CcCollector's: here   *)
(* a collection dooms any live boxes the program holds no Cc of.             *)
(***************************************************************************)
EXTENDS Naturals, FiniteSets

CONSTANTS
    Objects, Metas, Weaks,
    None,         \* Option::None
    Dangling,     \* NonNull::dangling
    MaxStrong,    \* bound: the limit of the strong counter
    MaxWeak       \* the limit of the weak counter, 2^15 - 1 in the code

ASSUME NoneAssumption ==
    /\ {None, Dangling} \cap (Objects \cup Metas \cup Weaks) = {}
    /\ None # Dangling
ASSUME FiniteAssumption == IsFiniteSet(Weaks)
ASSUME LimitsAssumption == MaxStrong \in Nat \ {0} /\ MaxWeak \in Nat \ {0}

VARIABLES
    box,          \* "free", "building", "live", "dropping" while Cc::drop drops the
                  \* value, or "dropped" (is_dropped is told of the last two)
    list,         \* to_deallocate_list
    held,         \* the Ccs the program holds
    cyclic,       \* the Ccs stored in values
    meta,         \* the metadata of a box, or None while it is not allocated
    builder,      \* the Weak new_cyclic keeps while it builds a box
    metaAlloc,    \* the metadata blocks that are allocated
    weakCount,    \* the weak counter of a metadata block
    accessible,   \* its accessible bit
    weakMeta,     \* Weak::metadata
    weakBox,      \* Weak::cc
    phase         \* "program", or "dropping" or "freeing" the boxes of list

collectVars == <<list, phase>>
strongVars == <<box, held, cyclic, meta, builder>>
metaVars == <<metaAlloc, weakCount, accessible>>
weakVars == <<weakMeta, weakBox>>
vars == <<strongVars, metaVars, weakVars, collectVars>>

States == {"free", "building", "live", "dropping", "dropped"}

(* The strong counter of a box, 0 while new_cyclic builds it. *)
Counter(o) == held[o] + cyclic[o]

IsDropped(o) == box[o] \in {"dropping", "dropped"}

(* Weaks that exist, and the local variable of new_cyclic, which is only lent. *)
Exists(w) == weakBox[w] # None
Attached(w) == weakMeta[w] # None       \* not made by Weak::new
Lent(w) == \E o \in Objects : builder[o] = w

UserRuns == phase \in {"program", "dropping"}

-----------------------------------------------------------------------------
(* The metadata *)

(* CcBox::get_or_init_metadata, for a use that stores m as the metadata of o  *)
(* and adds one weak pointer to it.                                           *)
AttachWeak(o, m, w) ==
    /\ IF meta[o] = None
       THEN /\ m \notin metaAlloc
            /\ metaAlloc' = metaAlloc \cup {m}
            /\ accessible' = [accessible EXCEPT ![m] = TRUE]
            /\ weakCount' = [weakCount EXCEPT ![m] = 1]
       ELSE /\ m = meta[o]
            /\ weakCount[m] < MaxWeak
            /\ weakCount' = [weakCount EXCEPT ![m] = @ + 1]
            /\ UNCHANGED <<metaAlloc, accessible>>
    /\ meta' = [meta EXCEPT ![o] = m]
    /\ weakMeta' = [weakMeta EXCEPT ![w] = m]
    /\ weakBox' = [weakBox EXCEPT ![w] = o]

DropMetadata_Fault(o) ==
    /\ IF meta[o] = None
       THEN UNCHANGED metaVars
       ELSE IF weakCount[meta[o]] = 0
       THEN metaAlloc' = metaAlloc \ {meta[o]} /\ UNCHANGED <<weakCount, accessible>>
       ELSE UNCHANGED metaVars
    /\ meta' = [meta EXCEPT ![o] = None]

(* CcBox::drop_metadata, always followed by cc_dealloc. *)
DropMetadata(o) ==
    /\ IF meta[o] = None
       THEN UNCHANGED metaVars
       ELSE IF weakCount[meta[o]] = 0
       THEN metaAlloc' = metaAlloc \ {meta[o]} /\ UNCHANGED <<weakCount, accessible>>
       ELSE accessible' = [accessible EXCEPT ![meta[o]] = FALSE] /\ UNCHANGED <<metaAlloc, weakCount>>
    /\ meta' = [meta EXCEPT ![o] = None]

(* Drop for Weak, from the state of the metadata given. *)
ReleaseWeak_Fault(w, isAccessible) ==
    LET m == weakMeta[w] IN
    /\ weakCount' = [weakCount EXCEPT ![m] = @ - 1]
    /\ metaAlloc' = IF weakCount[m] = 1 THEN metaAlloc \ {m} ELSE metaAlloc
    /\ weakMeta' = [weakMeta EXCEPT ![w] = None]
    /\ weakBox' = [weakBox EXCEPT ![w] = None]

ReleaseWeak(w, isAccessible) ==
    LET m == weakMeta[w] IN
    /\ weakCount' = [weakCount EXCEPT ![m] = @ - 1]
    /\ metaAlloc' = IF weakCount[m] = 1 /\ ~isAccessible THEN metaAlloc \ {m} ELSE metaAlloc
    /\ weakMeta' = [weakMeta EXCEPT ![w] = None]
    /\ weakBox' = [weakBox EXCEPT ![w] = None]

-----------------------------------------------------------------------------
(* Weak pointers *)

(* Cc::downgrade *)
Downgrade(o, m, w) ==
    /\ UserRuns
    /\ held[o] > 0
    /\ ~Exists(w)
    /\ AttachWeak(o, m, w)
    /\ UNCHANGED <<box, held, cyclic, builder, collectVars>>

(* Weak::new *)
WeakNew(w) ==
    /\ UserRuns
    /\ ~Exists(w)
    /\ weakBox' = [weakBox EXCEPT ![w] = Dangling]
    /\ UNCHANGED <<strongVars, metaVars, weakMeta, collectVars>>

(* Clone for Weak *)
WeakClone_Fault(w, x) ==
    /\ UserRuns
    /\ Exists(w) /\ ~Exists(x)
    /\ weakMeta' = [weakMeta EXCEPT ![x] = weakMeta[w]]
    /\ weakBox' = [weakBox EXCEPT ![x] = weakBox[w]]
    /\ UNCHANGED <<strongVars, metaVars, collectVars>>

WeakClone_FaultLimit(w, x) ==
    /\ UserRuns
    /\ Exists(w) /\ ~Exists(x)
    /\ weakCount' = [m \in Metas |-> IF m = weakMeta[w] THEN weakCount[m] + 1 ELSE weakCount[m]]
    /\ weakMeta' = [weakMeta EXCEPT ![x] = weakMeta[w]]
    /\ weakBox' = [weakBox EXCEPT ![x] = weakBox[w]]
    /\ UNCHANGED <<strongVars, metaAlloc, accessible, collectVars>>

WeakClone(w, x) ==
    /\ UserRuns
    /\ Exists(w) /\ ~Exists(x)
    /\ Attached(w) => weakCount[weakMeta[w]] < MaxWeak
    /\ weakCount' = [m \in Metas |-> IF m = weakMeta[w] THEN weakCount[m] + 1 ELSE weakCount[m]]
    /\ weakMeta' = [weakMeta EXCEPT ![x] = weakMeta[w]]
    /\ weakBox' = [weakBox EXCEPT ![x] = weakBox[w]]
    /\ UNCHANGED <<strongVars, metaAlloc, accessible, collectVars>>

(* Drop for Weak *)
WeakDrop(w) ==
    /\ UserRuns
    /\ Exists(w) /\ ~Lent(w)
    /\ IF Attached(w)
       THEN ReleaseWeak(w, accessible[weakMeta[w]])
       ELSE weakBox' = [weakBox EXCEPT ![w] = None] /\ UNCHANGED <<weakMeta, metaAlloc, weakCount>>
    /\ UNCHANGED <<strongVars, accessible, collectVars>>

(* Weak::ptr_eq *)
PtrEq_Fault(w, x) == weakBox[w] = weakBox[x]
PtrEq(w, x) == weakMeta[w] = weakMeta[x]

(* The box of w was not given back: the accessible bit of its metadata. *)
IsAccessible(w) == Attached(w) /\ accessible[weakMeta[w]]

StrongCount_Fault(w) ==
    LET o == weakBox[w] IN
    IF IsAccessible(w) /\ ~IsDropped(o) THEN Counter(o) ELSE 0

(* Weak::strong_count: 0 if the box is given back, its value is dropped, or   *)
(* it is in the list that is being dropped.                                   *)
StrongCount(w) ==
    LET o == weakBox[w] IN
    IF IsAccessible(w) /\ ~IsDropped(o) /\ ~(o \in list /\ phase = "dropping")
    THEN Counter(o)
    ELSE 0

(* Weak::upgrade *)
Upgrade(w) ==
    /\ UserRuns
    /\ Exists(w)
    /\ StrongCount(w) # 0
    /\ Counter(weakBox[w]) < MaxStrong
    /\ held' = [held EXCEPT ![weakBox[w]] = @ + 1]
    /\ UNCHANGED <<box, cyclic, meta, builder, metaVars, weakVars, collectVars>>

-----------------------------------------------------------------------------
(* Cc::new_cyclic.  The closure is code of the program that may do anything   *)
(* but drop the Weak it is lent.                                              *)

NewCyclic(o, m, w) ==
    /\ UserRuns
    /\ box[o] = "free" /\ ~Exists(w)
    /\ box' = [box EXCEPT ![o] = "building"]
    /\ builder' = [builder EXCEPT ![o] = w]
    /\ AttachWeak(o, m, w)
    /\ UNCHANGED <<held, cyclic, collectVars>>

(* The closure returns: the box is live and the local Weak is dropped. *)
EndNewCyclic(o) ==
    /\ UserRuns
    /\ box[o] = "building"
    /\ box' = [box EXCEPT ![o] = "live"]
    /\ held' = [held EXCEPT ![o] = 1]
    /\ builder' = [builder EXCEPT ![o] = None]
    /\ ReleaseWeak(builder[o], TRUE)
    /\ UNCHANGED <<cyclic, meta, accessible, collectVars>>

(* The closure panics: PanicGuard drops the metadata and gives the box back,  *)
(* and then the local Weak is dropped.                                        *)
PanicNewCyclic(o) ==
    /\ UserRuns
    /\ box[o] = "building"
    /\ box' = [box EXCEPT ![o] = "free"]
    /\ builder' = [builder EXCEPT ![o] = None]
    /\ meta' = [meta EXCEPT ![o] = None]
    /\ accessible' = [accessible EXCEPT ![meta[o]] = FALSE]
    /\ ReleaseWeak(builder[o], FALSE)
    /\ UNCHANGED <<held, cyclic, collectVars>>

-----------------------------------------------------------------------------
(* Strong pointers, as far as they decide the life of a box *)

(* Cc::new *)
New(o) ==
    /\ UserRuns
    /\ box[o] = "free"
    /\ box' = [box EXCEPT ![o] = "live"]
    /\ held' = [held EXCEPT ![o] = 1]
    /\ UNCHANGED <<cyclic, meta, builder, metaVars, weakVars, collectVars>>

(* The program stores a Cc in a value. *)
Store(o) ==
    /\ UserRuns
    /\ held[o] > 0
    /\ held' = [held EXCEPT ![o] = @ - 1]
    /\ cyclic' = [cyclic EXCEPT ![o] = @ + 1]
    /\ UNCHANGED <<box, meta, builder, metaVars, weakVars, collectVars>>

(* Cc::drop of one of several Ccs *)
DropShared(o) ==
    /\ UserRuns
    /\ held[o] > 0 /\ Counter(o) > 1
    /\ held' = [held EXCEPT ![o] = @ - 1]
    /\ UNCHANGED <<box, cyclic, meta, builder, metaVars, weakVars, collectVars>>

(* The program takes a Cc out of a value. *)
Take(o) ==
    /\ UserRuns
    /\ cyclic[o] > 0 /\ box[o] = "live" /\ o \notin list
    /\ held' = [held EXCEPT ![o] = @ + 1]
    /\ cyclic' = [cyclic EXCEPT ![o] = @ - 1]
    /\ UNCHANGED <<box, meta, builder, metaVars, weakVars, collectVars>>

(* Cc::drop of the last Cc: the value is dropped, while code of the program runs. *)
DropLast(o) ==
    /\ UserRuns
    /\ held[o] = 1 /\ cyclic[o] = 0
    /\ box' = [box EXCEPT ![o] = "dropping"]
    /\ held' = [held EXCEPT ![o] = 0]
    /\ UNCHANGED <<cyclic, meta, builder, metaVars, weakVars, collectVars>>

(* The rest of Cc::drop: drop_metadata and cc_dealloc. *)
EndDropLast(o) ==
    /\ UserRuns
    /\ box[o] = "dropping"
    /\ DropMetadata(o)
    /\ box' = [box EXCEPT ![o] = "free"]
    /\ UNCHANGED <<held, cyclic, builder, weakVars, collectVars>>

(* A destructor panics, and Cc::drop ends without giving the box back. *)
PanicDropLast(o) ==
    /\ UserRuns
    /\ box[o] = "dropping"
    /\ box' = [box EXCEPT ![o] = "dropped"]
    /\ UNCHANGED <<held, cyclic, meta, builder, metaVars, weakVars, collectVars>>

(* Cc::try_unwrap when it succeeds *)
TryUnwrap(o) ==
    /\ phase = "program"
    /\ held[o] = 1 /\ cyclic[o] = 0
    /\ DropMetadata(o)
    /\ box' = [box EXCEPT ![o] = "free"]
    /\ held' = [held EXCEPT ![o] = 0]
    /\ UNCHANGED <<cyclic, builder, weakVars, collectVars>>

-----------------------------------------------------------------------------
(* deallocate_list *)

DeallocateList(S) ==
    /\ phase = "program"
    /\ S # {} /\ \A o \in S : box[o] = "live" /\ held[o] = 0
    /\ list' = S
    /\ phase' = "dropping"
    /\ UNCHANGED <<strongVars, metaVars, weakVars>>

(* CcBox::drop_inner: the value is dropped, while code of the program runs. *)
DropInner(o) ==
    /\ phase = "dropping"
    /\ o \in list /\ box[o] = "live"
    /\ box' = [box EXCEPT ![o] = "dropped"]
    /\ UNCHANGED <<held, cyclic, meta, builder, metaVars, weakVars, collectVars>>

(* Cc::drop of a Cc in such a value whose pointee is in the list *)
DropListed(o) ==
    /\ phase = "dropping"
    /\ o \in list /\ cyclic[o] > 0
    /\ \E d \in list : box[d] = "dropped"
    /\ cyclic' = [cyclic EXCEPT ![o] = @ - 1]
    /\ UNCHANGED <<box, held, meta, builder, metaVars, weakVars, collectVars>>

(* A destructor panics: the boxes of the list are set dropped and leaked. *)
PanicDropInner ==
    /\ phase = "dropping"
    /\ \E o \in list : box[o] = "dropped"
    /\ box' = [o \in Objects |-> IF o \in list THEN "dropped" ELSE box[o]]
    /\ list' = {} /\ phase' = "program"
    /\ UNCHANGED <<held, cyclic, meta, builder, metaVars, weakVars>>

StartFreeing ==
    /\ phase = "dropping"
    /\ \A o \in list : box[o] = "dropped"
    /\ phase' = "freeing"
    /\ UNCHANGED <<strongVars, metaVars, weakVars, list>>

(* drop_metadata and cc_dealloc of an element *)
FreeListed(o) ==
    /\ phase = "freeing"
    /\ o \in list
    /\ DropMetadata(o)
    /\ box' = [box EXCEPT ![o] = "free"]
    /\ cyclic' = [cyclic EXCEPT ![o] = 0]
    /\ list' = list \ {o}
    /\ phase' = IF list = {o} THEN "program" ELSE "freeing"
    /\ UNCHANGED <<held, builder, weakVars>>

-----------------------------------------------------------------------------

Init ==
    /\ box = [o \in Objects |-> "free"]
    /\ held = [o \in Objects |-> 0] /\ cyclic = [o \in Objects |-> 0]
    /\ meta = [o \in Objects |-> None] /\ builder = [o \in Objects |-> None]
    /\ metaAlloc = {}
    /\ weakCount = [m \in Metas |-> 0] /\ accessible = [m \in Metas |-> FALSE]
    /\ weakMeta = [w \in Weaks |-> None] /\ weakBox = [w \in Weaks |-> None]
    /\ list = {} /\ phase = "program"

Next ==
    \/ \E o \in Objects :
         \/ New(o) \/ Store(o) \/ Take(o) \/ DropShared(o)
         \/ DropLast(o) \/ EndDropLast(o) \/ PanicDropLast(o) \/ TryUnwrap(o)
         \/ DropInner(o) \/ DropListed(o) \/ FreeListed(o)
         \/ EndNewCyclic(o) \/ PanicNewCyclic(o)
         \/ \E m \in Metas, w \in Weaks : Downgrade(o, m, w) \/ NewCyclic(o, m, w)
    \/ \E w \in Weaks : WeakNew(w) \/ WeakDrop(w) \/ Upgrade(w)
    \/ \E w, x \in Weaks : WeakClone(w, x)
    \/ \E S \in SUBSET Objects : DeallocateList(S)
    \/ PanicDropInner \/ StartFreeing

Spec == Init /\ [][Next]_vars

-----------------------------------------------------------------------------

TypeOK ==
    /\ box \in [Objects -> States]
    /\ held \in [Objects -> 0..MaxStrong] /\ cyclic \in [Objects -> 0..MaxStrong]
    /\ meta \in [Objects -> Metas \cup {None}] /\ builder \in [Objects -> Weaks \cup {None}]
    /\ metaAlloc \subseteq Metas
    /\ weakCount \in [Metas -> 0..MaxWeak] /\ accessible \in [Metas -> BOOLEAN]
    /\ weakMeta \in [Weaks -> Metas \cup {None}] /\ weakBox \in [Weaks -> Objects \cup {None, Dangling}]
    /\ list \subseteq Objects /\ phase \in {"program", "dropping", "freeing"}

(* The weak counter of a metadata block is the number of Weaks on it. *)
WeakCountExact ==
    \A m \in metaAlloc : weakCount[m] = Cardinality({w \in Weaks : weakMeta[w] = m})

(* A metadata block is allocated exactly as long as its box or a Weak is there *)
(* to use it: it is neither leaked nor used after it was given back            *)
(* (drop_metadata, Drop for Weak, and the PanicGuard of new_cyclic).          *)
MetadataLives ==
    \A m \in Metas :
        m \in metaAlloc <=> \/ \E o \in Objects : meta[o] = m
                           \/ \E w \in Weaks : weakMeta[w] = m

(* The accessible bit tells whether the box is still the one a Weak was made   *)
(* for, also after its memory was given back or used again.                   *)
AccessibleTellsBox ==
    \A w \in Weaks :
        Attached(w) => (accessible[weakMeta[w]] <=> meta[weakBox[w]] = weakMeta[w])

(* ptr_eq does not take two boxes that were in the same memory one after the   *)
(* other for the same allocation ("Only compare the metadata allocations       *)
(* since they're surely unique", weak/mod.rs), and knows the Weaks to one box. *)
PtrEqTellsBox ==
    \A w, x \in {y \in Weaks : Exists(y)} :
        /\ PtrEq(w, x) => weakBox[w] = weakBox[x] /\ (IsAccessible(w) <=> IsAccessible(x))
        /\ weakBox[w] = weakBox[x] /\ IsAccessible(w) /\ IsAccessible(x) => PtrEq(w, x)

(* A Cc the program holds, by whichever way it got it, points to a live value  *)
(* that is not about to be dropped: not one whose destructor runs, not one     *)
(* that new_cyclic has not written yet, not another one in the same memory.   *)
HeldIsLive == \A o \in Objects : held[o] > 0 => box[o] = "live" /\ o \notin list

==============================================================================
