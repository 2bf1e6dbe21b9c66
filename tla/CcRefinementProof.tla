--------------------------- MODULE CcRefinementProof ---------------------------
(* What the collector promises.  First, every step of CcCollector is a step  *)
(* of CcGarbage, or one that CcGarbage does not see: only garbage is dropped.*)
(* Then, as long as no panic leaves a collection, none of it is forgotten:   *)
(* every object that nothing keeps alive is in a list of the collector or    *)
(* owned by one that is.                                                     *)
EXTENDS CcSafetyProof, CcRefinement

Step == Abstract!Next \/ UNCHANGED Abstract!vars

-----------------------------------------------------------------------------
(* What the abstract variables are made of. *)

LEMMA ValueTells ==
    ASSUME TypeOK, NEW o \in Objects
    PROVE  /\ AbstractValue(o) = "live" <=> ~Gone(o)
           /\ status[o] = "live" /\ Gone(o) => AbstractValue(o) = "doomed"
           /\ status[o] = "free" <=> AbstractValue(o) = "absent"
           /\ status[o] = "dropped" <=> AbstractValue(o) = "dropped"
           /\ Values[o] = AbstractValue(o)
<1>1. status[o] \in {"free", "live", "dropped"}
  BY DEF TypeOK
<1> QED BY <1>1 DEF AbstractValue, Gone, Values

LEMMA ValueStays ==
    ASSUME TypeOK, TypeOK', NEW o \in Objects, status'[o] = status[o], Gone(o)' <=> Gone(o)
    PROVE  AbstractValue(o)' = AbstractValue(o)
<1>1. status[o] \in {"free", "live", "dropped"}
  BY DEF TypeOK
<1> QED BY <1>1 DEF AbstractValue, Gone

(* The values of S become v, the others stay. *)
LEMMA BecomeTells ==
    ASSUME TypeOK, TypeOK', NEW S \in SUBSET Objects, NEW v,
           \A o \in S : AbstractValue(o)' = v,
           \A o \in Objects \ S : status'[o] = status[o] /\ (Gone(o)' <=> Gone(o))
    PROVE  Abstract!Become(S, v)
<1>1. \A o \in Objects : AbstractValue(o)' = IF o \in S THEN v ELSE AbstractValue(o)
  BY ValueStays
<1> QED BY <1>1 DEF Abstract!Become, Values

LEMMA ValuesStay ==
    ASSUME TypeOK, TypeOK',
           \A o \in Objects : status'[o] = status[o] /\ (Gone(o)' <=> Gone(o))
    PROVE  Values' = Values
<1>1. \A o \in Objects : AbstractValue(o)' = AbstractValue(o)
  BY ValueStays
<1> QED BY <1>1 DEF Values

(* The pointer c moves to v and points to t afterwards. *)
LEMMA PointTells ==
    ASSUME TypeOK, NEW c \in Ccs, NEW v, NEW t,
           \A d \in Ccs : owner'[d] = IF d = c THEN v ELSE owner[d],
           target' = [target EXCEPT ![c] = t]
    PROVE  Abstract!Point(c, IF v \in {"limbo", "nowhere"} THEN "nobody" ELSE v, t)
<1>1. \A d \in Ccs : AbstractPlace(d)' =
          IF d = c THEN (IF v \in {"limbo", "nowhere"} THEN "nobody" ELSE v) ELSE AbstractPlace(d)
  BY DEF AbstractPlace
<1> QED BY <1>1 DEF Abstract!Point, Places

LEMMA PlaceTells ==
    ASSUME NEW c \in Ccs
    PROVE  /\ owner[c] \in {"limbo", "nowhere"} => Places[c] = "nobody"
           /\ owner[c] \notin {"limbo", "nowhere"} => Places[c] = owner[c]
           /\ \A o \in Objects : Places[c] = o => owner[c] = o
BY PlacesAssumption, NobodyAssumption DEF Places, AbstractPlace

(* A step in which no value, pointer or finalizer changes. *)
LEMMA Stutters ==
    ASSUME TypeOK, TypeOK', UNCHANGED <<finalized, owner, target, Selves>>,
           \A o \in Objects : status'[o] = status[o] /\ (Gone(o)' <=> Gone(o))
    PROVE  Step
<1>1. Values' = Values /\ Places' = Places
  BY ValuesStay DEF Places, AbstractPlace
<1> QED BY <1>1 DEF Step, Abstract!vars, Abstract!heap

-----------------------------------------------------------------------------
(* The finalizers that run. *)

(* The frames up to m stay, and at most one frame on top of them changes;    *)
(* Below are the objects whose finalizers run in the frames that stay.       *)
LEMMA SelvesSplit ==
    ASSUME NEW m, KeepsBelow(m), Len(stack) \in {m, m + 1}, NEW Below,
           Below = {stack[i].obj : i \in {j \in Finalizers : j # m + 1}}
    PROVE  /\ Selves = Below \cup (IF m + 1 \in Finalizers THEN {stack[m + 1].obj} ELSE {})
           /\ Selves' = Below \cup (IF m + 1 \in Finalizers' THEN {stack'[m + 1].obj} ELSE {})
<1>1. \A i : /\ i \in Finalizers /\ i # m + 1 <=> i \in Finalizers' /\ i # m + 1
             /\ i \in Finalizers /\ i # m + 1 => stack'[i] = stack[i]
  BY DEF KeepsBelow, Finalizers
<1>2. \A x : x \in Selves <=> x \in Below \/ (m + 1 \in Finalizers /\ x = stack[m + 1].obj)
  BY DEF Selves
<1>3. \A x : x \in Selves' <=> x \in Below \/ (m + 1 \in Finalizers' /\ x = stack'[m + 1].obj)
  BY <1>1 DEF Selves
<1> QED BY <1>2, <1>3

LEMMA SelvesPushed ==
    ASSUME TypeOK, CollectFrames, NEW f, stack' = Append(stack, f), phase' = phase \/ phase = "idle"
    PROVE  Selves' = IF f.op \in {"finalizeCc", "finalizeList"} THEN Selves \cup {f.obj} ELSE Selves
<1>1. /\ KeepsBelow(Len(stack)) /\ Len(stack') = Len(stack) + 1 /\ Len(stack) \in Nat
      /\ stack'[Len(stack) + 1] = f
  BY KeepsPush, StackType
<1>2. Len(stack) + 1 \notin Finalizers
  BY <1>1 DEF Finalizers
<1>3. Len(stack) + 1 \in Finalizers' <=> f.op \in {"finalizeCc", "finalizeList"}
  BY <1>1 DEF Finalizers
<1> DEFINE Below == {stack[i].obj : i \in {j \in Finalizers : j # Len(stack) + 1}}
<1>4. /\ Selves = Below \cup (IF Len(stack) + 1 \in Finalizers THEN {stack[Len(stack) + 1].obj} ELSE {})
      /\ Selves' = Below \cup (IF Len(stack) + 1 \in Finalizers' THEN {stack'[Len(stack) + 1].obj} ELSE {})
  BY <1>1, SelvesSplit
<1> QED BY <1>1, <1>2, <1>3, <1>4

LEMMA TopFinalizer ==
    ASSUME TypeOK, TopOp # "main"
    PROVE  /\ Len(stack) \in Finalizers <=> TopOp \in {"finalizeCc", "finalizeList"}
           /\ stack[Len(stack)].obj = Top.obj
BY PopIndex DEF Finalizers

(* A frame ends, or is replaced by one without a finalizer. *)
LEMMA SelvesPopped ==
    ASSUME TypeOK, CollectFrames, FinalizersOK, TopOp # "main", phase' = phase \/ TopOp = "collect",
           NEW f,
           \/ stack' = Popped
           \/ /\ f.op \notin {"finalizeCc", "finalizeList"}
              /\ stack' = Append(Popped, f) \/ stack' = WithTop(f)
    PROVE  Selves' = IF TopOp \in {"finalizeCc", "finalizeList"} THEN Selves \ {Top.obj} ELSE Selves
<1> DEFINE m == Len(stack) - 1
<1>0. m \in Nat /\ Len(stack) = m + 1
  BY PopIndex
<1>1. /\ KeepsBelow(m)
      /\ Len(stack') = m + 1 => stack'[m + 1].op \notin {"finalizeCc", "finalizeList"}
  <2>1. CASE stack' = Popped
    <3>1. KeepsBelow(m) /\ Len(stack') = m
      BY <2>1, KeepsPop
    <3> HIDE DEF m
    <3> QED BY <1>0, <3>1
  <2>2. CASE /\ f.op \notin {"finalizeCc", "finalizeList"}
             /\ stack' = Append(Popped, f) \/ stack' = WithTop(f)
    BY <2>2, KeepsReplace
  <2> QED BY <2>1, <2>2
<1>2. Len(stack) \in Finalizers <=> TopOp \in {"finalizeCc", "finalizeList"}
  BY TopFinalizer
<1>3. stack[Len(stack)].obj = Top.obj
  BY TopFinalizer
<1> DEFINE Below == {stack[i].obj : i \in {j \in Finalizers : j # m + 1}}
<1> HIDE DEF m
<1>4. m + 1 \notin Finalizers'
  BY <1>0, <1>1 DEF Finalizers, KeepsBelow
<1>5. /\ Selves = Below \cup (IF m + 1 \in Finalizers THEN {stack[m + 1].obj} ELSE {})
      /\ Selves' = Below \cup (IF m + 1 \in Finalizers' THEN {stack'[m + 1].obj} ELSE {})
  BY <1>0, <1>1, SelvesSplit
<1>6. m + 1 \in Finalizers => stack[m + 1].obj \notin Below
  BY DEF FinalizersOK
<1> QED BY <1>0, <1>2, <1>3, <1>4, <1>5, <1>6

LEMMA SelvesStay == ASSUME stack' = stack PROVE Selves' = Selves
BY DEF Selves, Finalizers

-----------------------------------------------------------------------------
(* The operations of the program. *)

LEMMA Parts ==
    ASSUME CollectorInv
    PROVE  /\ StackInv /\ SafeInv /\ FinalizersOK
           /\ PlacesOK /\ CollectFrames /\ FlagsOK /\ PhaseOK /\ ListsOK /\ GoneOK /\ FramesFit
           /\ NonRootOK /\ CounterExact /\ MarksMatchLists
BY PartsOfInv DEF CollectorInv

LEMMA ValueNext ==
    ASSUME TypeOK', NEW o \in Objects
    PROVE  /\ AbstractValue(o)' = "live" <=> ~Gone(o)'
           /\ status'[o] = "free" => AbstractValue(o)' = "absent"
           /\ status'[o] = "dropped" => AbstractValue(o)' = "dropped"
           /\ status'[o] = "live" /\ Gone(o)' => AbstractValue(o)' = "doomed"
<1>1. status'[o] \in {"free", "live", "dropped"}
  BY DEF TypeOK
<1> QED BY <1>1 DEF AbstractValue, Gone

(* What the program can reach, it can reach in CcGarbage. *)
LEMMA Reaches == ASSUME TypeOK, NEW W PROVE Accessible(W) \subseteq Abstract!Accessible
<1>1. Self \subseteq Selves
  <2>1. CASE TopOp \in {"finalizeCc", "finalizeList"}
    BY <2>1, TopFinalizer DEF Self, Selves
  <2> QED BY <2>1 DEF Self
<1>2. Self \cup {target[c] : c \in Held \ W} \subseteq Abstract!Roots
  BY <1>1, PlaceTells DEF Held, Abstract!Roots
<1>3. \A T \in SUBSET Objects : Abstract!Closed(T) => Closed(T)
  BY PlaceTells, PlacesAssumption DEF Closed, Abstract!Closed
<1> QED BY <1>2, <1>3 DEF Accessible, Reachable, Abstract!Accessible

LEMMA UsableReaches ==
    ASSUME TypeOK, PlacesOK, NEW c \in Ccs, Usable(c)
    PROVE  target[c] \in Objects /\ target[c] \in Abstract!Accessible
<1>1. target[c] \in Objects
  BY HeldPlaces
<1>2. CASE owner[c] = "program"
  <2>1. target[c] \in Abstract!Roots
    BY <1>2, PlaceTells DEF Abstract!Roots
  <2> QED BY <1>1, <2>1 DEF Abstract!Accessible
<1>3. CASE owner[c] \in Accessible({})
  <2>1. owner[c] \in Abstract!Accessible /\ Places[c] = owner[c]
    BY <1>3, Reaches, HeldPlaces, PlaceTells
  <2> QED BY <1>1, <2>1 DEF Abstract!Accessible, Abstract!Closed
<1> QED BY <1>1, <1>2, <1>3 DEF Usable

(* Cc::new *)
LEMMA NewRefines ==
    ASSUME TypeOK, TypeOK', CollectorInv, NEW c \in Ccs, NEW o \in Objects, New(c, o)
    PROVE  Step
<1> USE Parts
<1>1. /\ status[o] = "free" /\ owner[c] = "nowhere" /\ target[c] = "none"
      /\ UNCHANGED <<phase, nonRootList, stack>>
      /\ \A d \in Ccs : owner'[d] = IF d = c THEN "program" ELSE owner[d]
      /\ target' = [target EXCEPT ![c] = o]
      /\ finalized' = [finalized EXCEPT ![o] = finalizing] /\ finalizing \in BOOLEAN
      /\ \A x \in Objects : /\ status'[x] = IF x = o THEN "live" ELSE status[x]
                            /\ tracing'[x] = IF x = o THEN 1 ELSE tracing[x]
  BY DEF New, listVars, loopVars, callVars, PlacesOK, TypeOK
<1>2. ~Gone(o)'
  <2>1. phase = "dropping" => o \notin nonRootList
    BY <1>1 DEF PhaseOK
  <2>2. DroppedTc # 1
    BY MaxCountAssumption DEF DroppedTc
  <2> QED BY <1>1, <2>1, <2>2 DEF Gone, Decided
<1>3. \A x \in Objects \ {o} : status'[x] = status[x] /\ (Gone(x)' <=> Gone(x))
  BY <1>1, GoneStays
<1>4. Abstract!Become({o}, "live")
  BY <1>2, <1>3, ValueNext, BecomeTells
<1>5. Abstract!Point(c, "program", o)
  BY <1>1, PointTells
<1>6. Values[o] = "absent" /\ Selves' = Selves
  BY <1>1, ValueTells, SelvesStay
<1> QED BY <1>1, <1>4, <1>5, <1>6 DEF Step, Abstract!Next, Abstract!Create

(* Cc::clone and Weak::upgrade *)
LEMMA NewPointerRefines ==
    ASSUME TypeOK, TypeOK', CollectorInv, NEW d \in Ccs, NEW o \in Objects, ~Gone(o),
           NewPointer(d, o)
    PROVE  Step
<1> USE Parts
<1>1. /\ target[d] = "none" /\ UNCHANGED <<status, tracing, finalized, phase, nonRootList, stack>>
      /\ \A x \in Ccs : owner'[x] = IF x = d THEN "program" ELSE owner[x]
      /\ target' = [target EXCEPT ![d] = o]
  BY DEF NewPointer, listVars, loopVars, callVars, PlacesOK, TypeOK
<1>2. \A x \in Objects : status'[x] = status[x] /\ (Gone(x)' <=> Gone(x))
  BY <1>1, GoneStays
<1>3. Abstract!Point(d, "program", o)
  BY <1>1, PointTells
<1>4. Values[o] = "live" /\ Values' = Values /\ Selves' = Selves
  BY <1>1, <1>2, ValueTells, ValuesStay, SelvesStay
<1> QED BY <1>1, <1>3, <1>4 DEF Step, Abstract!Next, Abstract!Copy

(* The program moves a Cc into, or out of, a value. *)
LEMMA MoveRefines ==
    ASSUME TypeOK, TypeOK', NEW c \in Ccs, NEW v \in Objects \cup {"program"},
           target[c] \in Objects, {owner[c], v} \subseteq Abstract!Accessible \cup {"program"},
           owner' = [owner EXCEPT ![c] = v],
           UNCHANGED <<target, status, tracing, finalized, phase, nonRootList, stack>>
    PROVE  Step
<1>1. \A x \in Objects : status'[x] = status[x] /\ (Gone(x)' <=> Gone(x))
  BY GoneStays
<1>2. /\ owner[c] \notin {"limbo", "nowhere"} /\ v \notin {"limbo", "nowhere"}
      /\ target[c] # "none"
  BY PlacesAssumption DEF Abstract!Accessible
<1>3. /\ \A d \in Ccs : owner'[d] = IF d = c THEN v ELSE owner[d]
      /\ target' = [target EXCEPT ![c] = target[c]]
  BY DEF TypeOK
<1>4. Abstract!Point(c, v, target[c])
  BY <1>2, <1>3, PointTells
<1>5. Places[c] = owner[c] /\ Values' = Values /\ Selves' = Selves
  BY <1>1, <1>2, PlaceTells, ValuesStay, SelvesStay
<1> QED BY <1>2, <1>4, <1>5 DEF Step, Abstract!Next, Abstract!Move

(* Cc::try_unwrap: no finalizer runs, so none of this value does. *)
LEMMA UnwrapRefines ==
    ASSUME TypeOK, TypeOK', CollectorInv, NEW c \in Ccs, TryUnwrap(c)
    PROVE  Step
<1> USE Parts
<1>1. PICK o \in Objects : o = target[c] /\ ~Gone(o)
  BY OutsideTarget DEF TryUnwrap
<1>2. /\ owner[c] = "program" /\ counter[o] = 1 /\ target' = [target EXCEPT ![c] = "none"]
      /\ ~collecting /\ ~finalizing /\ ~dropping
      /\ UNCHANGED <<phase, nonRootList, stack>>
      /\ \A d \in Ccs : owner'[d] = IF d = c THEN "nowhere"
                                    ELSE IF owner[d] = o THEN "program" ELSE owner[d]
      /\ \A x \in Objects : /\ status'[x] = IF x = o THEN "free" ELSE status[x]
                            /\ tracing'[x] = IF x = o THEN 0 ELSE tracing[x]
                            /\ finalized'[x] = IF x = o THEN FALSE ELSE finalized[x]
  BY <1>1 DEF TryUnwrap, Dealloc, listVars, loopVars, callVars, TypeOK
<1>3. Abstract!Pointing(o) = {c}
  <2>1. status[o] # "free"
    BY <1>1, GoneTells
  <2>2. \A d \in Ccs : target[d] = o => d = c
    BY <1>1, <1>2, <2>1, CounterTells
  <2> QED BY <1>1, <2>2 DEF Abstract!Pointing
<1>4. Abstract!Become({o}, "absent")
  <2> HIDE Parts
  <2>1. \A x \in Objects \ {o} : status'[x] = status[x] /\ (Gone(x)' <=> Gone(x))
    <3>1. \A x \in Objects \ {o} : status'[x] = status[x] /\ tracing'[x] = tracing[x]
      BY <1>2
    <3> QED BY <1>2, <3>1, GoneStays
  <2>2. status'[o] = "free"
    BY <1>2
  <2>3. AbstractValue(o)' = "absent"
    BY <2>2, ValueNext
  <2>4. \A x \in {o} : AbstractValue(x)' = "absent"
    BY <2>3
  <2> QED BY <2>1, <2>4, BecomeTells
<1>5. finalized' = [finalized EXCEPT ![o] = FALSE]
  <2> HIDE Parts
  <2>1. finalized \in [Objects -> BOOLEAN] /\ finalized' \in [Objects -> BOOLEAN]
    BY DEF TypeOK
  <2>2. \A x \in Objects : finalized'[x] = IF x = o THEN FALSE ELSE finalized[x]
    BY <1>2
  <2> QED BY <2>1, <2>2
<1>6. Places' = [d \in Ccs |-> IF d = c THEN "nobody"
                               ELSE IF Places[d] = o THEN "program" ELSE Places[d]]
  <2>1. \A d \in Ccs : AbstractPlace(d)' = IF d = c THEN "nobody"
                                           ELSE IF AbstractPlace(d) = o THEN "program"
                                           ELSE AbstractPlace(d)
    BY <1>2, PlacesAssumption, NobodyAssumption DEF AbstractPlace
  <2> QED BY <2>1 DEF Places
<1>7. Selves = {} /\ Selves' = {}
  <2>1. Finalizers = {}
    BY <1>2, NoFlagNoFrame DEF Finalizers
  <2> QED BY <1>2, <2>1, SelvesStay DEF Selves
<1>8. o \in Abstract!Live /\ Places[c] = "program"
  BY <1>1, <1>2, ValueTells, PlaceTells DEF Abstract!Live
<1> QED
  BY <1>1, <1>2, <1>3, <1>4, <1>5, <1>6, <1>7, <1>8 DEF Step, Abstract!Next, Abstract!Unwrap

(* Cc::finalize_again *)
LEMMA FinalizeAgainRefines ==
    ASSUME TypeOK, TypeOK', CollectorInv, NEW c \in Ccs, FinalizeAgain(c)
    PROVE  Step
<1> USE Parts
<1>1. PICK o \in Objects : o = target[c] /\ o \in Abstract!Accessible
  BY UsableReaches DEF FinalizeAgain
<1>2. /\ finalized' = [finalized EXCEPT ![o] = FALSE]
      /\ UNCHANGED <<status, tracing, owner, target, phase, nonRootList, stack>>
  BY <1>1 DEF FinalizeAgain, ccVars, listVars, loopVars, callVars
<1>3. \A x \in Objects : status'[x] = status[x] /\ (Gone(x)' <=> Gone(x))
  BY <1>2, GoneStays
<1>4. Selves' = Selves
  BY <1>2, SelvesStay
<1>5. CASE finalized[o]
  <2>1. Values' = Values /\ Places' = Places
    BY <1>2, <1>3, ValuesStay DEF Places, AbstractPlace
  <2>2. Abstract!FinalizeAgain(o)
    BY <1>1, <1>2, <1>4, <1>5, <2>1 DEF Abstract!FinalizeAgain, Abstract!heap
  <2> QED BY <2>2 DEF Step, Abstract!Next
<1>6. CASE ~finalized[o]
  <2>1. finalized' = finalized
    BY <1>2, <1>6 DEF TypeOK
  <2> QED BY <1>2, <1>3, <1>4, <2>1, Stutters
<1> QED BY <1>5, <1>6

(* Steps that change neither a value nor a pointer, nor the stack. *)
LEMMA QuietRefines ==
    ASSUME TypeOK, TypeOK', UNCHANGED <<status, tracing, finalized, ccVars, phase, nonRootList, stack>>
    PROVE  Step
BY GoneStays, SelvesStay, Stutters DEF ccVars

LEMMA UserRefines ==
    ASSUME TypeOK, TypeOK', CollectorInv, UserStep
    PROVE  Step
<1> USE Parts
<1> USE DEF boxVars, listVars, loopVars, callVars
<1>1. ASSUME NEW c \in Ccs, NEW o \in Objects, New(c, o) PROVE Step
  BY <1>1, NewRefines
<1>2. ASSUME NEW c \in Ccs, NEW o \in Objects, Upgrade(o, c) PROVE Step
  BY <1>2, StrongTells, NewPointerRefines DEF Upgrade
<1>3. ASSUME NEW c \in Ccs, NEW d \in Ccs, Clone(c, d) PROVE Step
  BY <1>3, UsableTells, NewPointerRefines DEF Clone
<1>4. ASSUME NEW c \in Ccs, NEW o \in Objects, Store(c, o) PROVE Step
  <2>1. target[c] \in Objects /\ o \in Abstract!Accessible /\ owner[c] = "program"
    BY <1>4, OutsideTarget, Reaches DEF Store
  <2> QED BY <1>4, <2>1, MoveRefines DEF Store
<1>5. ASSUME NEW c \in Ccs, Take(c) PROVE Step
  <2>1. target[c] \in Objects /\ owner[c] \in Abstract!Accessible
    BY <1>5, UsableTells, Reaches DEF Take, Usable
  <2> QED BY <1>5, <2>1, MoveRefines DEF Take
<1>6. ASSUME NEW c \in Ccs, TryUnwrap(c) \/ FinalizeAgain(c) PROVE Step
  BY <1>6, UnwrapRefines, FinalizeAgainRefines
<1>7. ASSUME NEW c \in Ccs, MarkAlive(c) PROVE Step
  BY <1>7, QuietRefines DEF MarkAlive
<1>8. ASSUME NEW o \in Objects, BorrowCell(o) PROVE Step
  <2>1. UNCHANGED <<owner, target, status, tracing, finalized, phase, nonRootList, stack>>
    BY <1>8 DEF BorrowCell
  <2> QED BY <2>1, GoneStays, SelvesStay, Stutters
<1>9. CASE UserPanic \/ TracePanic \/ Catch
  BY <1>9, QuietRefines DEF UserPanic, TracePanic, Catch
<1>10. CASE CollectCycles
  <2>1. /\ phase = "idle" /\ phase' = "loop" /\ stack' = Append(stack, Frame("collect", "none", "none", FALSE))
        /\ UNCHANGED <<owner, target, status, tracing, finalized, nonRootList>>
    BY <1>10 DEF CollectCycles, FlagsOK, CollectFrames, Push, ccVars
  <2>2. \A o \in Objects : status'[o] = status[o] /\ (Gone(o)' <=> Gone(o))
    BY <2>1 DEF Gone, Decided
  <2>3. Selves' = Selves
    BY <2>1, SelvesPushed DEF Frame
  <2> QED BY <2>1, <2>2, <2>3, Stutters
<1> QED
  BY <1>1, <1>2, <1>3, <1>4, <1>5, <1>6, <1>7, <1>8, <1>9, <1>10 DEF UserStep

-----------------------------------------------------------------------------
(* Cc::drop, and the returns and panics of finalizers and destructors. *)

LEMMA ReleaseRefines ==
    ASSUME TypeOK, TypeOK', NEW c \in Ccs, target[c] \in Objects, Discard(c), finalized' = finalized,
           \A o \in Objects : status'[o] = status[o] /\ (Gone(o)' <=> Gone(o)),
           Selves' \in {Selves, Selves \ {target[c]}}
    PROVE  Step
<1>1. Abstract!Point(c, "nobody", "none")
  BY DiscardPointers, PointTells DEF Discard
<1>2. Values' = Values /\ target[c] # "none"
  BY ValuesStay, PlacesAssumption
<1> QED BY <1>1, <1>2 DEF Step, Abstract!Next, Abstract!Release

(* The reserved tracing counter is not among those that are overwritten. *)
LEMMA AddToListKeeps ==
    ASSUME TypeOK, NEW t \in Objects, ~Gone(t), AddToList(t), UNCHANGED <<status, phase, nonRootList>>
    PROVE  \A o \in Objects : status'[o] = status[o] /\ (Gone(o)' <=> Gone(o))
<1>1. \A o \in Objects : tracing'[o] = DroppedTc <=> tracing[o] = DroppedTc
  <2>1. DroppedTc # 0 /\ tracing[t] # DroppedTc
    BY MaxCountAssumption DEF DroppedTc, Gone, Decided
  <2> QED BY <2>1 DEF AddToList, TypeOK
<1> QED BY <1>1, GoneStays

(* The last pointer ends, and the drop glue of its value starts. *)
LEMMA DestroyRefines ==
    ASSUME TypeOK, TypeOK', CollectorInv, NEW c \in Ccs, NEW o \in Objects, o = target[c],
           ~Gone(o), o \notin nonRootList, counter[o] = 1, finalized[o],
           NEW below, DropValue(c, below), Selves' = Selves \ {o}
    PROVE  Step
<1> USE Parts
<1>1. /\ Discard(c) /\ UNCHANGED <<finalized, phase, nonRootList>>
      /\ \A x \in Objects : /\ status'[x] = IF x = o THEN "dropped" ELSE status[x]
                            /\ tracing'[x] = IF x = o THEN DroppedTc ELSE tracing[x]
  BY DEF DropValue, listVars, loopVars, TypeOK
<1>2. Abstract!Pointing(o) = {c}
  <2>1. status[o] # "free"
    BY GoneTells
  <2>2. \A d \in Ccs : target[d] = o => d = c
    BY <2>1, CounterTells
  <2> QED BY <2>2 DEF Abstract!Pointing
<1>3. Abstract!Become({o}, "dropped")
  <2>1. \A x \in Objects \ {o} : status'[x] = status[x] /\ (Gone(x)' <=> Gone(x))
    BY <1>1, GoneStays
  <2> QED BY <1>1, <2>1, ValueNext, BecomeTells
<1>4. Abstract!Point(c, "nobody", "none")
  BY <1>1, DiscardPointers, PointTells DEF Discard
<1>5. o \in Abstract!Live
  BY ValueTells DEF Abstract!Live
<1> QED BY <1>1, <1>2, <1>3, <1>4, <1>5 DEF Step, Abstract!Next, Abstract!Destroy

(* No finalizer of a value runs while a pointer in use is its last one. *)
LEMMA LastNoFinalizer ==
    ASSUME TypeOK, CollectorInv, NEW c \in Ccs, NEW o \in Objects, o = target[c],
           owner[c] # "limbo", o \notin nonRootList, counter[o] = 1, status[o] # "free"
    PROVE  o \notin Selves
<1> USE Parts
<1>1. \A d \in Ccs : target[d] = o => d = c
  BY CounterTells
<1>2. ASSUME NEW i \in Finalizers, stack[i].obj = o PROVE FALSE
  <2>1. stack[i].op \in {"finalizeCc", "finalizeList"}
    BY DEF Finalizers
  <2> QED BY <1>1, <1>2, <2>1, FinalizerTells
<1> QED BY <1>2 DEF Selves

LEMMA DropRefines ==
    ASSUME TypeOK, TypeOK', CollectorInv, NEW c \in Ccs, CcDrop(c)
    PROVE  Step
<1> USE Parts
<1> USE DEF boxVars, listVars, loopVars, callVars
<1>0. PICK o \in Objects :
         /\ o = target[c] /\ status[o] # "free" /\ owner[c] # "limbo"
         /\ ~InListOrQueue(o) => ~Gone(o) /\ o \notin nonRootList
  BY DroppableTells DEF CcDrop, DropListed, DropShared, DropFinalize, DropLast
<1>1. CASE DropListed(c)
  <2>1. Discard(c) /\ UNCHANGED <<status, tracing, finalized, phase, nonRootList, stack>>
    BY <1>1 DEF DropListed
  <2> QED BY <1>0, <2>1, GoneStays, SelvesStay, ReleaseRefines
<1>2. CASE DropShared(c)
  <2>1. /\ Discard(c) /\ AddToList(o) /\ ~Gone(o)
        /\ UNCHANGED <<status, finalized, phase, nonRootList, stack>>
    BY <1>0, <1>2 DEF DropShared, HandlePossibleCycle
  <2> QED BY <1>0, <2>1, AddToListKeeps, SelvesStay, ReleaseRefines
<1>3. CASE DropFinalize(c)
  <2> DEFINE f == Frame("finalizeCc", o, c, finalizing)
  <2>1. /\ ~Gone(o) /\ counter[o] = 1 /\ ~finalized[o]
        /\ finalized' = [finalized EXCEPT ![o] = TRUE]
        /\ \A d \in Ccs : owner'[d] = IF d = c THEN "limbo" ELSE owner[d]
        /\ target' = [target EXCEPT ![c] = o]
        /\ UNCHANGED <<status, tracing, phase, nonRootList>>
        /\ stack' = Append(stack, f) /\ f.op = "finalizeCc" /\ f.obj = o
    BY <1>0, <1>3 DEF DropFinalize, NeedsFinalization, Push, Frame, TypeOK
  <2> HIDE DEF f
  <2>2. Values' = Values
    BY <2>1, GoneStays, ValuesStay
  <2>3. Abstract!Point(c, "nobody", o)
    BY <2>1, PointTells
  <2>4. Abstract!Pointing(o) = {c}
    <3>1. \A d \in Ccs : target[d] = o => d = c
      BY <1>0, <2>1, CounterTells
    <3> QED BY <1>0, <3>1 DEF Abstract!Pointing
  <2>5. Selves' = Selves \cup {o}
    BY <2>1, SelvesPushed
  <2>6. Values[o] = "live"
    BY <2>1, ValueTells
  <2>7. Abstract!Finalize(o)
    BY <2>1, <2>2, <2>3, <2>4, <2>5, <2>6 DEF Abstract!Finalize
  <2> QED BY <2>7 DEF Step, Abstract!Next
<1>4. CASE DropLast(c)
  <2>1. /\ DropValue(c, stack) /\ ~Gone(o) /\ o \notin nonRootList /\ counter[o] = 1 /\ finalized[o]
        /\ phase' = phase /\ stack' = Append(stack, Frame("dropCc", o, "none", dropping))
    BY <1>0, <1>4 DEF DropLast, DropValue, NeedsFinalization
  <2>2. Selves' = Selves \ {o}
    <3>1. Selves' = Selves
      BY <2>1, SelvesPushed DEF Frame
    <3> QED BY <1>0, <2>1, <3>1, LastNoFinalizer
  <2> QED BY <1>0, <2>1, <2>2, DestroyRefines
<1> QED BY <1>1, <1>2, <1>3, <1>4 DEF CcDrop

(* finalize returns to Cc::drop. *)
LEMMA EndFinalizeRefines ==
    ASSUME TypeOK, TypeOK', CollectorInv, EndFinalizeCc
    PROVE  Step
<1> USE Parts
<1> DEFINE c == Top.cc
<1>1. /\ TopOp = "finalizeCc" /\ TopOp # "main" /\ TopOp # "collect"
      /\ c \in Ccs /\ owner[c] = "limbo"
  BY FrameTells DEF EndFinalizeCc
<1>2. PICK o \in Objects : o = Top.obj /\ o = target[c] /\ ~Gone(o)
  BY <1>1, FrameTells
<1>3. o \notin nonRootList /\ finalized[o]
  <2>1. o \notin nonRootList
    BY <1>1, <1>2, NotCollecting DEF NonRootOK, PhaseOK
  <2> QED BY <1>1, <1>2, <2>1, TopFinalizer DEF FinalizersOK
<1>4. CASE counter[o] # 1
  <2>1. /\ Discard(c) /\ AddToList(o) /\ stack' = Popped
        /\ UNCHANGED <<status, finalized, phase, nonRootList>>
    BY <1>2, <1>4 DEF EndFinalizeCc, HandlePossibleCycle, listVars, loopVars
  <2>2. Selves' = Selves \ {o}
    BY <1>1, <1>2, <2>1, SelvesPopped
  <2> QED BY <1>1, <1>2, <2>1, <2>2, AddToListKeeps, ReleaseRefines
<1>5. CASE counter[o] = 1
  <2>1. /\ DropValue(c, Popped) /\ phase' = phase
        /\ stack' = Append(Popped, Frame("dropCc", o, "none", dropping))
    BY <1>2, <1>5 DEF EndFinalizeCc, DropValue, loopVars
  <2>2. Selves' = Selves \ {o}
    BY <1>1, <1>2, <2>1, SelvesPopped DEF Frame
  <2> QED BY <1>1, <1>2, <1>3, <1>5, <2>1, <2>2, DestroyRefines
<1> QED BY <1>4, <1>5

(* The drop glue of a value dropped by Cc::drop has ended. *)
LEMMA EndDropRefines ==
    ASSUME TypeOK, TypeOK', CollectorInv, EndDropCc
    PROVE  Step
<1> USE Parts
<1>1. /\ TopOp = "dropCc" /\ TopOp # "main" /\ stack' = Popped
      /\ UNCHANGED <<owner, target, phase, nonRootList>>
  BY DEF EndDropCc, ccVars, listVars, loopVars
<1>2. PICK o \in Objects : o = Top.obj /\ Dropping(o) /\ Fields(o) = {}
  BY <1>1, FrameTells DEF EndDropCc
<1>3. Selves' = Selves
  BY <1>1, SelvesPopped
<1>4. CASE Top.unwinding
  <2>1. UNCHANGED <<status, tracing, finalized>>
    BY <1>4 DEF EndDropCc
  <2> QED BY <1>1, <1>3, <2>1, GoneStays, Stutters
<1>5. CASE ~Top.unwinding
  <2>1. /\ \A x \in Objects : /\ status'[x] = IF x = o THEN "free" ELSE status[x]
                              /\ tracing'[x] = IF x = o THEN 0 ELSE tracing[x]
        /\ finalized' = [x \in Objects |-> IF x \in {o} THEN FALSE ELSE finalized[x]]
    <3>1. Dealloc({o})
      BY <1>2, <1>5 DEF EndDropCc
    <3> QED BY <3>1 DEF Dealloc
  <2>2. Abstract!Become({o}, "absent")
    <3>1. \A x \in Objects \ {o} : status'[x] = status[x] /\ (Gone(x)' <=> Gone(x))
      BY <1>1, <2>1, GoneStays
    <3> QED BY <2>1, <3>1, ValueNext, BecomeTells
  <2>3. \A c \in Ccs : target[c] # o /\ Places[c] # o
    BY <1>2, PlaceTells DEF Dropping, Pointing, Fields
  <2>4. Values[o] = "dropped" /\ Places' = Places
    BY <1>1, <1>2, ValueTells DEF Dropping, Places, AbstractPlace
  <2>5. Abstract!Free({o})
    BY <1>1, <1>3, <2>1, <2>2, <2>3, <2>4 DEF Abstract!Free, Abstract!heap
  <2> QED BY <2>5 DEF Step, Abstract!Next
<1> QED BY <1>4, <1>5

(* A finalizer returns to the collector, or a panic leaves it. *)
LEMMA FinalizerEnds ==
    ASSUME TypeOK, TypeOK', CollectorInv, TopOp \in {"finalizeCc", "finalizeList"}, stack' = Popped,
           UNCHANGED <<status, tracing, finalized, owner, target, phase, nonRootList>>
    PROVE  Step
<1> USE Parts
<1>1. PICK o \in Objects : o = Top.obj /\ o \in Selves
  <2>1. Len(stack) \in Finalizers /\ stack[Len(stack)].obj = Top.obj
    BY TopFinalizer
  <2> QED BY <2>1, FinalizerTells DEF Selves
<1>2. Selves' = Selves \ {o}
  BY <1>1, SelvesPopped
<1>3. Values' = Values /\ Places' = Places
  BY GoneStays, ValuesStay DEF Places, AbstractPlace
<1>4. Abstract!Return(o)
  BY <1>1, <1>2, <1>3 DEF Abstract!Return, Abstract!heap
<1> QED BY <1>4 DEF Step, Abstract!Next

LEMMA ReturnRefines ==
    ASSUME TypeOK, TypeOK', CollectorInv,
           UserReturn \/ EndDropCc \/ EndDropInner \/ UnwindStep
    PROVE  Step
<1> USE Parts
<1> USE DEF boxVars, ccVars, listVars, loopVars, callVars
<1>1. CASE EndFinalizeList \/ UnwindFinalizer
  BY <1>1, FinalizerEnds DEF EndFinalizeList, UnwindFinalizer
<1>2. CASE EndDropInner
  <2>1. /\ TopOp = "dropList" /\ TopOp # "main" /\ stack' = Popped
        /\ UNCHANGED <<status, tracing, finalized, owner, target, phase, nonRootList>>
    BY <1>2 DEF EndDropInner
  <2>2. Selves' = Selves
    BY <2>1, SelvesPopped
  <2> QED BY <2>1, <2>2, GoneStays, Stutters
<1>3. CASE UnwindDropGlue
  <2> DEFINE f == [Top EXCEPT !.unwinding = TRUE]
  <2>1. /\ TopOp \in {"dropCc", "dropList"} /\ TopOp # "main" /\ stack' = WithTop(f)
        /\ UNCHANGED <<status, tracing, finalized, owner, target, phase, nonRootList>>
    BY <1>3 DEF UnwindDropGlue
  <2>2. f.op = TopOp
    <3>1. Top \in Frames /\ TopOp = Top.op
      BY <2>1, PopIndex, StackType
    <3> QED BY <3>1 DEF Frames
  <2> HIDE DEF f
  <2>3. Selves' = Selves
    BY <2>1, <2>2, SelvesPopped
  <2> QED BY <2>1, <2>3, GoneStays, Stutters
<1>4. CASE UnwindCollect
  <2>1. /\ TopOp = "collect" /\ TopOp # "main" /\ stack' = Popped /\ phase' = "idle"
        /\ UNCHANGED <<status, finalized, owner, target>>
        /\ \A o \in Objects : tracing'[o] = IF phase = "dropping" /\ o \in nonRootList
                                            THEN DroppedTc ELSE tracing[o]
    BY <1>4 DEF UnwindCollect
  <2>2. \A o \in Objects : status'[o] = status[o] /\ (Gone(o)' <=> Gone(o))
    BY <2>1 DEF Gone, Decided
  <2>3. Selves' = Selves
    BY <2>1, SelvesPopped
  <2> QED BY <2>1, <2>2, <2>3, Stutters
<1> QED
  BY <1>1, <1>2, <1>3, <1>4, EndFinalizeRefines, EndDropRefines DEF UserReturn, UnwindStep

-----------------------------------------------------------------------------
(* The collection. *)

(* While the collector traces, CcGarbage sees nothing. *)
LEMMA TracingRefines ==
    ASSUME TypeOK, TypeOK', CollectorInv, phase # "dropping", phase' # "dropping",
           UNCHANGED <<status, finalized, owner, target, Selves>>,
           \A o \in Objects : tracing'[o] = DroppedTc <=> tracing[o] = DroppedTc
    PROVE  Step
<1>1. \A o \in Objects : status'[o] = status[o] /\ (Gone(o)' <=> Gone(o))
  BY DEF Gone, Decided
<1> QED BY <1>1, Stutters

LEMMA TraceCountingRefines ==
    ASSUME TypeOK, TypeOK', CollectorInv, NEW c \in Ccs, TraceCounting(c)
    PROVE  Step
<1> USE Parts
<1>1. PICK t \in Objects : t = target[c]
  BY PlacesAssumption DEF TraceCounting, PlacesOK, TypeOK
<1>2. ~Gone(t)
  BY <1>1, OneMoreTraced
<1>3. /\ phase = "counting" /\ phase' = "counting" /\ stack' = stack
      /\ UNCHANGED <<status, finalized, owner, target>>
      /\ CountListed(t) \/ CountBuffered(t) \/ CountNew(t)
  BY <1>1 DEF TraceCounting, Collector, ccVars, callVars
<1>4. tracing[t] # DroppedTc /\ Increment(tracing[t]) # DroppedTc /\ DroppedTc # 1
  <2>1. tracing[t] \in Nat /\ tracing[t] # DroppedTc
    BY <1>2 DEF TypeOK, Gone, Decided
  <2> QED BY <2>1, MaxCountAssumption DEF Increment, DroppedTc
<1>5. \A o \in Objects : tracing'[o] = DroppedTc <=> tracing[o] = DroppedTc
  <2> HIDE Parts
  <2>1. tracing' \in {[tracing EXCEPT ![t] = Increment(tracing[t])], [tracing EXCEPT ![t] = 1]}
    BY <1>3 DEF CountListed, CountBuffered, CountNew
  <2>2. tracing \in [Objects -> Nat]
    BY DEF TypeOK
  <2>3. /\ tracing'[t] # DroppedTc
        /\ \A o \in Objects \ {t} : tracing'[o] = tracing[o]
    BY <1>4, <2>1, <2>2
  <2> QED BY <1>4, <2>3
<1>6. UNCHANGED <<status, finalized, owner, target, Selves>> /\ phase # "dropping" /\ phase' # "dropping"
  BY <1>3, SelvesStay
<1> QED
  <2> HIDE Parts
  <2> QED BY <1>5, <1>6, TracingRefines

(* finalize_inner *)
LEMMA FinalizeInnerRefines ==
    ASSUME TypeOK, TypeOK', CollectorInv, NEW o \in Objects, FinalizeInner(o)
    PROVE  Step
<1> USE Parts
<1>1. /\ phase = "finalizing" /\ phase' = phase /\ ~Gone(o)
      /\ UNCHANGED <<status, tracing, owner, target, nonRootList>>
  BY DEF FinalizeInner, Collector, ccVars, listVars, PhaseOK, ListsOK
<1>2. CASE ~NeedsFinalization(o)
  <2>1. UNCHANGED <<finalized, stack>>
    BY <1>2 DEF FinalizeInner
  <2> QED BY <1>1, <2>1, SelvesStay, TracingRefines
<1>3. CASE NeedsFinalization(o)
  <2>1. /\ ~finalized[o] /\ finalized' = [finalized EXCEPT ![o] = TRUE]
        /\ stack' = Append(stack, Frame("finalizeList", o, "none", FALSE))
    BY <1>3 DEF FinalizeInner, NeedsFinalization, Push
  <2>2. Selves' = Selves \cup {o}
    BY <1>1, <2>1, SelvesPushed DEF Frame
  <2>3. Values[o] = "live" /\ Values' = Values /\ Places' = Places
    BY <1>1, ValueTells, GoneStays, ValuesStay DEF Places, AbstractPlace
  <2>4. Abstract!Finalize(o)
    BY <1>1, <2>1, <2>2, <2>3 DEF Abstract!Finalize, Abstract!heap
  <2> QED BY <2>4 DEF Step, Abstract!Next
<1> QED BY <1>2, <1>3

(* No finalizer ran in this round: the collector decides to drop the list.   *)
LEMMA DoomRefines ==
    ASSUME TypeOK, TypeOK', CollectorInv, EndFinalizing, ~hasFinalized
    PROVE  Step
<1> USE Parts
<1>1. /\ phase = "finalizing" /\ phase' = "dropping" /\ work = {} /\ nonRootList \subseteq Objects
      /\ TopOp = "collect" /\ TopOp # "main"
      /\ UNCHANGED <<status, tracing, finalized, owner, target, nonRootList>>
  BY DEF EndFinalizing, Collector, ccVars, TypeOK
<1>2. \A o \in nonRootList : ~Gone(o) /\ finalized[o]
  BY <1>1 DEF ListsOK, FinalizersOK
<1>3. nonRootList \cap Selves = {}
  <2>1. ASSUME NEW i \in Finalizers, stack[i].obj \in nonRootList PROVE FALSE
    <3>1. i \in 1..Len(stack) /\ stack[i].op \in {"finalizeCc", "finalizeList"}
      BY DEF Finalizers
    <3>2. stack[i].op # "finalizeList"
      BY <1>1, <3>1, FrameTells
    <3>3. PICK c \in Ccs : owner[c] = "limbo" /\ target[c] = stack[i].obj
      BY <3>1, <3>2, FinalizerTells
    <3> QED BY <1>1, <2>1, <3>3 DEF NonRootOK
  <2> QED BY <2>1 DEF Selves
<1>4. Selves' = Selves
  <2> DEFINE f == [Top EXCEPT !.saved = dropping]
  <2>1. f.op = TopOp /\ stack' = WithTop(f)
    <3>1. Top \in Frames /\ TopOp = Top.op
      BY <1>1, PopIndex, StackType
    <3> QED BY <3>1 DEF Frames, EndFinalizing
  <2> HIDE DEF f
  <2> QED BY <1>1, <2>1, SelvesPopped
<1>5. \A c \in Ccs : target[c] \in nonRootList => Places[c] \in nonRootList
  <2>1. \A c \in Ccs : target[c] \in nonRootList => owner[c] \in nonRootList
    BY <1>1 DEF NonRootOK
  <2> QED BY <1>1, <2>1, PlaceTells, PlacesAssumption
<1>6. Abstract!Become(nonRootList, "doomed")
  <2>1. \A o \in nonRootList : AbstractValue(o)' = "doomed"
    <3>1. \A o \in nonRootList : o \in Objects /\ status'[o] = "live" /\ Gone(o)'
      BY <1>1, <1>2 DEF Gone, Decided
    <3> QED BY <3>1, ValueNext
  <2>2. \A o \in Objects \ nonRootList : status'[o] = status[o] /\ (Gone(o)' <=> Gone(o))
    BY <1>1 DEF Gone, Decided
  <2> QED BY <1>1, <2>1, <2>2, BecomeTells
<1>7. nonRootList \subseteq Abstract!Live /\ Places' = Places
  BY <1>1, <1>2, ValueTells DEF Abstract!Live, Places, AbstractPlace
<1>8. CASE nonRootList # {}
  <2>1. Abstract!Doom(nonRootList)
    BY <1>1, <1>2, <1>3, <1>4, <1>5, <1>6, <1>7, <1>8 DEF Abstract!Doom, Abstract!heap
  <2> QED BY <1>1, <2>1 DEF Step, Abstract!Next
<1>9. CASE nonRootList = {}
  <2>1. \A o \in Objects : status'[o] = status[o] /\ (Gone(o)' <=> Gone(o))
    BY <1>1, <1>9 DEF Gone, Decided
  <2> QED BY <1>1, <1>4, <2>1, Stutters
<1> QED BY <1>8, <1>9

(* A finalizer ran: the list goes back to possible_cycles. *)
LEMMA SwapRefines ==
    ASSUME TypeOK, TypeOK', CollectorInv, EndFinalizing, hasFinalized
    PROVE  Step
<1> USE Parts
<1>1. /\ phase = "finalizing" /\ phase' = "loop" /\ stack' = stack
      /\ UNCHANGED <<status, finalized, owner, target>>
      /\ \A o \in Objects : tracing'[o] = IF o \in nonRootList THEN 0 ELSE tracing[o]
  BY DEF EndFinalizing, SwapAndAppend, Collector, ccVars
<1>2. \A o \in nonRootList : ~Gone(o)
  BY <1>1 DEF ListsOK
<1>3. \A o \in Objects : tracing'[o] = DroppedTc <=> tracing[o] = DroppedTc
  <2>1. DroppedTc # 0
    BY MaxCountAssumption DEF DroppedTc
  <2> QED BY <1>1, <1>2, <2>1 DEF Gone, Decided
<1> QED BY <1>1, <1>3, SelvesStay, TracingRefines

LEMMA EndTraceRootsRefines ==
    ASSUME TypeOK, TypeOK', CollectorInv, EndTraceRoots
    PROVE  Step
<1> USE Parts
<1>1. /\ phase = "roots" /\ phase' \in {"loop", "finalizing"} /\ TopOp = "collect" /\ TopOp # "main"
      /\ UNCHANGED <<status, tracing, finalized, owner, target>>
  BY DEF EndTraceRoots, Collector, boxVars, ccVars
<1>2. Selves' = Selves
  <2>1. CASE stack' = stack
    BY <2>1, SelvesStay
  <2>2. CASE stack' = WithTop([Top EXCEPT !.saved = finalizing])
    <3> DEFINE f == [Top EXCEPT !.saved = finalizing]
    <3>1. f.op = TopOp /\ stack' = WithTop(f)
      <4>1. Top \in Frames /\ TopOp = Top.op
        BY <1>1, PopIndex, StackType
      <4> QED BY <2>2, <4>1 DEF Frames
    <3> HIDE DEF f
    <3> QED BY <1>1, <3>1, SelvesPopped
  <2> QED BY <2>1, <2>2 DEF EndTraceRoots
<1> QED BY <1>1, <1>2, TracingRefines

(* drop_inner *)
LEMMA DropInnerRefines ==
    ASSUME TypeOK, TypeOK', CollectorInv, NEW o \in Objects, DropInner(o)
    PROVE  Step
<1> USE Parts
<1>1. /\ phase = "dropping" /\ phase' = phase /\ o \in work
      /\ stack' = Append(stack, Frame("dropList", o, "none", FALSE))
      /\ UNCHANGED <<finalized, owner, target, nonRootList>>
      /\ \A x \in Objects : /\ status'[x] = IF x = o THEN "dropped" ELSE status[x]
                            /\ tracing'[x] = IF x = o THEN DroppedTc ELSE tracing[x]
  BY DEF DropInner, Collector, Push, ccVars, listVars, TypeOK
<1>2. Values[o] = "doomed"
  <2>1. status[o] = "live" /\ Gone(o)
    BY <1>1 DEF PhaseOK, Gone, Decided
  <2> QED BY <2>1, ValueTells
<1>3. Abstract!Become({o}, "dropped")
  <2>1. \A x \in Objects \ {o} : status'[x] = status[x] /\ (Gone(x)' <=> Gone(x))
    BY <1>1, GoneStays
  <2> QED BY <1>1, <2>1, ValueNext, BecomeTells
<1>4. Places' = Places /\ Selves' = Selves
  BY <1>1, SelvesPushed DEF Places, AbstractPlace, Frame
<1>5. Abstract!Drop(o)
  BY <1>1, <1>2, <1>3, <1>4 DEF Abstract!Drop, Abstract!heap
<1> QED BY <1>5 DEF Step, Abstract!Next

(* deallocate_list gives back what it dropped. *)
LEMMA DeallocateRefines ==
    ASSUME TypeOK, TypeOK', CollectorInv, DeallocateList
    PROVE  Step
<1> USE Parts
<1> DEFINE S == nonRootList
<1>1. /\ phase = "dropping" /\ phase' = "loop" /\ work = {} /\ TopOp = "collect"
      /\ stack' = stack /\ S \subseteq Objects /\ UNCHANGED <<owner, target>>
      /\ \A o \in Objects : /\ status'[o] = IF o \in S THEN "free" ELSE status[o]
                            /\ tracing'[o] = IF o \in S THEN 0 ELSE tracing[o]
  BY DEF DeallocateList, Collector, Dealloc, ccVars, callVars, TypeOK
<1>2. finalized' = [o \in Objects |-> IF o \in S THEN FALSE ELSE finalized[o]]
  BY DEF DeallocateList, Dealloc
<1>3. \A o \in S : Values[o] = "dropped"
  BY <1>1, ValueTells DEF PhaseOK
<1>4. \A c \in Ccs : target[c] \notin S /\ Places[c] \notin S
  <2>1. \A i \in 1..Len(stack) : stack[i].op # "dropList"
    BY <1>1, FrameTells
  <2>2. \A o \in S : Fields(o) = {}
    BY <1>1, <2>1, PartsOfInv DEF GlueEmpties, ListGlue
  <2>3. \A c \in Ccs : owner[c] \notin S /\ target[c] \notin S
    BY <1>1, <2>2 DEF Fields, GoneOK
  <2> QED BY <1>1, <2>3, PlaceTells
<1>5. Abstract!Become(S, "absent")
  <2>1. \A o \in Objects \ S : status'[o] = status[o] /\ (Gone(o)' <=> Gone(o))
    BY <1>1 DEF Gone, Decided
  <2> QED BY <1>1, <2>1, ValueNext, BecomeTells
<1>6. Places' = Places /\ Selves' = Selves
  BY <1>1, SelvesStay DEF Places, AbstractPlace
<1>7. Abstract!Free(S)
  BY <1>1, <1>2, <1>3, <1>4, <1>5, <1>6 DEF Abstract!Free, Abstract!heap
<1> QED BY <1>1, <1>7 DEF Step, Abstract!Next

LEMMA CollectorRefines ==
    ASSUME TypeOK, TypeOK', CollectorInv, CollectorStep
    PROVE  Step
<1> USE Parts
<1> USE DEF boxVars, ccVars, listVars, loopVars, callVars, Collector
<1>1. ASSUME phase # "dropping", phase' # "dropping", stack' = stack,
             UNCHANGED <<status, tracing, finalized, owner, target>>
      PROVE  Step
  BY <1>1, SelvesStay, TracingRefines
<1>2. CASE NextRound \/ EndCounting \/ EndTraceCounting \/ EndRoot
  BY <1>1, <1>2 DEF NextRound, EndCounting, EndTraceCounting, EndRoot
<1>3. ASSUME NEW o \in Objects, StartCounting(o) \/ StartRoot(o) PROVE Step
  BY <1>1, <1>3 DEF StartCounting, StartRoot
<1>4. ASSUME NEW c \in Ccs, TraceRoots(c) PROVE Step
  BY <1>1, <1>4 DEF TraceRoots
<1>5. CASE EndCollect
  <2>1. /\ TopOp = "collect" /\ TopOp # "main" /\ stack' = Popped
        /\ phase # "dropping" /\ phase' = "idle"
        /\ UNCHANGED <<status, tracing, finalized, owner, target>>
    BY <1>5 DEF EndCollect
  <2>2. Selves' = Selves
    BY <2>1, SelvesPopped
  <2> QED BY <2>1, <2>2, TracingRefines
<1>6. ASSUME NEW o \in Objects, FinalizeInner(o) \/ DropInner(o) PROVE Step
  BY <1>6, FinalizeInnerRefines, DropInnerRefines
<1>7. ASSUME NEW c \in Ccs, TraceCounting(c) PROVE Step
  BY <1>7, TraceCountingRefines
<1>8. CASE EndTraceRoots \/ EndFinalizing \/ DeallocateList
  BY <1>8, EndTraceRootsRefines, SwapRefines, DoomRefines, DeallocateRefines
<1> QED BY <1>2, <1>3, <1>4, <1>5, <1>6, <1>7, <1>8 DEF CollectorStep

-----------------------------------------------------------------------------
LEMMA NextRefines ==
    ASSUME TypeOK, TypeOK', CollectorInv, [Next]_vars
    PROVE  [Abstract!Next]_Abstract!vars
<1>1. CASE UNCHANGED vars
  <2>1. Step
    BY <1>1, QuietRefines DEF vars, boxVars, ccVars, listVars, loopVars, callVars
  <2> QED BY <2>1 DEF Step
<1>2. CASE Next
  <2>1. Step
    BY <1>2, UserRefines, DropRefines, ReturnRefines, CollectorRefines DEF Next
  <2> QED BY <2>1 DEF Step
<1> QED BY <1>1, <1>2

LEMMA InitRefines == Init => Abstract!Init
<1> SUFFICES ASSUME Init PROVE Abstract!Init
  OBVIOUS
<1>1. \A o \in Objects : AbstractValue(o) = "absent"
  BY DEF Init, AbstractValue
<1>2. \A c \in Ccs : AbstractPlace(c) = "nobody"
  BY DEF Init, AbstractPlace
<1>3. Selves = {}
  BY DEF Init, Selves, Finalizers
<1> QED BY <1>1, <1>2, <1>3 DEF Init, Abstract!Init, Values, Places

(* The collector does what CcGarbage promises, in every execution in which   *)
(* no tracing counter of a buffered object is stale (lib.rs, __collect;      *)
(* cc.rs, drop; weak/mod.rs, upgrade).                                       *)
THEOREM GarbageImplemented == Spec /\ []BufferedIsReset => ImplementsGarbage
<1>1. TypeOK /\ CollectorInv /\ TypeOK' /\ [Next]_vars => [Abstract!Next]_Abstract!vars
  BY NextRefines
<1> QED BY <1>1, CollectorInvariant, InitRefines, PTL DEF Spec, ImplementsGarbage, Abstract!Spec

(* It does for every program whose Trace implementations do not panic.       *)
THEOREM ProgramImplementsGarbage ==
    ASSUME "TracePanic" \notin UserOps
    PROVE  Spec => ImplementsGarbage
BY ResetCorrect, GarbageImplemented, PTL

-----------------------------------------------------------------------------
(* Nothing leaks. *)

(* What T is a candidate for: the objects that are kept alive. *)
Cover(T) == Closed(T) /\ \A c \in Keeping : target[c] \in T

-----------------------------------------------------------------------------
(* Garbage, told by sets of objects that no pointer leaves. *)

LEMMA KeptTells ==
    ASSUME NEW T \in SUBSET Objects, Cover(T), NEW o \in Objects, status[o] = "live", o \notin T
    PROVE  o \in Garbage
<1>1. {target[c] : c \in Keeping} \subseteq T /\ Closed(T)
  BY DEF Cover
<1> QED BY <1>1 DEF Garbage, Reachable

LEMMA BufferedTells ==
    ASSUME GarbageIsBuffered, NEW T \in SUBSET Objects, Cover(T), pc \cup Listed \subseteq T,
           NEW o \in Objects, status[o] = "live"
    PROVE  o \in T
<1> SUFFICES ASSUME o \notin T PROVE FALSE
  OBVIOUS
<1>1. o \in Reachable(pc \cup Listed)
  BY KeptTells DEF GarbageIsBuffered
<1> QED BY <1>1 DEF Reachable, Cover

LEMMA GarbageNext ==
    ASSUME NEW g \in Garbage'
    PROVE  g \in Objects /\ status'[g] = "live" /\ \E T \in SUBSET Objects : Cover(T)' /\ g \notin T
<1>1. PICK T \in SUBSET Objects : {target'[c] : c \in Keeping'} \subseteq T /\ Closed(T)' /\ g \notin T
  BY DEF Garbage, Reachable
<1>2. Cover(T)'
  BY <1>1 DEF Cover
<1> QED BY <1>1, <1>2 DEF Garbage

LEMMA BufferedNext ==
    ASSUME \A T \in SUBSET Objects : Cover(T)' /\ (pc \cup Listed)' \subseteq T =>
                \A o \in Objects : status'[o] = "live" => o \in T
    PROVE  GarbageIsBuffered'
<1> SUFFICES ASSUME NEW g \in Garbage', NEW U \in SUBSET Objects, Closed(U)',
                    (pc \cup Listed)' \subseteq U
             PROVE  g \in U
  BY GarbageNext DEF GarbageIsBuffered, Reachable
<1>1. PICK T \in SUBSET Objects : Cover(T)' /\ g \notin T
  BY GarbageNext
<1>2. Cover(T \cup U)'
  BY <1>1 DEF Cover, Closed
<1>3. g \in T \cup U
  BY <1>2, GarbageNext
<1> QED BY <1>1, <1>3

LEMMA RootsTell ==
    ASSUME RootsFound, phase = "roots", NEW T \in SUBSET Objects, Cover(T),
           NEW o \in Objects, status[o] = "live", o \notin nonRootList
    PROVE  o \in T
BY KeptTells DEF RootsFound

(* Lists that grow lose nothing, nor does a value whose destructor starts:   *)
(* what it owns is kept alive.                                               *)
LEMMA ListsGrow ==
    ASSUME GarbageIsBuffered, UNCHANGED ccVars,
           \A o \in Objects : status'[o] = status[o] \/ status'[o] = "dropped",
           pc \cup Listed \subseteq (pc \cup Listed)'
    PROVE  GarbageIsBuffered'
<1> SUFFICES ASSUME NEW T \in SUBSET Objects, Cover(T)', (pc \cup Listed)' \subseteq T,
                    NEW o \in Objects, status'[o] = "live"
             PROVE  o \in T
  BY BufferedNext
<1>1. Cover(T)
  BY DEF Cover, Closed, Keeping, ccVars
<1> QED BY <1>1, BufferedTells

(* What the program can reach is kept alive, or is in non_root_list while    *)
(* its finalizer runs.                                                       *)
LEMMA AccessibleCovered ==
    ASSUME TypeOK, StackInv, SafeInv, NEW T \in SUBSET Objects, NEW W, Closed(T),
           nonRootList \subseteq T,
           \A c \in Ccs \ W : owner[c] = "program" => target[c] \in T,
           \A c \in Ccs : owner[c] = "limbo" => target[c] \in T
    PROVE  Accessible(W) \subseteq T
<1>1. Self \subseteq T
  <2>1. CASE TopOp = "finalizeCc"
    BY <2>1, FrameTells DEF Self
  <2>2. CASE TopOp = "finalizeList"
    <3>1. /\ Len(stack) \in 1..Len(stack) /\ stack[Len(stack)].op = "finalizeList"
          /\ Top = stack[Len(stack)]
      BY <2>2, PopIndex
    <3>2. Top.obj \in nonRootList
      BY <3>1, PartsOfInv DEF FramesFit
    <3> QED BY <2>2, <3>2 DEF Self
  <2>3. CASE TopOp \notin {"finalizeCc", "finalizeList"}
    BY <2>3 DEF Self
  <2> QED BY <2>1, <2>2, <2>3
<1>2. Self \cup {target[c] : c \in Held \ W} \subseteq T
  BY <1>1 DEF Held
<1> QED BY <1>2 DEF Accessible, Reachable

-----------------------------------------------------------------------------
(* The operations of the program. *)

(* Outside __collect its lists are empty, but non_root_list.                 *)
LEMMA ListedTells ==
    ASSUME TypeOK, StackInv, SafeInv, TopOp # "collect"
    PROVE  Listed = nonRootList /\ \A o \in Objects : InListOrQueue(o) => o \in Listed
BY NotCollecting DEF Listed

(* What is taken out of possible_cycles, o, is kept alive or was reachable.  *)
LEMMA RemoveTells ==
    ASSUME TypeOK, NEW o \in Objects, RemoveFromList(o)
    PROVE  pc \subseteq pc' \cup {o}
BY DEF RemoveFromList

LEMMA NewLeak ==
    ASSUME TypeOK, StackInv, SafeInv, GarbageIsBuffered, NEW c \in Ccs, NEW o \in Objects, New(c, o)
    PROVE  GarbageIsBuffered'
<1>1. Fields(o) = {}
  BY PartsOfInv DEF New, GoneOK
<1>2. /\ Listed' = Listed /\ pc' = pc /\ borrowed' = borrowed \ {o} /\ owner[c] = "nowhere"
      /\ \A d \in Ccs : /\ owner'[d] = IF d = c THEN "program" ELSE owner[d]
                        /\ target'[d] = IF d = c THEN o ELSE target[d]
      /\ \A x \in Objects : status'[x] = IF x = o THEN "live" ELSE status[x]
  BY DEF New, pcVars, listVars, loopVars, Listed, TypeOK
<1> SUFFICES ASSUME NEW T \in SUBSET Objects, Cover(T)', (pc \cup Listed)' \subseteq T,
                    NEW x \in Objects, status'[x] = "live"
             PROVE  x \in T
  BY BufferedNext
<1>3. o \in T
  <2>1. c \in Keeping' /\ target'[c] = o
    BY <1>2 DEF Keeping
  <2> QED BY <2>1 DEF Cover
<1>4. Cover(T)
  <2>1. Closed(T)
    BY <1>2, PlacesAssumption DEF Cover, Closed
  <2>2. \A d \in Keeping : d # c /\ d \in Keeping'
    BY <1>1, <1>2, PlacesAssumption DEF Keeping, Fields, TypeOK
  <2> QED BY <1>2, <2>1, <2>2 DEF Cover, Keeping
<1>5. x = o \/ status[x] = "live"
  BY <1>2
<1> QED BY <1>2, <1>3, <1>4, <1>5, BufferedTells

LEMMA NewPointerLeak ==
    ASSUME TypeOK, GarbageIsBuffered, NEW d \in Ccs, NEW o \in Objects, NewPointer(d, o)
    PROVE  GarbageIsBuffered'
<1>1. /\ Listed' = Listed /\ pc \subseteq pc' \cup {o} /\ owner[d] = "nowhere"
      /\ UNCHANGED <<borrowed, status>>
      /\ \A c \in Ccs : /\ owner'[c] = IF c = d THEN "program" ELSE owner[c]
                        /\ target'[c] = IF c = d THEN o ELSE target[c]
  BY RemoveTells DEF NewPointer, listVars, loopVars, Listed, TypeOK
<1> SUFFICES ASSUME NEW T \in SUBSET Objects, Cover(T)', (pc \cup Listed)' \subseteq T,
                    NEW x \in Objects, status'[x] = "live"
             PROVE  x \in T
  BY BufferedNext
<1>2. o \in T
  <2>1. d \in Keeping' /\ target'[d] = o
    BY <1>1 DEF Keeping
  <2> QED BY <2>1 DEF Cover
<1>3. Cover(T)
  <2>1. Closed(T)
    BY <1>1, PlacesAssumption DEF Cover, Closed
  <2>2. \A c \in Keeping : c # d /\ c \in Keeping'
    BY <1>1, PlacesAssumption DEF Keeping, TypeOK
  <2> QED BY <1>1, <2>1, <2>2 DEF Cover, Keeping
<1> QED BY <1>1, <1>2, <1>3, BufferedTells

(* A Cc the program can use points into every cover of what is kept alive.   *)
LEMMA UsableCovered ==
    ASSUME TypeOK, StackInv, SafeInv, TopOp # "collect", NEW c \in Ccs, Usable(c),
           NEW T \in SUBSET Objects, Cover(T), Listed \subseteq T
    PROVE  target[c] \in T
<1>1. \A d \in Ccs : owner[d] \in {"program", "limbo"} => target[d] \in T
  BY DEF Cover, Keeping
<1>2. Accessible({}) \subseteq T
  BY <1>1, ListedTells, AccessibleCovered DEF Cover
<1> QED BY <1>1, <1>2 DEF Usable, Cover, Closed

LEMMA MarkAliveLeak ==
    ASSUME TypeOK, StackInv, SafeInv, GarbageIsBuffered, NEW c \in Ccs, MarkAlive(c)
    PROVE  GarbageIsBuffered'
<1>1. TopOp # "collect" /\ Usable(c) /\ target[c] \in Objects
  BY UsableTells DEF MarkAlive, UserRunning
<1>2. Listed' = Listed /\ pc \subseteq pc' \cup {target[c]} /\ UNCHANGED <<status, ccVars>>
  BY <1>1, RemoveTells DEF MarkAlive, listVars, loopVars, Listed
<1> SUFFICES ASSUME NEW T \in SUBSET Objects, Cover(T)', (pc \cup Listed)' \subseteq T,
                    NEW x \in Objects, status'[x] = "live"
             PROVE  x \in T
  BY BufferedNext
<1>3. Cover(T)
  BY <1>2 DEF Cover, Closed, Keeping, ccVars
<1>4. target[c] \in T
  BY <1>1, <1>2, <1>3, UsableCovered
<1> QED BY <1>2, <1>3, <1>4, BufferedTells

LEMMA StoreLeak ==
    ASSUME TypeOK, StackInv, SafeInv, GarbageIsBuffered, NEW c \in Ccs, NEW o \in Objects, Store(c, o)
    PROVE  GarbageIsBuffered'
<1>1. TopOp # "collect" /\ owner[c] = "program" /\ o \in Accessible({c})
  BY DEF Store, UserRunning
<1>2. /\ Listed' = Listed /\ pc' = pc /\ UNCHANGED <<target, borrowed, status>>
      /\ \A d \in Ccs : owner'[d] = IF d = c THEN o ELSE owner[d]
  BY DEF Store, boxVars, pcVars, listVars, loopVars, Listed, TypeOK
<1> SUFFICES ASSUME NEW T \in SUBSET Objects, Cover(T)', (pc \cup Listed)' \subseteq T,
                    NEW x \in Objects, status'[x] = "live"
             PROVE  x \in T
  BY BufferedNext
<1>3. Closed(T)
  BY <1>1, <1>2, PlacesAssumption DEF Cover, Closed
<1>4. \A d \in Keeping \ {c} : target[d] \in T
  BY <1>2 DEF Cover, Keeping
<1>5. Accessible({c}) \subseteq T
  <2>1. \A d \in Ccs \ {c} : owner[d] = "program" => target[d] \in T
    BY <1>4 DEF Keeping
  <2>2. \A d \in Ccs : owner[d] = "limbo" => target[d] \in T
    BY <1>1, <1>4 DEF Keeping
  <2> QED BY <1>1, <1>2, <1>3, <2>1, <2>2, ListedTells, AccessibleCovered
<1>6. target[c] \in T
  BY <1>1, <1>2, <1>5 DEF Cover, Closed
<1> QED BY <1>2, <1>3, <1>4, <1>6, BufferedTells DEF Cover

LEMMA TakeLeak ==
    ASSUME TypeOK, StackInv, SafeInv, GarbageIsBuffered, NEW c \in Ccs, Take(c)
    PROVE  GarbageIsBuffered'
<1>1. /\ Listed' = Listed /\ pc' = pc /\ UNCHANGED <<target, borrowed, status>>
      /\ \A d \in Ccs : owner'[d] = IF d = c THEN "program" ELSE owner[d]
  BY DEF Take, boxVars, pcVars, listVars, loopVars, Listed, TypeOK
<1> SUFFICES ASSUME NEW T \in SUBSET Objects, Cover(T)', (pc \cup Listed)' \subseteq T,
                    NEW x \in Objects, status'[x] = "live"
             PROVE  x \in T
  BY BufferedNext
<1>2. target[c] \in T
  BY <1>1 DEF Cover, Keeping
<1>3. Closed(T)
  BY <1>1, <1>2 DEF Cover, Closed
<1>4. \A d \in Keeping \ {c} : target[d] \in T
  BY <1>1 DEF Cover, Keeping
<1> QED BY <1>1, <1>2, <1>3, <1>4, BufferedTells DEF Cover

LEMMA BorrowLeak ==
    ASSUME TypeOK, StackInv, SafeInv, GarbageIsBuffered, NEW o \in Objects, BorrowCell(o)
    PROVE  GarbageIsBuffered'
<1>1. TopOp # "collect" /\ o \in Accessible({})
  BY DEF BorrowCell, UserRunning
<1>2. /\ Listed' = Listed /\ pc' = pc /\ UNCHANGED <<owner, target, status>>
      /\ borrowed \subseteq borrowed' \cup {o}
  BY DEF BorrowCell, boxVars, pcVars, listVars, loopVars, Listed
<1> SUFFICES ASSUME NEW T \in SUBSET Objects, Cover(T)', (pc \cup Listed)' \subseteq T,
                    NEW x \in Objects, status'[x] = "live"
             PROVE  x \in T
  BY BufferedNext
<1>3. Closed(T)
  BY <1>2 DEF Cover, Closed
<1>4. \A d \in Ccs : owner[d] \in {"program", "limbo"} => target[d] \in T
  BY <1>2 DEF Cover, Keeping
<1>5. o \in T
  BY <1>1, <1>2, <1>3, <1>4, ListedTells, AccessibleCovered
<1>6. \A d \in Keeping : target[d] \in T
  BY <1>2, <1>3, <1>5 DEF Cover, Keeping, Closed
<1> QED BY <1>2, <1>3, <1>6, BufferedTells DEF Cover

LEMMA UnwrapLeak ==
    ASSUME TypeOK, StackInv, SafeInv, GarbageIsBuffered, NEW c \in Ccs, TryUnwrap(c)
    PROVE  GarbageIsBuffered'
<1>0. PICK t \in Objects : t = target[c] /\ status[t] = "live"
  BY OutsideTarget, GoneTells, PartsOfInv DEF TryUnwrap
<1>1. /\ Listed' = Listed /\ pc \subseteq pc' \cup {t} /\ UNCHANGED borrowed
      /\ \A d \in Ccs : target'[d] = IF d = c THEN "none" ELSE target[d]
      /\ \A d \in Ccs : owner'[d] = IF d = c THEN "nowhere"
                                    ELSE IF owner[d] = t THEN "program" ELSE owner[d]
      /\ \A x \in Objects : status'[x] = IF x = t THEN "free" ELSE status[x]
  BY <1>0, RemoveTells DEF TryUnwrap, Dealloc, listVars, loopVars, Listed, TypeOK
<1> SUFFICES ASSUME NEW T \in SUBSET Objects, Cover(T)', (pc \cup Listed)' \subseteq T,
                    NEW x \in Objects, status'[x] = "live"
             PROVE  x \in T
  BY BufferedNext
<1>2. \A d \in Ccs : owner[d] = t => target[d] \in T \cup {t}
  <2> SUFFICES ASSUME NEW d \in Ccs, owner[d] = t, d # c PROVE target[d] \in T
    BY <1>0
  <2>1. d \in Keeping' /\ target'[d] = target[d]
    BY <1>1 DEF Keeping
  <2> QED BY <2>1 DEF Cover
<1>3. \A d \in Ccs : owner[d] # t /\ d # c => /\ owner[d] \in T => target[d] \in T
                                              /\ d \in Keeping => target[d] \in T
  BY <1>1 DEF Cover, Closed, Keeping
<1>4. Cover(T \cup {t})
  <2>1. Closed(T \cup {t})
    BY <1>0, <1>2, <1>3 DEF Closed
  <2>2. Keeping \subseteq Ccs
    BY DEF Keeping
  <2>3. \A d \in Keeping : target[d] \in T \cup {t}
    BY <1>0, <1>2, <1>3, <2>2
  <2> QED BY <2>1, <2>3 DEF Cover
<1>5. x # t /\ status[x] = "live"
  BY <1>1
<1>6. x \in T \cup {t}
  BY <1>1, <1>4, <1>5, BufferedTells
<1> QED BY <1>5, <1>6

LEMMA UserLeak ==
    ASSUME TypeOK, StackInv, SafeInv, GarbageIsBuffered, UserStep
    PROVE  GarbageIsBuffered'
<1> USE DEF boxVars, pcVars, listVars, loopVars
<1>1. ASSUME NEW c \in Ccs, NEW o \in Objects, New(c, o) \/ Upgrade(o, c) \/ Store(c, o)
      PROVE  GarbageIsBuffered'
  BY <1>1, NewLeak, NewPointerLeak, StoreLeak DEF Upgrade
<1>2. ASSUME NEW o \in Objects, BorrowCell(o) PROVE GarbageIsBuffered'
  BY <1>2, BorrowLeak
<1>3. ASSUME NEW c \in Ccs, NEW d \in Ccs, Clone(c, d) PROVE GarbageIsBuffered'
  BY <1>3, UsableTells, NewPointerLeak DEF Clone
<1>4. ASSUME NEW c \in Ccs, MarkAlive(c) \/ Take(c) \/ TryUnwrap(c) PROVE GarbageIsBuffered'
  BY <1>4, MarkAliveLeak, TakeLeak, UnwrapLeak
<1>5. ASSUME NEW c \in Ccs, FinalizeAgain(c) PROVE GarbageIsBuffered'
  BY <1>5, ListsGrow DEF FinalizeAgain, Listed
<1>6. ASSUME CollectCycles \/ UserPanic \/ TracePanic \/ Catch PROVE GarbageIsBuffered'
  BY <1>6, ListsGrow DEF CollectCycles, UserPanic, TracePanic, Catch, Listed
<1> QED BY <1>1, <1>2, <1>3, <1>4, <1>5, <1>6 DEF UserStep

-----------------------------------------------------------------------------
(* Cc::drop, and the end of what it called. *)

(* A Cc to o ends, and o is in a list or its value is dropped: what o owns   *)
(* is kept alive then.                                                       *)
LEMMA DiscardLeak ==
    ASSUME TypeOK, PlacesOK, GarbageIsBuffered, NEW c \in Ccs, NEW o \in Objects, o = target[c],
           Discard(c), Listed' = Listed, pc \subseteq pc' \cup {o},
           \A x \in Objects : x # o => status'[x] = status[x],
           \/ status'[o] = status[o] /\ o \in (pc \cup Listed)'
           \/ status'[o] = "dropped"
    PROVE  GarbageIsBuffered'
<1>1. \A d \in Ccs : /\ target'[d] = IF d = c THEN "none" ELSE target[d]
                     /\ owner'[d] = IF d = c THEN "nowhere" ELSE owner[d]
  BY DEF Discard, TypeOK
<1>2. borrowed' = borrowed
  BY DEF Discard
<1> SUFFICES ASSUME NEW T \in SUBSET Objects, Cover(T)', (pc \cup Listed)' \subseteq T,
                    NEW x \in Objects, status'[x] = "live"
             PROVE  x \in T
  BY BufferedNext
<1>3. ASSUME NEW d \in Ccs, owner[d] = o, d # c, status'[o] = "dropped"
      PROVE  target[d] \in T
  <2>1. d \in Keeping' /\ target'[d] = target[d]
    BY <1>1, <1>3 DEF Keeping
  <2> QED BY <2>1 DEF Cover
<1>4. \A d \in Ccs : d # c => /\ owner[d] \in T => target[d] \in T
                              /\ d \in Keeping /\ owner[d] # o => target[d] \in T
  BY <1>1, <1>2 DEF Cover, Closed, Keeping
<1>5. Cover(T \cup {o})
  <2>1. ASSUME status'[o] = status[o], o \in T
        PROVE  \A d \in Keeping : target[d] \in T
    BY <1>1, <1>2, <1>4, <2>1 DEF Cover, Keeping
  <2>2. CASE status'[o] = "dropped"
    BY <1>3, <1>4, <2>2 DEF Cover, Closed, Keeping
  <2>3. CASE status'[o] = status[o] /\ o \in T
    BY <1>4, <2>1, <2>3 DEF Cover, Closed
  <2> QED BY <2>2, <2>3
<1>6. status[x] = "live" /\ (x = o => o \in T)
  OBVIOUS
<1>7. x \in T \cup {o}
  BY <1>5, <1>6, BufferedTells
<1> QED BY <1>6, <1>7

LEMMA HandleLeak ==
    ASSUME TypeOK, StackInv, SafeInv, GarbageIsBuffered, NEW c \in Ccs, target[c] \in Objects,
           HandlePossibleCycle(c), UNCHANGED <<status, listVars, loopVars>>
    PROVE  GarbageIsBuffered'
<1>1. Discard(c) /\ AddToList(target[c]) /\ Listed' = Listed
  BY DEF HandlePossibleCycle, listVars, loopVars, Listed
<1>2. pc \subseteq pc' /\ target[c] \in pc'
  BY <1>1, PartsOfInv DEF AddToList, MarksMatchLists
<1> QED BY <1>1, <1>2, DiscardLeak, PartsOfInv

LEMMA DropValueLeak ==
    ASSUME TypeOK, StackInv, SafeInv, GarbageIsBuffered, NEW c \in Ccs, target[c] \in Objects,
           NEW below, DropValue(c, below)
    PROVE  GarbageIsBuffered'
<1>1. Discard(c) /\ RemoveFromList(target[c]) /\ Listed' = Listed
  BY DEF DropValue, listVars, loopVars, Listed
<1>2. \A x \in Objects : status'[x] = IF x = target[c] THEN "dropped" ELSE status[x]
  BY DEF DropValue, TypeOK
<1> QED BY <1>1, <1>2, RemoveTells, DiscardLeak, PartsOfInv

LEMMA DropFinalizeLeak ==
    ASSUME TypeOK, StackInv, SafeInv, GarbageIsBuffered, NEW c \in Ccs, DropFinalize(c)
    PROVE  GarbageIsBuffered'
<1>1. /\ Listed' = Listed /\ pc' = pc /\ UNCHANGED <<target, borrowed, status>>
      /\ \A d \in Ccs : owner'[d] = IF d = c THEN "limbo" ELSE owner[d]
  BY DEF DropFinalize, pcVars, listVars, loopVars, Listed, TypeOK
<1> SUFFICES ASSUME NEW T \in SUBSET Objects, Cover(T)', (pc \cup Listed)' \subseteq T,
                    NEW x \in Objects, status'[x] = "live"
             PROVE  x \in T
  BY BufferedNext
<1>2. target[c] \in T
  BY <1>1 DEF Cover, Keeping
<1>3. Closed(T)
  BY <1>1, <1>2 DEF Cover, Closed
<1>4. \A d \in Keeping : target[d] \in T
  BY <1>1, <1>2 DEF Cover, Keeping
<1> QED BY <1>1, <1>3, <1>4, BufferedTells DEF Cover

LEMMA DropLeak ==
    ASSUME TypeOK, StackInv, SafeInv, GarbageIsBuffered, NEW c \in Ccs, CcDrop(c)
    PROVE  GarbageIsBuffered'
<1>1. target[c] \in Objects /\ TopOp # "collect"
  BY DroppableTells DEF CcDrop, DropListed, DropShared, DropFinalize, DropLast
<1>2. CASE DropListed(c)
  <2>1. Discard(c) /\ Listed' = Listed /\ UNCHANGED <<status, pc>>
    BY <1>2 DEF DropListed, pcVars, listVars, loopVars, Listed
  <2>2. target[c] \in Listed
    BY <1>1, <1>2, ListedTells DEF DropListed
  <2> QED BY <1>1, <2>1, <2>2, DiscardLeak, PartsOfInv
<1>3. CASE DropShared(c)
  BY <1>1, <1>3, HandleLeak DEF DropShared
<1>4. CASE DropFinalize(c)
  BY <1>4, DropFinalizeLeak
<1>5. CASE DropLast(c)
  BY <1>1, <1>5, DropValueLeak DEF DropLast
<1> QED BY <1>2, <1>3, <1>4, <1>5 DEF CcDrop

(* The memory of values whose drop glue has ended is given back. *)
LEMMA FreeLeak ==
    ASSUME GarbageIsBuffered, NEW S \in SUBSET Objects,
           \A o \in S : status[o] = "dropped" /\ Fields(o) = {},
           Dealloc(S), UNCHANGED <<ccVars, pc>>, Listed \subseteq Listed' \cup S
    PROVE  GarbageIsBuffered'
<1>1. \A o \in Objects : status'[o] = IF o \in S THEN "free" ELSE status[o]
  BY DEF Dealloc
<1> SUFFICES ASSUME NEW T \in SUBSET Objects, Cover(T)', (pc \cup Listed)' \subseteq T,
                    NEW x \in Objects, status'[x] = "live"
             PROVE  x \in T
  BY BufferedNext
<1>2. \A c \in Ccs : owner[c] \notin S
  BY DEF Fields
<1>3. Cover(T \cup S)
  BY <1>1, <1>2 DEF Cover, Closed, Keeping, ccVars
<1> QED BY <1>1, <1>3, BufferedTells

LEMMA ReturnLeak ==
    ASSUME TypeOK, StackInv, SafeInv, GarbageIsBuffered,
           UserReturn \/ EndDropCc \/ EndDropInner \/ UnwindFinalizer \/ UnwindDropGlue
    PROVE  GarbageIsBuffered'
<1> USE DEF boxVars, pcVars, listVars, loopVars
<1>1. CASE EndFinalizeCc
  <2>1. Top.cc \in Ccs /\ target[Top.cc] \in Objects
    BY <1>1, FrameTells DEF EndFinalizeCc
  <2>2. \/ HandlePossibleCycle(Top.cc) /\ UNCHANGED <<status, listVars, loopVars>>
        \/ DropValue(Top.cc, Popped)
    BY <1>1 DEF EndFinalizeCc
  <2> QED BY <2>1, <2>2, HandleLeak, DropValueLeak
<1>2. CASE EndDropCc
  <2>1. /\ UNCHANGED <<ccVars, pc>> /\ Listed' = Listed
        /\ UNCHANGED status \/ Dealloc({Top.obj})
    BY <1>2 DEF EndDropCc, Listed
  <2>2. Top.obj \in Objects /\ status[Top.obj] = "dropped" /\ Fields(Top.obj) = {}
    BY <1>2, FrameTells DEF EndDropCc, Dropping
  <2> QED BY <2>1, <2>2, ListsGrow, FreeLeak
<1>3. CASE EndFinalizeList \/ EndDropInner \/ UnwindFinalizer \/ UnwindDropGlue
  BY <1>3, ListsGrow DEF EndFinalizeList, EndDropInner, UnwindFinalizer, UnwindDropGlue, Listed
<1> QED BY <1>1, <1>2, <1>3 DEF UserReturn

-----------------------------------------------------------------------------
(* The collection. *)

LEMMA SameGarbage ==
    ASSUME UNCHANGED <<status, ccVars>>
    PROVE  Garbage' = Garbage /\ \A T : Cover(T)' <=> Cover(T)
BY DEF Garbage, Reachable, Closed, Cover, Keeping, ccVars

(* When trace_counting ends, all that garbage owns was traced.  An object    *)
(* with a Cc that was not traced is kept alive, or is owned by one that is.  *)
LEMMA RootsStart ==
    ASSUME TypeOK, StackInv, SafeInv, GarbageIsBuffered, EndTraceCounting
    PROVE  RootsFound'
<1> USE PartsOfInv
<1> DEFINE L == rootList \cup nonRootList
<1>1. /\ phase = "counting" /\ pc \cup Listed = L
      /\ UNCHANGED <<status, ccVars, nonRootList>>
      /\ \A o \in Objects : mark[o] = "NonMarked" \/ o \in L
  BY DEF EndTraceCounting, Collector, boxVars, listVars, Listed, MarksMatchLists, TypeOK, Marks
<1> SUFFICES ASSUME NEW T \in SUBSET Objects, Cover(T),
                    NEW g \in Objects, status[g] = "live", g \notin T
             PROVE  g \in nonRootList
  <2>1. current' \notin nonRootList'
    BY <1>1, PlacesAssumption DEF EndTraceCounting, TypeOK
  <2> QED BY <1>1, <2>1, GarbageNext, SameGarbage DEF RootsFound
<1>2. \A c \in Ccs : owner[c] \in L /\ c \notin Keeping => c \in Traced
  <2>1. L \subseteq Objects /\ "nowhere" \notin Objects
    BY PlacesAssumption DEF TypeOK
  <2> QED BY <2>1 DEF Keeping, Traced, TracedFields, Fields
<1>3. Cover(T \cup L)
  <2>1. ASSUME NEW c \in Ccs, owner[c] \in L PROVE target[c] \in T \cup L
    <3>1. CASE c \in Keeping
      BY <3>1 DEF Cover
    <3>2. CASE c \in Traced
      <4>1. target[c] \in Objects
        BY <2>1, PlacesAssumption DEF PlacesOK, TypeOK
      <4>2. mark[target[c]] # "NonMarked"
        BY <1>1, <3>2, <4>1 DEF TracingOK, Pointing
      <4> QED BY <1>1, <4>1, <4>2
    <3> QED BY <1>2, <2>1, <3>1, <3>2
  <2> QED BY <2>1 DEF Cover, Closed
<1>4. \A o \in Objects : status[o] = "live" => o \in T \cup L
  <2>1. T \cup L \in SUBSET Objects /\ pc \cup Listed \subseteq T \cup L
    BY <1>1 DEF TypeOK
  <2> HIDE DEF L
  <2> QED BY <1>3, <2>1, BufferedTells
<1>5. ASSUME g \in rootList PROVE FALSE
  <2>1. mark[g] # "NonMarked" /\ counter[g] # tracing[g]
    BY <1>1, <1>5 DEF MarksMatchLists, TracingOK, AllTraced
  <2>2. counter[g] = Cardinality(Pointing(g)) /\ tracing[g] = Cardinality(Traced \cap Pointing(g))
    BY <1>1, <2>1 DEF CounterExact, TracingExact
  <2>3. PICK c \in Pointing(g) : c \notin Traced
    <3>1. Traced \cap Pointing(g) = Pointing(g) => FALSE
      BY <2>1, <2>2
    <3> QED BY <3>1
  <2>4. c \in Ccs /\ target[c] = g /\ c \notin Keeping
    BY <2>3 DEF Pointing, Cover
  <2>5. owner[c] \in Objects /\ status[owner[c]] = "live"
    <3>1. owner[c] \in Objects
      BY <2>4, PlacesAssumption DEF Keeping, PlacesOK, TypeOK
    <3>2. status[owner[c]] # "free"
      BY <2>4, <3>1 DEF GoneOK, Fields
    <3> QED BY <2>4, <3>1, <3>2 DEF Keeping, TypeOK
  <2>6. owner[c] \notin T
    BY <2>4 DEF Cover, Closed
  <2> QED BY <1>2, <1>4, <2>3, <2>4, <2>5, <2>6
<1> QED BY <1>4, <1>5

(* What trace_roots visits is kept alive, and so is what it points to.       *)
LEMMA RootsTraced ==
    ASSUME TypeOK, StackInv, SafeInv, RootsFound, NEW c \in Ccs, TraceRoots(c)
    PROVE  RootsFound'
<1> USE PartsOfInv
<1>1. /\ phase = "roots" /\ current \in Objects /\ owner[c] = current
      /\ UNCHANGED <<status, ccVars, phase, current>>
      /\ \A o \in nonRootList : o \in nonRootList' \/ o = target[c]
      /\ nonRootList' \subseteq nonRootList
  BY DEF TraceRoots, Collector, PlacesOK, Requeue
<1>2. status[current] = "live" /\ current \notin nonRootList
  BY <1>1, PlacesAssumption, GoneTells DEF ListsOK, RootsFound
<1>3. target[c] \notin Garbage
  <2> SUFFICES ASSUME target[c] \in Garbage PROVE FALSE
    OBVIOUS
  <2>1. PICK T \in SUBSET Objects : {target[d] : d \in Keeping} \subseteq T /\ Closed(T)
                                    /\ target[c] \notin T
    BY DEF Garbage, Reachable
  <2>2. current \in T
    BY <1>1, <1>2, <2>1, RootsTell DEF Cover
  <2> QED BY <1>1, <2>1, <2>2 DEF Closed
<1> QED BY <1>1, <1>2, <1>3, SameGarbage DEF RootsFound

LEMMA RootsStay ==
    ASSUME RootsFound, UNCHANGED <<status, ccVars, nonRootList, phase>>,
           phase = "roots" => current' = current \/ current' \notin nonRootList
    PROVE  RootsFound'
BY SameGarbage DEF RootsFound

LEMMA RootsEnough ==
    ASSUME RootsFound', phase' = "roots"
    PROVE  GarbageIsBuffered'
<1>1. nonRootList' \subseteq (pc \cup Listed)'
  BY DEF Listed
<1>2. \A g \in Garbage' : g \in Objects /\ g \in (pc \cup Listed)'
  BY <1>1, GarbageNext DEF RootsFound
<1>3. \A g \in Objects : g \in (pc \cup Listed)' => g \in Reachable(pc \cup Listed)'
  BY DEF Reachable
<1> QED BY <1>2, <1>3 DEF GarbageIsBuffered

LEMMA CollectorLeak ==
    ASSUME TypeOK, StackInv, SafeInv, GarbageIsBuffered, RootsFound, CollectorStep
    PROVE  GarbageIsBuffered' /\ RootsFound'
<1> USE PartsOfInv
<1> USE DEF boxVars, ccVars, pcVars, listVars, Listed
<1>1. CASE NextRound \/ EndCollect
  BY <1>1, ListsGrow DEF NextRound, EndCollect, RootsFound
<1>2. ASSUME NEW o \in Objects, StartCounting(o) PROVE GarbageIsBuffered' /\ RootsFound'
  <2>1. pc \cup Listed \subseteq (pc \cup Listed)'
    BY <1>2, PlacesAssumption DEF StartCounting
  <2> QED BY <1>2, <2>1, ListsGrow DEF StartCounting, Collector, RootsFound
<1>3. ASSUME NEW c \in Ccs, TraceCounting(c) PROVE GarbageIsBuffered' /\ RootsFound'
  <2>1. pc \cup Listed \subseteq (pc \cup Listed)'
    BY <1>3 DEF TraceCounting, CountListed, CountBuffered, CountNew
  <2> QED BY <1>3, <2>1, ListsGrow DEF TraceCounting, Collector, RootsFound
<1>4. CASE EndCounting
  <2>1. pc \cup Listed \subseteq (pc \cup Listed)'
    BY <1>4 DEF EndCounting
  <2> QED BY <1>4, <2>1, ListsGrow DEF EndCounting, Collector, RootsFound
<1>5. CASE EndTraceCounting
  BY <1>5, RootsStart, RootsEnough DEF EndTraceCounting
<1>6. ASSUME NEW o \in Objects, StartRoot(o) PROVE GarbageIsBuffered' /\ RootsFound'
  <2>1. o \notin nonRootList
    BY <1>6 DEF StartRoot, MarksMatchLists
  <2>2. RootsFound' /\ phase' = "roots"
    BY <1>6, <2>1, RootsStay DEF StartRoot, Collector
  <2> QED BY <2>2, RootsEnough
<1>7. ASSUME NEW c \in Ccs, TraceRoots(c) PROVE GarbageIsBuffered' /\ RootsFound'
  BY <1>7, RootsTraced, RootsEnough DEF TraceRoots, Collector
<1>8. CASE EndRoot
  <2>1. RootsFound' /\ phase' = "roots"
    BY <1>8, RootsStay, PlacesAssumption DEF EndRoot, Collector, TypeOK
  <2> QED BY <2>1, RootsEnough
<1>9. CASE EndTraceRoots
  BY <1>9, ListsGrow DEF EndTraceRoots, RootsFound
<1>10. ASSUME NEW o \in Objects, FinalizeInner(o) PROVE GarbageIsBuffered' /\ RootsFound'
  BY <1>10, ListsGrow DEF FinalizeInner, Collector, RootsFound
<1>11. CASE EndFinalizing
  <2>1. pc \cup Listed \subseteq (pc \cup Listed)'
    BY <1>11 DEF EndFinalizing, SwapAndAppend
  <2> QED BY <1>11, <2>1, ListsGrow DEF EndFinalizing, RootsFound
<1>12. ASSUME NEW o \in Objects, DropInner(o) PROVE GarbageIsBuffered' /\ RootsFound'
  <2>1. \A x \in Objects : status'[x] = status[x] \/ status'[x] = "dropped"
    BY <1>12 DEF DropInner, TypeOK
  <2> QED BY <1>12, <2>1, ListsGrow DEF DropInner, Collector, RootsFound
<1>13. CASE DeallocateList
  <2>1. phase = "dropping" /\ work = {} /\ TopOp = "collect"
    BY <1>13 DEF DeallocateList, Collector
  <2>2. \A o \in nonRootList : status[o] = "dropped" /\ ~ListGlue(o)
    BY <2>1, FrameTells DEF PhaseOK, ListGlue
  <2>3. \A o \in nonRootList : status[o] = "dropped" /\ Fields(o) = {}
    BY <2>1, <2>2 DEF GlueEmpties
  <2>4. /\ Dealloc(nonRootList) /\ UNCHANGED <<ccVars, pc>> /\ Listed \subseteq Listed' \cup nonRootList
        /\ nonRootList \in SUBSET Objects /\ phase' = "loop"
    BY <1>13 DEF DeallocateList, TypeOK
  <2> QED BY <2>3, <2>4, FreeLeak DEF RootsFound
<1> QED
  BY <1>1, <1>2, <1>3, <1>4, <1>5, <1>6, <1>7, <1>8, <1>9, <1>10, <1>11, <1>12, <1>13 DEF CollectorStep

-----------------------------------------------------------------------------
(* The invariant. *)

LEMMA NextLeak ==
    ASSUME TypeOK, CollectorInv, GarbageIsBuffered, RootsFound, [Next]_vars, ~UnwindCollect
    PROVE  GarbageIsBuffered' /\ RootsFound'
<1>1. StackInv /\ SafeInv
  BY DEF CollectorInv
<1>2. CASE CollectorStep
  BY <1>1, <1>2, CollectorLeak
<1>3. CASE UNCHANGED vars
  <2>1. UNCHANGED <<status, ccVars, pc, nonRootList, phase, current>> /\ Listed' = Listed
    BY <1>3 DEF vars, boxVars, pcVars, listVars, loopVars, Listed
  <2> QED BY <2>1, ListsGrow, RootsStay
<1>4. CASE TracePanic
  <2>1. UNCHANGED <<status, ccVars, pc, nonRootList, phase, current>> /\ Listed' = Listed
    BY <1>4 DEF TracePanic, boxVars, pcVars, listVars, loopVars, Listed
  <2> QED BY <2>1, ListsGrow, RootsStay
<1>5. ASSUME TopOp # "collect", phase' = phase \/ phase' = "loop"
      PROVE  RootsFound'
  BY <1>1, <1>5, NotCollecting DEF RootsFound
<1>6. CASE UserStep
  <2>1. GarbageIsBuffered'
    BY <1>1, <1>6, UserLeak
  <2>2. CASE ~TracePanic
    <3>1. TopOp # "collect"
      BY <1>6, <2>2 DEF UserStep, New, Upgrade, Store, BorrowCell, Clone, MarkAlive, Take,
                        TryUnwrap, FinalizeAgain, CollectCycles, UserPanic, Catch, UserRunning
    <3>2. phase' = phase \/ phase' = "loop"
      BY <1>6, <2>2 DEF UserStep, New, Upgrade, Store, BorrowCell, Clone, MarkAlive, Take,
                        TryUnwrap, FinalizeAgain, CollectCycles, UserPanic, Catch, NewPointer, loopVars
    <3> QED BY <1>5, <2>1, <3>1, <3>2
  <2> QED BY <1>4, <2>2
<1>7. ASSUME NEW c \in Ccs, CcDrop(c) PROVE GarbageIsBuffered' /\ RootsFound'
  <2>1. TopOp # "collect" /\ phase' = phase
    BY <1>1, <1>7, DroppableTells DEF CcDrop, DropListed, DropShared, DropFinalize, DropLast,
                                      DropValue, loopVars
  <2> QED BY <1>1, <1>5, <1>7, <2>1, DropLeak
<1>8. CASE UserReturn \/ EndDropCc \/ EndDropInner \/ UnwindFinalizer \/ UnwindDropGlue
  <2>1. TopOp # "collect" /\ phase' = phase
    BY <1>8 DEF UserReturn, EndFinalizeCc, EndFinalizeList, EndDropCc, EndDropInner, UnwindFinalizer,
                UnwindDropGlue, DropValue, loopVars
  <2> QED BY <1>1, <1>5, <1>8, <2>1, ReturnLeak
<1> QED BY <1>2, <1>3, <1>6, <1>7, <1>8 DEF Next, UnwindStep

(* Every object that is garbage is in a list of the collector or owned by    *)
(* one that is, so a collection will meet it, as long as no panic leaves a   *)
(* collection: an unwound collection forgets what was in its lists.          *)
THEOREM NothingLeaks ==
    Spec /\ []BufferedIsReset /\ [][~UnwindCollect]_vars => []GarbageIsBuffered
<1> DEFINE Inv == TypeOK /\ CollectorInv /\ GarbageIsBuffered /\ RootsFound
<1>1. Init => Inv
  <2> SUFFICES ASSUME Init PROVE Inv
    OBVIOUS
  <2>1. TypeOK /\ CollectorInv
    BY InitType, InitStack, InitSafe, InitFinalizers DEF CollectorInv
  <2>2. Garbage = {} /\ phase = "idle"
    BY DEF Init, Garbage
  <2> QED BY <2>1, <2>2 DEF GarbageIsBuffered, RootsFound
<1>2. Inv /\ BufferedIsReset /\ [Next]_vars /\ [~UnwindCollect]_vars => Inv'
  <2> SUFFICES ASSUME Inv, BufferedIsReset, [Next]_vars, [~UnwindCollect]_vars PROVE Inv'
    OBVIOUS
  <2>1. TypeOK' /\ CollectorInv'
    BY NextInv
  <2>2. ASSUME UnwindCollect PROVE vars' # vars
    <3>1. TopOp # "main"
      BY <2>2 DEF UnwindCollect
    <3>2. stack' # stack
      BY <2>2, <3>1, PopIndex DEF UnwindCollect
    <3> QED BY <3>2 DEF vars, callVars
  <2>3. ~UnwindCollect
    BY <2>2
  <2> QED BY <2>1, <2>3, NextLeak
<1>3. Inv => GarbageIsBuffered
  OBVIOUS
<1> QED BY <1>1, <1>2, <1>3, PTL DEF Spec

-----------------------------------------------------------------------------
(* Programs that do not panic. *)

Calm == ~panicking /\ \A i \in 1..Len(stack) : ~stack[i].unwinding

LEMMA CalmStep ==
    ASSUME TypeOK, Calm, ~panicking', NEW f, ~f.unwinding,
           \/ stack' = stack \/ stack' = Append(stack, f)
           \/ TopOp # "main" /\ stack' \in {Popped, Append(Popped, f), WithTop(f)}
    PROVE  Calm'
<1>0. stack \in Seq(Frames) /\ Len(stack) \in Nat
  BY StackType
<1>1. CASE stack' = stack
  BY <1>1 DEF Calm
<1>2. CASE stack' = Append(stack, f)
  BY <1>0, <1>2, PushIndex DEF Calm
<1>3. CASE TopOp # "main" /\ stack' = Popped
  <2>1. Len(stack') = Len(stack) - 1 /\ \A i \in 1..(Len(stack) - 1) : stack'[i] = stack[i]
    BY <1>3, PopIndex
  <2> QED BY <1>0, <2>1 DEF Calm
<1>4. CASE TopOp # "main" /\ stack' = Append(Popped, f)
  <2>1. /\ Popped \in Seq(Frames) /\ Len(Popped) = Len(stack) - 1
        /\ \A i \in 1..(Len(stack) - 1) : Popped[i] = stack[i]
    BY <1>4, PopIndex
  <2>2. /\ Len(stack') = Len(Popped) + 1 /\ stack'[Len(Popped) + 1] = f
        /\ \A i \in 1..Len(Popped) : stack'[i] = Popped[i]
    BY <1>4, <2>1, PushIndex
  <2> QED BY <1>0, <2>1, <2>2 DEF Calm
<1>5. CASE TopOp # "main" /\ stack' = WithTop(f)
  <2>1. /\ Len(stack') = Len(stack) /\ stack'[Len(stack)] = f
        /\ \A i \in 1..(Len(stack) - 1) : stack'[i] = stack[i]
    BY <1>5, ReplaceIndex
  <2> QED BY <1>0, <2>1 DEF Calm
<1> QED BY <1>1, <1>2, <1>3, <1>4, <1>5

LEMMA NextCalm ==
    ASSUME TypeOK, Calm, UserOps \cap {"Panic", "TracePanic"} = {}, [Next]_vars
    PROVE  Calm'
<1> USE DEF callVars
<1>0. ~panicking /\ (TopOp # "main" => ~Top.unwinding /\ Top \in Frames)
  BY PopIndex, StackType DEF Calm
<1>1. ASSUME stack' = stack, ~panicking' PROVE Calm'
  BY <1>1 DEF Calm
<1>2. ASSUME NEW op, NEW o, NEW c, NEW b, ~panicking',
             \/ stack' = Append(stack, Frame(op, o, c, b))
             \/ TopOp # "main" /\ stack' = Append(Popped, Frame(op, o, c, b))
      PROVE  Calm'
  <2> DEFINE f == Frame(op, o, c, b)
  <2>1. ~f.unwinding
    BY DEF Frame
  <2>2. \/ stack' = Append(stack, f)
        \/ TopOp # "main" /\ stack' = Append(Popped, f)
    BY <1>2
  <2> HIDE DEF f
  <2> QED BY <1>2, <2>1, <2>2, CalmStep
<1>3. ASSUME NEW b, ~panicking', TopOp # "main", stack' = WithTop([Top EXCEPT !.saved = b])
      PROVE  Calm'
  <2> DEFINE f == [Top EXCEPT !.saved = b]
  <2>1. ~f.unwinding
    BY <1>0, <1>3 DEF Frames
  <2>2. stack' = WithTop(f)
    BY <1>3
  <2> HIDE DEF f
  <2> QED BY <1>3, <2>1, <2>2, CalmStep
<1>4. ASSUME ~panicking', TopOp # "main", stack' = Popped
      PROVE  Calm'
  BY <1>0, <1>4, CalmStep
<1>5. CASE UNCHANGED vars
  BY <1>1, <1>5 DEF vars, Calm
<1>6. CASE UserStep /\ ~CollectCycles
  <2>1. ASSUME NEW c \in Ccs, NEW o \in Objects, New(c, o) \/ Upgrade(o, c) \/ Store(c, o)
        PROVE  Calm'
    BY <1>0, <1>1, <2>1 DEF New, Upgrade, Store, NewPointer
  <2>2. ASSUME NEW o \in Objects, BorrowCell(o) PROVE Calm'
    BY <1>0, <1>1, <2>2 DEF BorrowCell
  <2>3. ASSUME NEW c \in Ccs, NEW d \in Ccs, Clone(c, d) PROVE Calm'
    BY <1>0, <1>1, <2>3 DEF Clone, NewPointer
  <2>4. ASSUME NEW c \in Ccs, MarkAlive(c) \/ Take(c) \/ TryUnwrap(c) \/ FinalizeAgain(c)
        PROVE  Calm'
    BY <1>0, <1>1, <2>4 DEF MarkAlive, Take, TryUnwrap, FinalizeAgain
  <2>5. ~UserPanic /\ ~TracePanic /\ ~Catch
    BY <1>0 DEF UserPanic, TracePanic, Catch
  <2> QED
    BY <1>6, <2>1, <2>2, <2>3, <2>4, <2>5 DEF UserStep
<1>7. CASE CollectCycles
  BY <1>0, <1>2, <1>7 DEF CollectCycles, Push
<1>8. ASSUME NEW c \in Ccs, CcDrop(c) PROVE Calm'
  BY <1>0, <1>1, <1>2, <1>8 DEF CcDrop, DropListed, DropShared, DropFinalize, DropLast, DropValue, Push
<1>9. CASE EndFinalizeCc \/ EndFinalizeList
  BY <1>0, <1>2, <1>4, <1>9 DEF EndFinalizeCc, EndFinalizeList, DropValue
<1>10. CASE EndDropCc \/ EndDropInner
  BY <1>0, <1>4, <1>10 DEF EndDropCc, EndDropInner
<1>11. CASE CollectorStep
  BY <1>0, <1>1, <1>2, <1>3, <1>4, <1>11
     DEF CollectorStep, NextRound, EndCollect, StartCounting, StartRoot, FinalizeInner, DropInner,
         TraceCounting, TraceRoots, EndCounting, EndTraceCounting, EndRoot, EndTraceRoots,
         EndFinalizing, DeallocateList, Collector, Push
<1>12. CASE UnwindStep
  BY <1>0, <1>12 DEF UnwindStep, UnwindFinalizer, UnwindDropGlue, UnwindCollect
<1> QED
  BY <1>5, <1>6, <1>7, <1>8, <1>9, <1>10, <1>11, <1>12 DEF Next, UserReturn

(* In a program that does not panic nothing leaks, unconditionally.          *)
THEOREM CalmProgramsDoNotLeak ==
    ASSUME UserOps \cap {"Panic", "TracePanic"} = {}
    PROVE  Spec => []GarbageIsBuffered
<1>1. Init => Calm
  BY DEF Init, Calm
<1>2. TypeOK /\ Calm /\ [Next]_vars => Calm'
  BY NextCalm
<1>3. Calm => [~UnwindCollect]_vars
  BY DEF Calm, UnwindCollect
<1>4. Spec => []BufferedIsReset
  BY ResetCorrect
<1> QED BY <1>1, <1>2, <1>3, <1>4, TypeCorrect, NothingLeaks, PTL DEF Spec

-----------------------------------------------------------------------------
(* Whatever implements CcGarbage keeps its users safe.                       *)

VARIABLES anyValue, anyFinalized, anyPlace, anyPoints, anySelves

Promise == INSTANCE CcGarbage WITH
    value <- anyValue,
    finalized <- anyFinalized,
    place <- anyPlace,
    points <- anyPoints,
    selves <- anySelves

PromiseTypes ==
    /\ anyValue \in [Objects -> Promise!Values]
    /\ anyFinalized \in [Objects -> BOOLEAN]
    /\ anyPlace \in [Ccs -> Objects \cup {"program", "nobody"}]
    /\ anyPoints \in [Ccs -> Objects \cup {"none"}]
    /\ anySelves \subseteq Objects

(* What leads to an object that is not live is not live either, and neither  *)
(* the program nor a running finalizer has such an object in its hands.      *)
GoneStaysGone ==
    /\ anySelves \subseteq Promise!Live
    /\ \A c \in Ccs :
         anyPoints[c] \in Objects \ Promise!Live => anyPlace[c] \in Objects \ Promise!Live

(* A place that is an object exists, and so does what a Cc points to.        *)
Allocated ==
    \A c \in Ccs :
        /\ anyPoints[c] \in Objects => anyValue[anyPoints[c]] # "absent"
        /\ anyPlace[c] \in Objects => anyValue[anyPlace[c]] # "absent"
        /\ anyPoints[c] = "none" => anyPlace[c] = "nobody"

PromiseInv == PromiseTypes /\ GoneStaysGone /\ Allocated

(* Nothing that safe code can reach was dropped or is going to be.           *)
ReachableIsLive == Promise!Accessible \subseteq Promise!Live

(* No Cc outlives the memory it points to.                                   *)
NoDangling == \A c \in Ccs : anyPoints[c] # "none" => anyValue[anyPoints[c]] # "absent"

PromiseNames == Objects \cap {"program", "nobody", "none"} = {}

LEMMA PromiseInit == ASSUME PromiseNames PROVE Promise!Init => PromiseInv
BY DEF PromiseNames, Promise!Init, PromiseInv, PromiseTypes, GoneStaysGone, Allocated, Promise!Live,
       Promise!Values

(* What is accessible is live, because the live objects are closed.          *)
LEMMA PromiseReach == ASSUME PromiseNames, PromiseInv PROVE ReachableIsLive /\ NoDangling
<1>1. Promise!Roots \subseteq Promise!Live
  BY DEF PromiseNames, PromiseInv, PromiseTypes, GoneStaysGone, Allocated, Promise!Roots, Promise!Live
<1>2. ASSUME NEW c \in Ccs, anyPlace[c] \in Promise!Live PROVE anyPoints[c] \in Promise!Live
  BY <1>2 DEF PromiseNames, PromiseInv, PromiseTypes, GoneStaysGone, Allocated, Promise!Live
<1>3. ReachableIsLive
  BY <1>1, <1>2 DEF ReachableIsLive, Promise!Accessible, Promise!Closed, Promise!Live
<1>4. NoDangling
  BY DEF PromiseInv, PromiseTypes, Allocated, NoDangling
<1> QED BY <1>3, <1>4

LEMMA PromiseStep ==
    ASSUME PromiseNames, PromiseInv, [Promise!Next]_(Promise!vars)
    PROVE  PromiseInv'
<1> USE DEF PromiseNames, PromiseInv, PromiseTypes, GoneStaysGone, Allocated, Promise!Live,
            Promise!Values, Promise!Become, Promise!Point, Promise!Pointing, Promise!heap
<1>1. ASSUME NEW c \in Ccs, NEW o \in Objects, Promise!Create(c, o) PROVE PromiseInv'
  BY <1>1 DEF Promise!Create
<1>2. ASSUME NEW c \in Ccs, NEW o \in Objects, Promise!Copy(c, o) PROVE PromiseInv'
  BY <1>2 DEF Promise!Copy
<1>3. ASSUME NEW c \in Ccs, NEW p \in Objects \cup {"program"}, Promise!Move(c, p) PROVE PromiseInv'
  <2>1. anyPlace[c] \in Promise!Live \cup {"program"} /\ p \in Promise!Live \cup {"program"}
    BY <1>3, PromiseReach DEF Promise!Move, ReachableIsLive
  <2> QED BY <1>3, <2>1 DEF Promise!Move
<1>4. ASSUME NEW c \in Ccs, Promise!Unwrap(c) PROVE PromiseInv'
  BY <1>4 DEF Promise!Unwrap
<1>5. ASSUME NEW c \in Ccs, Promise!Release(c) PROVE PromiseInv'
  BY <1>5 DEF Promise!Release
<1>6. ASSUME NEW c \in Ccs, Promise!Destroy(c) PROVE PromiseInv'
  BY <1>6 DEF Promise!Destroy
<1>7. ASSUME NEW o \in Objects, Promise!FinalizeAgain(o) PROVE PromiseInv'
  BY <1>7 DEF Promise!FinalizeAgain
<1>8. ASSUME NEW o \in Objects, Promise!Finalize(o) PROVE PromiseInv'
  BY <1>8 DEF Promise!Finalize
<1>9. ASSUME NEW o \in Objects, Promise!Return(o) PROVE PromiseInv'
  BY <1>9 DEF Promise!Return
<1>10. ASSUME NEW o \in Objects, Promise!Drop(o) PROVE PromiseInv'
  BY <1>10 DEF Promise!Drop
<1>11. ASSUME NEW S \in SUBSET Objects, Promise!Doom(S) PROVE PromiseInv'
  BY <1>11 DEF Promise!Doom
<1>12. ASSUME NEW S \in SUBSET Objects, Promise!Free(S) PROVE PromiseInv'
  BY <1>12 DEF Promise!Free
<1>13. CASE UNCHANGED Promise!vars
  BY <1>13 DEF Promise!vars
<1> QED
  BY <1>1, <1>2, <1>3, <1>4, <1>5, <1>6, <1>7, <1>8, <1>9, <1>10, <1>11, <1>12, <1>13
     DEF Promise!Next

(* Whoever implements CcGarbage never lets safe code reach a value that was  *)
(* dropped, or is decided to be, and never gives back memory a Cc points to  *)
(* (the promise of Cc in cc.rs and of collect_cycles in lib.rs).             *)
THEOREM GarbageSafe ==
    ASSUME PromiseNames
    PROVE  Promise!Spec => [](ReachableIsLive /\ NoDangling)
<1>1. Promise!Init => PromiseInv
  BY PromiseInit
<1>2. PromiseInv /\ [Promise!Next]_(Promise!vars) => PromiseInv'
  BY PromiseStep
<1>3. PromiseInv => ReachableIsLive /\ NoDangling
  BY PromiseReach
<1> QED BY <1>1, <1>2, <1>3, PTL DEF Promise!Spec
==============================================================================
