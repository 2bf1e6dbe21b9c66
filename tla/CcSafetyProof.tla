---------------------------- MODULE CcSafetyProof ----------------------------
(* The collector drops nothing the program can reach.  The parts: the types  *)
(* and the call stack (TypeOK and StackInv of CcCollector hold together: the *)
(* steps keep TypeOK, given where the pointers are (PlacesOK), and StackInv,  *)
(* given TypeOK, so the flags of State describe the call stack); lemmas on    *)
(* counts (what a step does to a reference counter and to the Ccs it counts,  *)
(* to the marks, the lists and the size of possible_cycles); the steps of the *)
(* program and of Cc::drop; the steps of a collection, and of a panic that    *)
(* leaves it, which keep SafeInv; that a collection only advances; the       *)
(* theorems.                                                                  *)
EXTENDS CcInvariants, SequenceTheorems, FiniteSetTheorems, TLAPS

-----------------------------------------------------------------------------
(* The call stack stays a sequence of frames when a frame is pushed, popped  *)
(* or replaced.                                                              *)
LEMMA PushType ==
    ASSUME NEW s \in Seq(Frames), NEW f \in Frames
    PROVE  Append(s, f) \in Seq(Frames)
OBVIOUS

LEMMA PopType ==
    ASSUME NEW s \in Seq(Frames), s # <<>>
    PROVE  /\ SubSeq(s, 1, Len(s) - 1) \in Seq(Frames)
           /\ s[Len(s)] \in Frames
OBVIOUS

LEMMA WithTopType ==
    ASSUME NEW s \in Seq(Frames), s # <<>>, NEW f \in Frames
    PROVE  [s EXCEPT ![Len(s)] = f] \in Seq(Frames)
OBVIOUS

(* A frame that runs is in the stack. *)
LEMMA TopType ==
    ASSUME TypeOK, TopOp # "main"
    PROVE  /\ stack # <<>> /\ Top \in Frames /\ Popped \in Seq(Frames)
           /\ TopOp = Top.op
           /\ \A b \in BOOLEAN : WithTop([Top EXCEPT !.saved = b]) \in Seq(Frames)
           /\ WithTop([Top EXCEPT !.unwinding = TRUE]) \in Seq(Frames)
<1>1. stack # <<>> /\ stack \in Seq(Frames) /\ TopOp = Top.op
  BY DEF TypeOK, TopOp
<1>2. Top \in Frames /\ Popped \in Seq(Frames)
  BY <1>1, PopType DEF Top, Popped
<1>3. ASSUME NEW b \in BOOLEAN
      PROVE  [Top EXCEPT !.saved = b] \in Frames
  BY <1>2 DEF Frames
<1>4. [Top EXCEPT !.unwinding = TRUE] \in Frames
  BY <1>2 DEF Frames
<1>5. ASSUME NEW f \in Frames
      PROVE  WithTop(f) \in Seq(Frames)
  BY <1>1, WithTopType DEF WithTop
<1> QED BY <1>1, <1>2, <1>3, <1>4, <1>5

(* The arithmetic of the counters. *)
LEMMA CounterType ==
    /\ \A n \in Nat : Increment(n) \in Nat /\ Decrement(n) \in Nat
    /\ \A n \in 0..MaxCount : Decrement(n) \in 0..MaxCount
BY MaxCountAssumption DEF Increment, Decrement

LEMMA FrameType ==
    ASSUME NEW op \in FrameOps, NEW o \in Objects \cup {"none"},
           NEW c \in Ccs \cup {"none"}, NEW b \in BOOLEAN
    PROVE  Frame(op, o, c, b) \in Frames
BY DEF Frame, Frames

LEMMA DeallocType ==
    ASSUME TypeOK, NEW S, Dealloc(S)
    PROVE  /\ status' \in [Objects -> {"free", "live", "dropped"}]
           /\ counter' \in [Objects -> 0..MaxCount]
           /\ tracing' \in [Objects -> Nat]
           /\ finalized' \in [Objects -> BOOLEAN]
<1>1. status' \in [Objects -> {"free", "live", "dropped"}]
  BY DEF Dealloc, TypeOK
<1>2. counter' \in [Objects -> 0..MaxCount]
  BY MaxCountAssumption DEF Dealloc, TypeOK
<1>3. tracing' \in [Objects -> Nat]
  BY DEF Dealloc, TypeOK
<1>4. finalized' \in [Objects -> BOOLEAN]
  BY DEF Dealloc, TypeOK
<1> QED BY <1>1, <1>2, <1>3, <1>4

LEMMA RemoveType ==
    ASSUME TypeOK, NEW o, RemoveFromList(o)
    PROVE  mark' \in [Objects -> Marks] /\ pc' \subseteq Objects /\ pcSize' \in Int
<1>1. mark' \in [Objects -> Marks]
  <2>1. mark \in [Objects -> Marks] /\ "NonMarked" \in Marks
    BY DEF TypeOK, Marks
  <2>2. mark' = mark \/ mark' = [mark EXCEPT ![o] = "NonMarked"]
    BY DEF RemoveFromList
  <2> QED BY <2>1, <2>2
<1>2. pc' \subseteq Objects
  BY DEF RemoveFromList, TypeOK
<1>3. pcSize' \in Int
  BY DEF RemoveFromList, TypeOK
<1> QED BY <1>1, <1>2, <1>3

LEMMA AddType ==
    ASSUME TypeOK, NEW o \in Objects, AddToList(o)
    PROVE  /\ tracing' \in [Objects -> Nat] /\ mark' \in [Objects -> Marks]
           /\ pc' \subseteq Objects /\ pcSize' \in Int
<1>1. tracing' \in [Objects -> Nat]
  <2>1. CASE mark[o] = "PossibleCycles"
    BY <2>1 DEF AddToList, TypeOK
  <2>2. CASE mark[o] # "PossibleCycles"
    <3>1. tracing' = [tracing EXCEPT ![o] = 0] /\ tracing \in [Objects -> Nat]
      BY <2>2 DEF AddToList, TypeOK
    <3> QED BY <3>1
  <2> QED BY <2>1, <2>2
<1>2. mark' \in [Objects -> Marks]
  BY DEF AddToList, TypeOK, Marks
<1>3. pc' \subseteq Objects
  BY DEF AddToList, TypeOK
<1>4. pcSize' \in Int
  BY DEF AddToList, TypeOK
<1> QED BY <1>1, <1>2, <1>3, <1>4

-----------------------------------------------------------------------------
(* The operations of the program. *)
LEMMA UserType ==
    ASSUME TypeOK, UserStep
    PROVE  TypeOK'
<1> USE MaxCountAssumption DEF boxVars, ccVars, pcVars, listVars, flagVars, loopVars, callVars
<1>1. ASSUME NEW c \in Ccs, NEW o \in Objects, New(c, o)
      PROVE  TypeOK'
  BY <1>1 DEF New, TypeOK, Marks
<1>2. ASSUME NEW d \in Ccs, NEW o, NewPointer(d, o), o \in Objects \cup {"none"}
      PROVE  TypeOK'
  <2>1. counter' \in [Objects -> 0..MaxCount]
    <3>1. /\ counter \in [Objects -> 0..MaxCount] /\ counter[o] < MaxCount
          /\ counter' = [counter EXCEPT ![o] = counter[o] + 1]
      BY <1>2 DEF NewPointer, CanIncrement, TypeOK
    <3>2. o \in Objects => counter[o] + 1 \in 0..MaxCount
      BY <3>1
    <3> QED BY <3>1, <3>2
  <2>2. mark' \in [Objects -> Marks] /\ pc' \subseteq Objects /\ pcSize' \in Int
    BY <1>2, RemoveType DEF NewPointer
  <2>3. /\ owner' \in [Ccs -> Objects \cup {"program", "limbo", "nowhere"}]
        /\ target' \in [Ccs -> Objects \cup {"none"}]
    BY <1>2 DEF NewPointer, TypeOK
  <2> QED BY <1>2, <2>1, <2>2, <2>3 DEF NewPointer, TypeOK
<1>3. ASSUME NEW c \in Ccs, NEW o \in Objects, Upgrade(o, c)
      PROVE  TypeOK'
  BY <1>2, <1>3 DEF Upgrade
<1>4. ASSUME NEW c \in Ccs, NEW o \in Objects, Store(c, o)
      PROVE  TypeOK'
  BY <1>4 DEF Store, TypeOK
<1>5. ASSUME NEW c \in Ccs, NEW d \in Ccs, Clone(c, d)
      PROVE  TypeOK'
  BY <1>2, <1>5 DEF Clone, TypeOK
<1>6. ASSUME NEW c \in Ccs, MarkAlive(c)
      PROVE  TypeOK'
  BY <1>6, RemoveType DEF MarkAlive, TypeOK
<1>7. ASSUME NEW c \in Ccs, Take(c)
      PROVE  TypeOK'
  BY <1>7 DEF Take, TypeOK
<1>8. ASSUME NEW c \in Ccs, TryUnwrap(c)
      PROVE  TypeOK'
  <2>1. owner' \in [Ccs -> Objects \cup {"program", "limbo", "nowhere"}]
    BY <1>8 DEF TryUnwrap, TypeOK
  <2>2. target' \in [Ccs -> Objects \cup {"none"}]
    BY <1>8 DEF TryUnwrap, TypeOK
  <2>3. mark' \in [Objects -> Marks] /\ pc' \subseteq Objects /\ pcSize' \in Int
    BY <1>8, RemoveType DEF TryUnwrap
  <2>4. Dealloc({target[c]})
    BY <1>8 DEF TryUnwrap
  <2> QED BY <1>8, <2>1, <2>2, <2>3, <2>4, DeallocType DEF TryUnwrap, TypeOK
<1>9. ASSUME NEW c \in Ccs, FinalizeAgain(c)
      PROVE  TypeOK'
  BY <1>9 DEF FinalizeAgain, TypeOK
<1>10. ASSUME CollectCycles
       PROVE  TypeOK'
  <2>1. stack' \in Seq(Frames)
    BY <1>10, FrameType, PushType DEF CollectCycles, Push, TypeOK, FrameOps
  <2> QED BY <1>10, <2>1, MaxRoundsAssumption DEF CollectCycles, TypeOK
<1>11. ASSUME UserPanic \/ TracePanic \/ Catch
       PROVE  TypeOK'
  BY <1>11 DEF UserPanic, TracePanic, Catch, TypeOK
<1>12. ASSUME NEW o \in Objects, BorrowCell(o)
       PROVE  TypeOK'
  BY <1>12 DEF BorrowCell, TypeOK
<1> QED
  BY <1>1, <1>3, <1>4, <1>5, <1>6, <1>7, <1>8, <1>9, <1>10, <1>11, <1>12 DEF UserStep

-----------------------------------------------------------------------------
(* Cc::drop. *)
LEMMA TargetType ==
    ASSUME TypeOK, PlacesOK
    PROVE  /\ \A c \in Ccs : Droppable(c) => target[c] \in Objects
           /\ TopOp = "finalizeCc" => Top.cc \in Ccs /\ target[Top.cc] = Top.obj /\ Top.obj \in Objects
           /\ TopOp \notin {"main", "collect"} => Top.obj \in Objects
<1>1. TopOp # "main" => Len(stack) \in 1..Len(stack) /\ TopOp = stack[Len(stack)].op
  BY TopType DEF TypeOK, Top
<1>2. TopOp \notin {"main", "collect"} => Top.obj \in Objects
  BY <1>1 DEF PlacesOK, Top
<1>3. TopOp = "finalizeCc" => Top.cc \in Ccs /\ target[Top.cc] = Top.obj /\ Top.obj \in Objects
  BY <1>1 DEF PlacesOK, Top
<1>4. \A c \in Ccs : Droppable(c) => owner[c] # "nowhere"
  BY <1>2, PlacesAssumption DEF Droppable
<1>5. \A c \in Ccs : owner[c] # "nowhere" => target[c] \in Objects
  BY DEF PlacesOK, TypeOK
<1> QED BY <1>2, <1>3, <1>4, <1>5

(* handle_possible_cycle and the start of drop glue are reached from         *)
(* Cc::drop directly and after its finalizer returned.                       *)
LEMMA HandlePossibleCycleType ==
    ASSUME TypeOK, NEW c \in Ccs, target[c] \in Objects, HandlePossibleCycle(c)
    PROVE  /\ counter' \in [Objects -> 0..MaxCount]
           /\ owner' \in [Ccs -> Objects \cup {"program", "limbo", "nowhere"}]
           /\ target' \in [Ccs -> Objects \cup {"none"}] /\ borrowed' \subseteq Objects
           /\ tracing' \in [Objects -> Nat] /\ mark' \in [Objects -> Marks]
           /\ pc' \subseteq Objects /\ pcSize' \in Int
<1>1. AddToList(target[c]) /\ Discard(c)
  BY DEF HandlePossibleCycle
<1>2. counter' \in [Objects -> 0..MaxCount]
  BY CounterType DEF HandlePossibleCycle, TypeOK
<1>3. /\ owner' \in [Ccs -> Objects \cup {"program", "limbo", "nowhere"}]
      /\ target' \in [Ccs -> Objects \cup {"none"}] /\ borrowed' \subseteq Objects
  BY <1>1 DEF Discard, TypeOK
<1> QED BY <1>1, <1>2, <1>3, AddType

LEMMA DropValueType ==
    ASSUME TypeOK, NEW c \in Ccs, target[c] \in Objects,
           NEW s \in Seq(Frames), DropValue(c, s), finalizing' \in BOOLEAN,
           finalized' = finalized
    PROVE  TypeOK'
<1> USE MaxCountAssumption DEF boxVars, ccVars, pcVars, listVars, flagVars, loopVars, callVars
<1> DEFINE o == target[c]
<1>1. stack' \in Seq(Frames)
  BY FrameType, PushType DEF DropValue, TypeOK, FrameOps
<1>2. counter' \in [Objects -> 0..MaxCount]
  BY CounterType DEF DropValue, TypeOK
<1>3. mark' \in [Objects -> Marks] /\ pc' \subseteq Objects /\ pcSize' \in Int
  BY RemoveType DEF DropValue
<1> QED BY <1>1, <1>2, <1>3 DEF DropValue, Discard, TypeOK, DroppedTc

LEMMA DropType ==
    ASSUME TypeOK, PlacesOK, NEW c \in Ccs, CcDrop(c)
    PROVE  TypeOK'
<1> USE MaxCountAssumption DEF boxVars, ccVars, pcVars, listVars, flagVars, loopVars, callVars
<1> DEFINE o == target[c]
<1>0. o \in Objects
  BY TargetType DEF CcDrop, DropListed, DropShared, DropFinalize, DropLast
<1>1. CASE DropListed(c)
  BY <1>1, CounterType DEF DropListed, Discard, TypeOK
<1>2. CASE DropShared(c)
  BY <1>0, <1>2, HandlePossibleCycleType DEF DropShared, TypeOK
<1>3. CASE DropFinalize(c)
  <2>1. stack' \in Seq(Frames)
    BY <1>0, <1>3, FrameType, PushType DEF DropFinalize, Push, TypeOK, FrameOps
  <2> QED BY <1>0, <1>3, <2>1 DEF DropFinalize, TypeOK
<1>4. CASE DropLast(c)
  BY <1>0, <1>4, DropValueType DEF DropLast, DropValue, TypeOK
<1> QED BY <1>1, <1>2, <1>3, <1>4 DEF CcDrop

LEMMA ReturnType ==
    ASSUME TypeOK, PlacesOK, UserReturn
    PROVE  TypeOK'
<1> USE DEF boxVars, ccVars, pcVars, listVars, flagVars, loopVars, callVars
<1>1. CASE EndFinalizeList
  BY <1>1, TopType DEF EndFinalizeList, TypeOK
<1>2. CASE EndFinalizeCc
  <2>1. /\ Popped \in Seq(Frames) /\ Top \in Frames
        /\ Top.cc \in Ccs /\ target[Top.cc] \in Objects
    BY <1>2, TopType, TargetType DEF EndFinalizeCc
  <2>2. finalizing' \in BOOLEAN
    BY <1>2, <2>1 DEF EndFinalizeCc, Frames
  <2>3. CASE counter[Top.obj] # 1
    BY <1>2, <2>1, <2>2, <2>3, HandlePossibleCycleType DEF EndFinalizeCc, TypeOK
  <2>4. CASE counter[Top.obj] = 1
    BY <1>2, <2>1, <2>2, <2>4, DropValueType DEF EndFinalizeCc, DropValue
  <2> QED BY <2>3, <2>4
<1> QED BY <1>1, <1>2 DEF UserReturn

LEMMA EndDropType ==
    ASSUME TypeOK, EndDropCc \/ EndDropInner
    PROVE  TypeOK'
<1> USE DEF boxVars, ccVars, pcVars, listVars, flagVars, loopVars, callVars
<1>1. Popped \in Seq(Frames) /\ Top \in Frames
  BY TopType DEF EndDropCc, EndDropInner
<1>2. CASE EndDropInner
  BY <1>1, <1>2 DEF EndDropInner, TypeOK, Frames
<1>3. CASE EndDropCc
  <2>1. dropping' \in BOOLEAN /\ panicking' \in BOOLEAN
    BY <1>1, <1>3 DEF EndDropCc, RestoreDropping, Frames
  <2>2. /\ status' \in [Objects -> {"free", "live", "dropped"}]
        /\ counter' \in [Objects -> 0..MaxCount]
        /\ tracing' \in [Objects -> Nat]
        /\ finalized' \in [Objects -> BOOLEAN]
    BY <1>3, DeallocType DEF EndDropCc, TypeOK
  <2> QED BY <1>1, <1>3, <2>1, <2>2 DEF EndDropCc, TypeOK
<1> QED BY <1>2, <1>3

-----------------------------------------------------------------------------
(* The collector. *)
LEMMA CollectorType ==
    ASSUME TypeOK, PlacesOK, CollectorStep
    PROVE  TypeOK'
<1> USE MaxRoundsAssumption
    DEF boxVars, ccVars, pcVars, listVars, flagVars, loopVars, callVars
<1>0. /\ \A p : Collector(p) => Top \in Frames /\ Popped \in Seq(Frames) /\ stack # <<>>
      /\ \A p, b : Collector(p) /\ b \in BOOLEAN =>
            WithTop([Top EXCEPT !.saved = b]) \in Seq(Frames)
  BY TopType DEF Collector
<1>1. ASSUME NextRound PROVE TypeOK'
  BY <1>1 DEF NextRound, TypeOK
<1>2. ASSUME EndCollect PROVE TypeOK'
  <2>1. stack' \in Seq(Frames)
    BY <1>0, <1>2 DEF EndCollect
  <2>2. /\ collecting' = FALSE /\ phase' = "idle" /\ round' = 0
        /\ UNCHANGED <<boxVars, ccVars, pcVars, listVars, finalizing, dropping, panicking>>
        /\ UNCHANGED <<current, todo, work, listSize, hasFinalized>>
    BY <1>2 DEF EndCollect
  <2>3. round' \in 0..MaxRounds
    BY <2>2
  <2> QED BY <2>1, <2>2, <2>3 DEF TypeOK
<1>3. ASSUME NEW o \in Objects, StartCounting(o) PROVE TypeOK'
  <2>1. pc' \subseteq Objects /\ pcSize' \in Int /\ queue' \subseteq Objects
    <3>1. \/ pc' = pc \ {o} /\ pcSize' = pcSize - 1 /\ UNCHANGED queue
          \/ queue' = queue \ {o} /\ UNCHANGED <<pc, pcSize>>
      BY <1>3 DEF StartCounting
    <3> QED BY <3>1 DEF TypeOK
  <2>2. todo' \subseteq Ccs
    BY <1>3 DEF StartCounting, TracedFields, Fields
  <2>3. mark' \in [Objects -> Marks]
    BY <1>3 DEF StartCounting, TypeOK, Marks
  <2> QED BY <1>3, <2>1, <2>2, <2>3 DEF StartCounting, TypeOK
<1>4. ASSUME NEW o \in Objects, StartRoot(o) PROVE TypeOK'
  BY <1>4 DEF StartRoot, TypeOK, TracedFields, Fields, Marks
<1>5. ASSUME NEW o \in Objects, FinalizeInner(o) PROVE TypeOK'
  <2>1. stack' \in Seq(Frames)
    <3>1. stack \in Seq(Frames)
      BY DEF TypeOK
    <3>2. Frame("finalizeList", o, "none", FALSE) \in Frames
      BY FrameType DEF FrameOps
    <3> QED BY <1>5, <3>1, <3>2, PushType DEF FinalizeInner, Push
  <2>2. finalized' \in [Objects -> BOOLEAN] /\ hasFinalized' \in BOOLEAN
    BY <1>5 DEF FinalizeInner, TypeOK
  <2> QED BY <1>5, <2>1, <2>2 DEF FinalizeInner, TypeOK
<1>6. ASSUME NEW o \in Objects, DropInner(o) PROVE TypeOK'
  <2>1. stack' \in Seq(Frames)
    BY <1>6, FrameType, PushType DEF DropInner, Push, TypeOK, FrameOps
  <2>2. DroppedTc \in Nat
    BY MaxCountAssumption DEF DroppedTc
  <2> QED BY <1>6, <2>1, <2>2 DEF DropInner, TypeOK
<1>7. ASSUME NEW c \in Ccs, TraceCounting(c) PROVE TypeOK'
  <2> DEFINE t == target[c]
  <2>0. t \in Objects
    BY <1>7, PlacesAssumption DEF TraceCounting, PlacesOK, TypeOK
  <2>1. Increment(tracing[t]) \in Nat
    BY <2>0, CounterType DEF TypeOK
  <2>2. CASE CountListed(t)
    <3>1. tracing' \in [Objects -> Nat]
      BY <2>1, <2>2 DEF CountListed, TypeOK
    <3>2. \/ rootList' = rootList \ {t} /\ nonRootList' = nonRootList \cup {t}
          \/ UNCHANGED <<rootList, nonRootList>>
      BY <2>2 DEF CountListed
    <3>3. rootList' \subseteq Objects
      BY <3>2 DEF TypeOK
    <3>4. nonRootList' \subseteq Objects
      BY <2>0, <3>2 DEF TypeOK
    <3> QED BY <1>7, <2>2, <3>1, <3>3, <3>4 DEF TraceCounting, CountListed, TypeOK
  <2>3. CASE CountBuffered(t)
    <3>1. tracing' \in [Objects -> Nat]
      BY <2>1, <2>3 DEF CountBuffered, TypeOK
    <3> QED BY <1>7, <2>3, <3>1 DEF TraceCounting, CountBuffered, TypeOK
  <2>4. CASE CountNew(t)
    <3>1. mark' \in [Objects -> Marks]
      BY <2>4 DEF CountNew, TypeOK, Marks
    <3>2. queue' \subseteq Objects /\ tracing' \in [Objects -> Nat]
      BY <2>0, <2>4 DEF CountNew, TypeOK
    <3> QED BY <1>7, <2>4, <3>1, <3>2 DEF TraceCounting, CountNew, TypeOK
  <2> QED BY <1>7, <2>2, <2>3, <2>4 DEF TraceCounting
<1>8. ASSUME NEW c \in Ccs, TraceRoots(c) PROVE TypeOK'
  <2>0. target[c] \in Objects
    BY <1>8, PlacesAssumption DEF TraceRoots, PlacesOK, TypeOK
  <2>1. nonRootList' \subseteq Objects /\ mark' \in [Objects -> Marks]
    BY <1>8 DEF TraceRoots, Requeue, TypeOK, Marks
  <2>2. queue' \subseteq Objects
    BY <1>8, <2>0 DEF TraceRoots, Requeue, TypeOK
  <2> QED BY <1>8, <2>1, <2>2 DEF TraceRoots, TypeOK
<1>9. ASSUME EndCounting PROVE TypeOK'
  <2>1. current \in Objects
    BY <1>9 DEF EndCounting, TypeOK
  <2>2. nonRootList' \subseteq Objects /\ rootList' \subseteq Objects
    BY <1>9, <2>1 DEF EndCounting, TypeOK
  <2> QED BY <1>9, <2>1, <2>2 DEF EndCounting, TypeOK, Marks
<1>10. ASSUME EndTraceCounting \/ EndRoot PROVE TypeOK'
  BY <1>10 DEF EndTraceCounting, EndRoot, TypeOK
<1>11. ASSUME EndTraceRoots PROVE TypeOK'
  <2>1. stack' \in Seq(Frames)
    BY <1>0, <1>11 DEF EndTraceRoots, TypeOK
  <2>2. CASE nonRootList = {}
    BY <1>11, <2>1, <2>2 DEF EndTraceRoots, TypeOK
  <2>3. CASE nonRootList # {}
    <3>1. /\ work' = nonRootList /\ listSize' = 0 /\ hasFinalized' = FALSE
          /\ finalizing' = TRUE /\ phase' = "finalizing"
      BY <1>11, <2>3 DEF EndTraceRoots
    <3> QED BY <1>11, <2>1, <3>1 DEF EndTraceRoots, TypeOK
  <2> QED BY <2>2, <2>3
<1>12. ASSUME EndFinalizing PROVE TypeOK'
  <2>1. stack' \in Seq(Frames)
    BY <1>0, <1>12 DEF EndFinalizing, TypeOK
  <2>2. finalizing' \in BOOLEAN
    BY <1>0, <1>12 DEF EndFinalizing, Frames
  <2>3. CASE hasFinalized
    <3>1. SwapAndAppend
      BY <1>12, <2>3 DEF EndFinalizing
    <3>2. tracing' \in [Objects -> Nat]
      BY <3>1 DEF SwapAndAppend, TypeOK
    <3>3. mark' \in [Objects -> Marks]
      BY <3>1 DEF SwapAndAppend, TypeOK, Marks
    <3>4. pc' \subseteq Objects /\ pcSize' \in Int /\ nonRootList' \subseteq Objects
      BY <3>1 DEF SwapAndAppend, TypeOK
    <3> QED BY <1>12, <2>1, <2>2, <2>3, <3>2, <3>3, <3>4 DEF EndFinalizing, TypeOK
  <2>4. CASE ~hasFinalized
    BY <1>12, <2>1, <2>2, <2>4 DEF EndFinalizing, TypeOK
  <2> QED BY <2>3, <2>4
<1>13. ASSUME DeallocateList PROVE TypeOK'
  <2>1. Dealloc(nonRootList)
    BY <1>13 DEF DeallocateList
  <2>2. mark' \in [Objects -> Marks]
    BY <1>13 DEF DeallocateList, TypeOK, Marks
  <2>3. dropping' \in BOOLEAN
    BY <1>0, <1>13 DEF DeallocateList, RestoreDropping, Frames
  <2> QED BY <1>13, <2>1, <2>2, <2>3, DeallocType DEF DeallocateList, TypeOK
<1> QED
  BY <1>1, <1>2, <1>3, <1>4, <1>5, <1>6, <1>7, <1>8, <1>9, <1>10, <1>11, <1>12, <1>13
  DEF CollectorStep

-----------------------------------------------------------------------------
(* Unwinding. *)
LEMMA UnwindType ==
    ASSUME TypeOK, UnwindStep
    PROVE  TypeOK'
<1> USE MaxRoundsAssumption
    DEF boxVars, ccVars, pcVars, listVars, flagVars, loopVars, callVars
<1>1. ASSUME UnwindFinalizer PROVE TypeOK'
  <2>1. Popped \in Seq(Frames) /\ Top \in Frames
    BY <1>1, TopType DEF UnwindFinalizer
  <2>2. finalizing' \in BOOLEAN
    BY <1>1, <2>1 DEF UnwindFinalizer, Frames, TypeOK
  <2> QED BY <1>1, <2>1, <2>2 DEF UnwindFinalizer, TypeOK
<1>2. ASSUME UnwindDropGlue PROVE TypeOK'
  BY <1>2, TopType DEF UnwindDropGlue, TypeOK
<1>3. ASSUME UnwindCollect PROVE TypeOK'
  <2>1. Popped \in Seq(Frames) /\ Top \in Frames
    BY <1>3, TopType DEF UnwindCollect
  <2>2. finalizing' \in BOOLEAN /\ dropping' \in BOOLEAN
    BY <1>3, <2>1 DEF UnwindCollect, Frames, TypeOK
  <2>3. mark' \in [Objects -> Marks]
    BY <1>3 DEF UnwindCollect, TypeOK, Marks
  <2>4. DroppedTc \in Nat
    BY MaxCountAssumption DEF DroppedTc
  <2>5. tracing' \in [Objects -> Nat]
    BY <1>3, <2>4 DEF UnwindCollect, TypeOK
  <2>6. /\ rootList' = {} /\ nonRootList' = {} /\ queue' = {} /\ collecting' = FALSE
        /\ phase' = "idle" /\ round' = 0 /\ current' = "none" /\ todo' = {} /\ work' = {}
        /\ listSize' = 0 /\ hasFinalized' = FALSE /\ stack' = Popped
        /\ UNCHANGED <<status, counter, finalized, owner, target, borrowed, pc, pcSize, panicking>>
    BY <1>3 DEF UnwindCollect
  <2>7. round' \in 0..MaxRounds
    BY <2>6
  <2> QED BY <2>1, <2>2, <2>3, <2>5, <2>6, <2>7 DEF TypeOK
<1> QED BY <1>1, <1>2, <1>3 DEF UnwindStep

-----------------------------------------------------------------------------
(* The initial states and all steps. *)
LEMMA InitType == Init => TypeOK
<1> SUFFICES ASSUME Init PROVE TypeOK
  OBVIOUS
<1>1. /\ status \in [Objects -> {"free", "live", "dropped"}]
      /\ counter \in [Objects -> 0..MaxCount] /\ tracing \in [Objects -> Nat]
      /\ mark \in [Objects -> Marks] /\ finalized \in [Objects -> BOOLEAN]
  BY MaxCountAssumption DEF Init, Marks
<1>2. /\ owner \in [Ccs -> Objects \cup {"program", "limbo", "nowhere"}]
      /\ target \in [Ccs -> Objects \cup {"none"}] /\ borrowed \subseteq Objects
  BY DEF Init
<1>3. stack \in Seq(Frames)
  BY DEF Init
<1>4. round \in 0..MaxRounds
  BY MaxRoundsAssumption DEF Init
<1>5. /\ pc \subseteq Objects /\ pcSize \in Int
      /\ rootList \subseteq Objects /\ nonRootList \subseteq Objects /\ queue \subseteq Objects
      /\ todo \subseteq Ccs /\ work \subseteq Objects /\ listSize \in Nat
  BY DEF Init
<1>6. /\ collecting = FALSE /\ finalizing = FALSE /\ dropping = FALSE
      /\ phase = "idle" /\ current = "none" /\ hasFinalized = FALSE /\ panicking = FALSE
  BY DEF Init
<1> QED BY <1>1, <1>2, <1>3, <1>4, <1>5, <1>6 DEF TypeOK

LEMMA NextType ==
    ASSUME TypeOK, PlacesOK, [Next]_vars
    PROVE  TypeOK'
<1>1. CASE UNCHANGED vars
  BY <1>1 DEF vars, boxVars, ccVars, pcVars, listVars, flagVars, loopVars, callVars, TypeOK
<1>2. CASE Next
  BY <1>2, UserType, DropType, ReturnType, CollectorType, EndDropType, UnwindType DEF Next
<1> QED BY <1>1, <1>2

-----------------------------------------------------------------------------
(* What pushing, popping and replacing a frame leave in place. *)
LEMMA PushIndex ==
    ASSUME NEW s \in Seq(Frames), NEW f
    PROVE  /\ Len(Append(s, f)) = Len(s) + 1 /\ Append(s, f)[Len(s) + 1] = f
           /\ \A i \in 1..Len(s) : Append(s, f)[i] = s[i]
OBVIOUS

LEMMA PopIndex ==
    ASSUME TypeOK, TopOp # "main"
    PROVE  /\ Popped \in Seq(Frames)
           /\ Len(stack) \in Nat /\ Len(stack) >= 1 /\ Len(Popped) = Len(stack) - 1
           /\ \A i \in 1..(Len(stack) - 1) : Popped[i] = stack[i]
           /\ Top = stack[Len(stack)] /\ TopOp = stack[Len(stack)].op
<1>1. stack # <<>> /\ stack \in Seq(Frames) /\ Popped \in Seq(Frames) /\ TopOp = Top.op
  BY TopType DEF TypeOK
<1>2. Len(stack) \in Nat /\ Len(stack) >= 1
  BY <1>1
<1>3. /\ Len(SubSeq(stack, 1, Len(stack) - 1)) = Len(stack) - 1
      /\ \A i \in 1..(Len(stack) - 1) : SubSeq(stack, 1, Len(stack) - 1)[i] = stack[i]
  <2>1. \A i \in 1..(Len(stack) - 1) : stack[i] \in Frames
    BY <1>1, <1>2
  <2> DEFINE n == Len(stack) - 1
  <2>2. 1 \in Int /\ n \in Int /\ \A i \in 1..n : stack[i] \in Frames
    BY <1>2, <2>1
  <2>3. /\ Len(SubSeq(stack, 1, n)) = IF 1 <= n THEN n - 1 + 1 ELSE 0
        /\ \A i \in 1..(n - 1 + 1) : SubSeq(stack, 1, n)[i] = stack[1 + i - 1]
    <3> HIDE DEF n
    <3> QED BY <2>2, SubSeqProperties
  <2>4. n >= 0 /\ n \in Int
    BY <1>2
  <2> HIDE DEF n
  <2>5. (IF 1 <= n THEN n - 1 + 1 ELSE 0) = n /\ n - 1 + 1 = n
    BY <2>4
  <2>6. ASSUME NEW i \in 1..n PROVE SubSeq(stack, 1, n)[i] = stack[i]
    <3>1. i \in Int /\ 1 + i - 1 = i
      BY <2>4
    <3> QED BY <2>3, <2>5, <3>1
  <2> QED BY <2>3, <2>5, <2>6 DEF n
<1> QED BY <1>1, <1>2, <1>3 DEF Popped, Top

LEMMA ReplaceIndex ==
    ASSUME TypeOK, TopOp # "main", NEW f
    PROVE  /\ Len(WithTop(f)) = Len(stack) /\ WithTop(f)[Len(stack)] = f
           /\ \A i \in 1..(Len(stack) - 1) : WithTop(f)[i] = stack[i]
BY TopType DEF TypeOK, WithTop

LEMMA NoTodo ==
    ASSUME CollectFrames, TopOp # "collect"
    PROVE  todo = {}
BY DEF CollectFrames

-----------------------------------------------------------------------------
(* Where the pointers are. *)

(* No pointer moves. *)
LEMMA PlacesStay ==
    ASSUME TypeOK, PlacesOK, UNCHANGED <<owner, target>>, todo' = {} \/ UNCHANGED <<todo, current>>,
           \/ stack' = stack
           \/ TopOp # "main" /\ stack' = Popped
           \/ TopOp # "main" /\ \E b \in BOOLEAN :
                \/ stack' = WithTop([Top EXCEPT !.saved = b])
                \/ stack' = WithTop([Top EXCEPT !.unwinding = b])
           \/ \E op \in {"finalizeList", "dropList"}, o \in Objects, b \in BOOLEAN :
                stack' = Append(stack, Frame(op, o, "none", b))
           \/ stack' = Append(stack, Frame("collect", "none", "none", FALSE))
    PROVE  PlacesOK'
<1>0. stack \in Seq(Frames) /\ Len(stack) \in Nat
  BY DEF TypeOK
<1>1. CASE stack' = stack
  BY <1>1 DEF PlacesOK
<1>2. CASE TopOp # "main" /\ stack' = Popped
  BY <1>0, <1>2, PopIndex DEF PlacesOK
<1>3. ASSUME TopOp # "main", NEW b \in BOOLEAN, NEW f \in Frames, stack' = WithTop(f),
             f.op = Top.op /\ f.obj = Top.obj /\ f.cc = Top.cc
      PROVE  PlacesOK'
  <2>1. Len(stack') = Len(stack) /\ Len(stack) \in Nat
    BY <1>0, <1>3, ReplaceIndex
  <2>2. \A i \in 1..Len(stack) :
          stack'[i].op = stack[i].op /\ stack'[i].obj = stack[i].obj /\ stack'[i].cc = stack[i].cc
    <3> TAKE i \in 1..Len(stack)
    <3>1. CASE i = Len(stack)
      BY <1>3, <3>1, PopIndex, ReplaceIndex
    <3>2. CASE i # Len(stack)
      <4>1. i \in 1..(Len(stack) - 1)
        BY <2>1, <3>2
      <4> QED BY <1>3, <4>1, ReplaceIndex
    <3> QED BY <3>1, <3>2
  <2> QED BY <2>1, <2>2 DEF PlacesOK
<1>4. ASSUME TopOp # "main", NEW b \in BOOLEAN
      PROVE  /\ [Top EXCEPT !.saved = b] \in Frames
             /\ [Top EXCEPT !.unwinding = b] \in Frames
  BY <1>4, TopType DEF Frames
<1>5. ASSUME TopOp # "main", NEW b \in BOOLEAN
      PROVE  LET f == [Top EXCEPT !.saved = b]
                 g == [Top EXCEPT !.unwinding = b]
             IN  /\ f.op = Top.op /\ f.obj = Top.obj /\ f.cc = Top.cc
                 /\ g.op = Top.op /\ g.obj = Top.obj /\ g.cc = Top.cc
  BY <1>5, TopType DEF Frames
<1>6. ASSUME NEW op \in {"collect", "finalizeList", "dropList"}, NEW o, NEW b,
             op # "collect" => o \in Objects,
             stack' = Append(stack, Frame(op, o, "none", b))
      PROVE  PlacesOK'
  <2>1. Frame(op, o, "none", b).op = op /\ Frame(op, o, "none", b).obj = o
    BY DEF Frame
  <2> QED BY <1>0, <1>6, <2>1, PushIndex DEF PlacesOK
<1> QED BY <1>1, <1>2, <1>3, <1>4, <1>5, <1>6

(* A pointer that is not in a call of Cc::drop comes into existence, moves   *)
(* or ends.                                                                  *)
LEMMA PlacesMove ==
    ASSUME TypeOK, PlacesOK, NEW c \in Ccs, NEW v, NEW t,
           owner[c] # "limbo", v = "nowhere" <=> t = "none",
           owner' = [owner EXCEPT ![c] = v], target' = [target EXCEPT ![c] = t],
           todo = {}, todo' = {}, stack' = stack
    PROVE  PlacesOK'
BY DEF PlacesOK, TypeOK

LEMMA PlacesInit == Init => PlacesOK
BY DEF Init, PlacesOK

(* Whoever holds or moves a pointer, it is not one in a call of Cc::drop. *)
LEMMA HeldPlaces ==
    ASSUME TypeOK, PlacesOK
    PROVE  /\ \A c \in Ccs : Droppable(c) => owner[c] # "limbo"
           /\ \A c \in Ccs : Usable(c) => target[c] \in Objects
           /\ \A c \in Ccs : owner[c] \in Accessible({}) => owner[c] \notin {"limbo", "nowhere"}
           /\ Accessible({}) \subseteq Objects
<1>1. \A S : Reachable(S) \subseteq Objects
  BY DEF Reachable
<1>2. Accessible({}) \subseteq Objects
  BY <1>1 DEF Accessible
<1>3. \A c \in Ccs : owner[c] \in Accessible({}) => owner[c] \notin {"limbo", "nowhere"}
  BY <1>2, PlacesAssumption
<1>4. \A c \in Ccs : Usable(c) => target[c] \in Objects
  BY <1>3 DEF Usable, PlacesOK, TypeOK
<1>5. \A c \in Ccs : Droppable(c) => owner[c] # "limbo"
  BY TargetType, PlacesAssumption DEF Droppable
<1> QED BY <1>2, <1>3, <1>4, <1>5

LEMMA UserPlaces ==
    ASSUME TypeOK, PlacesOK, CollectFrames, UserStep
    PROVE  PlacesOK'
<1> USE DEF boxVars, ccVars, pcVars, listVars, flagVars, loopVars, callVars
<1>0. UserRunning => todo = {}
  BY NoTodo DEF UserRunning
<1>1. ASSUME NEW c \in Ccs, NEW o \in Objects, New(c, o)
      PROVE  PlacesOK'
  BY <1>0, <1>1, PlacesMove, PlacesAssumption DEF New
<1>2. ASSUME NEW d \in Ccs, NEW o \in Objects, UserRunning, NewPointer(d, o)
      PROVE  PlacesOK'
  BY <1>0, <1>2, PlacesMove, PlacesAssumption DEF NewPointer
<1>3. ASSUME NEW c \in Ccs, NEW o \in Objects, Upgrade(o, c)
      PROVE  PlacesOK'
  BY <1>2, <1>3 DEF Upgrade
<1>4. ASSUME NEW c \in Ccs, NEW d \in Ccs, Clone(c, d)
      PROVE  PlacesOK'
  BY <1>2, <1>4, HeldPlaces DEF Clone
<1>5. ASSUME NEW c \in Ccs, NEW o \in Objects, Store(c, o)
      PROVE  PlacesOK'
  <2>1. owner' = [owner EXCEPT ![c] = o] /\ target' = [target EXCEPT ![c] = target[c]]
    BY <1>5 DEF Store, TypeOK
  <2>2. target[c] # "none" /\ o # "nowhere" /\ owner[c] # "limbo"
    BY <1>5, PlacesAssumption DEF Store, PlacesOK
  <2> QED BY <1>0, <1>5, <2>1, <2>2, PlacesMove DEF Store
<1>6. ASSUME NEW c \in Ccs, Take(c)
      PROVE  PlacesOK'
  <2>1. owner' = [owner EXCEPT ![c] = "program"] /\ target' = [target EXCEPT ![c] = target[c]]
    BY <1>6 DEF Take, TypeOK
  <2>2. target[c] # "none" /\ owner[c] # "limbo"
    BY <1>6, HeldPlaces DEF Take, PlacesOK
  <2> QED BY <1>0, <1>6, <2>1, <2>2, PlacesMove DEF Take
<1>7. ASSUME NEW c \in Ccs, TryUnwrap(c)
      PROVE  PlacesOK'
  <2>1. target[c] \in Objects
    BY <1>7, HeldPlaces DEF TryUnwrap, Usable
  <2>2. \A d \in Ccs : owner'[d] = IF d = c THEN "nowhere"
                                    ELSE IF owner[d] = target[c] THEN "program" ELSE owner[d]
    BY <1>7 DEF TryUnwrap
  <2>3. \A d \in Ccs : target'[d] = IF d = c THEN "none" ELSE target[d]
    BY <1>7 DEF TryUnwrap, TypeOK
  <2>4. stack' = stack /\ todo' = {} /\ todo = {} /\ owner[c] = "program"
    BY <1>0, <1>7 DEF TryUnwrap
  <2> QED BY <2>1, <2>2, <2>3, <2>4, PlacesAssumption DEF PlacesOK
<1>8. ASSUME NEW c \in Ccs, MarkAlive(c) \/ FinalizeAgain(c)
      PROVE  PlacesOK'
  BY <1>8, PlacesStay DEF MarkAlive, FinalizeAgain
<1>9. ASSUME CollectCycles
      PROVE  PlacesOK'
  BY <1>9, PlacesStay DEF CollectCycles, Push
<1>10. ASSUME UserPanic \/ TracePanic \/ Catch
       PROVE  PlacesOK'
  BY <1>10, PlacesStay DEF UserPanic, TracePanic, Catch
<1>11. ASSUME NEW o \in Objects, BorrowCell(o)
       PROVE  PlacesOK'
  BY <1>11, PlacesStay DEF BorrowCell
<1> QED
  BY <1>1, <1>3, <1>4, <1>5, <1>6, <1>7, <1>8, <1>9, <1>10, <1>11 DEF UserStep

LEMMA DropPlaces ==
    ASSUME TypeOK, PlacesOK, CollectFrames, NEW c \in Ccs, CcDrop(c)
    PROVE  PlacesOK'
<1> USE DEF boxVars, ccVars, pcVars, listVars, flagVars, loopVars, callVars
<1>1. Droppable(c)
  BY DEF CcDrop, DropListed, DropShared, DropFinalize, DropLast
<1>2. /\ owner[c] # "limbo" /\ target[c] \in Objects /\ target[c] # "none"
      /\ todo = {} /\ stack \in Seq(Frames) /\ Len(stack) \in Nat
  BY <1>1, HeldPlaces, TargetType, NoTodo, PlacesAssumption
  DEF Droppable, UserRunning, TypeOK
<1>3. CASE DropListed(c) \/ DropShared(c)
  <2>1. Discard(c) /\ stack' = stack /\ todo' = {}
    BY <1>2, <1>3 DEF DropListed, DropShared, HandlePossibleCycle
  <2> QED BY <1>2, <2>1, PlacesMove DEF Discard
<1>4. CASE DropFinalize(c)
  <2> DEFINE f == Frame("finalizeCc", target[c], c, finalizing)
  <2>1. /\ stack' = Append(stack, f) /\ todo' = {}
        /\ \A d \in Ccs : owner'[d] = IF d = c THEN "limbo" ELSE owner[d]
        /\ target' = target
    BY <1>2, <1>4 DEF DropFinalize, Push, TypeOK
  <2>2. f.op = "finalizeCc" /\ f.obj = target[c] /\ f.cc = c
    BY DEF Frame
  <2> HIDE DEF f
  <2>3. /\ Len(stack') = Len(stack) + 1 /\ stack'[Len(stack) + 1] = f
        /\ \A i \in 1..Len(stack) : stack'[i] = stack[i]
    BY <1>2, <2>1, PushIndex
  <2>4. \A i \in 1..Len(stack) : stack[i].op = "finalizeCc" => stack[i].cc \in Ccs /\ stack[i].cc # c
    BY <1>2 DEF PlacesOK
  <2>5. ASSUME NEW i \in 1..Len(stack')
        PROVE  /\ stack'[i].op # "collect" => stack'[i].obj \in Objects
               /\ stack'[i].op = "finalizeCc" =>
                    /\ stack'[i].cc \in Ccs
                    /\ owner'[stack'[i].cc] = "limbo" /\ target'[stack'[i].cc] = stack'[i].obj
    BY <1>2, <2>1, <2>2, <2>3, <2>4 DEF PlacesOK
  <2>6. ASSUME NEW i \in 1..Len(stack'), NEW j \in 1..Len(stack'),
               stack'[i].op = "finalizeCc", stack'[j].op = "finalizeCc",
               stack'[i].cc = stack'[j].cc
        PROVE  i = j
    BY <1>2, <2>2, <2>3, <2>4, <2>6 DEF PlacesOK
  <2>7. \A d \in Ccs : owner'[d] = "nowhere" <=> target'[d] = "none"
    BY <1>1, <1>2, <2>1 DEF PlacesOK
  <2> QED BY <2>1, <2>5, <2>6, <2>7 DEF PlacesOK
<1>5. CASE DropLast(c)
  <2> DEFINE f == Frame("dropCc", target[c], "none", dropping)
  <2>1. /\ stack' = Append(stack, f) /\ todo' = {}
        /\ \A d \in Ccs : owner'[d] = IF d = c THEN "nowhere" ELSE owner[d]
        /\ \A d \in Ccs : target'[d] = IF d = c THEN "none" ELSE target[d]
    BY <1>2, <1>5 DEF DropLast, DropValue, Discard, TypeOK
  <2>2. f.op = "dropCc" /\ f.obj = target[c]
    BY DEF Frame
  <2> HIDE DEF f
  <2> QED BY <1>2, <2>1, <2>2, PushIndex DEF PlacesOK
<1> QED BY <1>3, <1>4, <1>5 DEF CcDrop

LEMMA ReturnPlaces ==
    ASSUME TypeOK, PlacesOK, CollectFrames, UserReturn
    PROVE  PlacesOK'
<1> USE DEF boxVars, ccVars, pcVars, listVars, flagVars, loopVars, callVars
<1>1. CASE EndFinalizeList
  BY <1>1, PlacesStay DEF EndFinalizeList
<1>2. CASE EndFinalizeCc
  <2> DEFINE c == Top.cc
             n == Len(stack)
  <2>1. /\ TopOp = "finalizeCc" /\ c \in Ccs /\ target[c] \in Objects
        /\ todo = {} /\ n \in Nat /\ n >= 1 /\ Popped \in Seq(Frames) /\ Len(Popped) = n - 1
        /\ \A i \in 1..(n - 1) : Popped[i] = stack[i]
        /\ stack[n].op = "finalizeCc" /\ stack[n].cc = c
    BY <1>2, PopIndex, TargetType, NoTodo DEF EndFinalizeCc
  <2>2. /\ todo' = {}
        /\ \A d \in Ccs : owner'[d] = IF d = c THEN "nowhere" ELSE owner[d]
        /\ \A d \in Ccs : target'[d] = IF d = c THEN "none" ELSE target[d]
    BY <1>2, <2>1 DEF EndFinalizeCc, HandlePossibleCycle, DropValue, Discard, TypeOK
  <2>3. \A i \in 1..(n - 1) : stack[i].op = "finalizeCc" => stack[i].cc # c
    BY <2>1 DEF PlacesOK
  <2>4. CASE stack' = Popped
    BY <2>1, <2>2, <2>3, <2>4, PlacesAssumption DEF PlacesOK
  <2>5. CASE stack' = Append(Popped, Frame("dropCc", target[c], "none", dropping))
    <3> DEFINE f == Frame("dropCc", target[c], "none", dropping)
    <3>1. f.op = "dropCc" /\ f.obj = target[c]
      BY DEF Frame
    <3>2. /\ Len(stack') = n /\ stack'[n] = f
          /\ \A i \in 1..(n - 1) : stack'[i] = stack[i]
      BY <2>1, <2>5, PushIndex
    <3> HIDE DEF f
    <3>3. \A i \in 1..n : stack'[i].op = "finalizeCc" =>
              i \in 1..(n - 1) /\ stack'[i] = stack[i] /\ stack[i].cc # c
      BY <2>1, <2>3, <3>1, <3>2
    <3>4. \A i \in 1..n : stack'[i].op # "collect" => stack'[i].obj \in Objects
      BY <2>1, <3>1, <3>2 DEF PlacesOK
    <3>5. \A d \in Ccs : owner'[d] = "nowhere" <=> target'[d] = "none"
      BY <2>2 DEF PlacesOK
    <3>6. ASSUME NEW i \in 1..n, stack'[i].op = "finalizeCc"
          PROVE  /\ stack'[i].cc \in Ccs
                 /\ owner'[stack'[i].cc] = "limbo" /\ target'[stack'[i].cc] = stack'[i].obj
      <4>1. i \in 1..n /\ stack'[i] = stack[i] /\ stack[i].op = "finalizeCc" /\ stack[i].cc # c
        BY <3>3, <3>6
      <4>2. /\ stack[i].cc \in Ccs
            /\ owner[stack[i].cc] = "limbo" /\ target[stack[i].cc] = stack[i].obj
        BY <4>1 DEF PlacesOK
      <4> QED BY <2>2, <4>1, <4>2
    <3>7. ASSUME NEW i \in 1..n, NEW j \in 1..n, stack'[i].op = "finalizeCc",
                 stack'[j].op = "finalizeCc", stack'[i].cc = stack'[j].cc
          PROVE  i = j
      <4>1. stack'[i] = stack[i] /\ stack'[j] = stack[j]
        BY <3>3, <3>7
      <4> QED BY <3>7, <4>1 DEF PlacesOK
    <3> QED BY <2>2, <3>2, <3>4, <3>5, <3>6, <3>7 DEF PlacesOK
  <2> QED BY <1>2, <2>4, <2>5 DEF EndFinalizeCc, DropValue
<1> QED BY <1>1, <1>2 DEF UserReturn

LEMMA LibraryPlaces ==
    ASSUME TypeOK, PlacesOK, CollectFrames,
           CollectorStep \/ EndDropCc \/ EndDropInner \/ UnwindStep
    PROVE  PlacesOK'
<1> USE DEF boxVars, ccVars, pcVars, listVars, flagVars, loopVars, callVars
<1>0. \A p : Collector(p) => TopOp # "main" /\ Top.op = "collect"
  BY TopType DEF Collector
<1>1. CASE NextRound \/ EndCollect \/ EndTraceCounting
  BY <1>0, <1>1, PlacesStay DEF NextRound, EndCollect, EndTraceCounting
<1>2. CASE EndCounting \/ EndRoot
  BY <1>2, PlacesStay DEF EndCounting, EndRoot
<1>3. ASSUME NEW o \in Objects, StartCounting(o) \/ StartRoot(o)
      PROVE  PlacesOK'
  <2>1. /\ \A c \in todo' : owner[c] = o
        /\ current' = o /\ UNCHANGED <<ccVars, stack>>
    BY <1>3 DEF StartCounting, StartRoot, TracedFields, Fields
  <2> QED BY <2>1 DEF PlacesOK
<1>4. ASSUME NEW c \in Ccs, TraceCounting(c) \/ TraceRoots(c)
      PROVE  PlacesOK'
  <2>1. todo' \subseteq todo /\ UNCHANGED <<ccVars, stack, current>>
    BY <1>4 DEF TraceCounting, TraceRoots
  <2> QED BY <2>1 DEF PlacesOK
<1>5. ASSUME NEW o \in Objects, FinalizeInner(o) \/ DropInner(o)
      PROVE  PlacesOK'
  BY <1>5, PlacesStay DEF FinalizeInner, DropInner, Push
<1>6. CASE EndTraceRoots \/ EndFinalizing \/ DeallocateList
  BY <1>0, <1>6, PlacesStay DEF EndTraceRoots, EndFinalizing, DeallocateList, TypeOK
<1>7. CASE EndDropCc \/ EndDropInner
  BY <1>7, PlacesStay DEF EndDropCc, EndDropInner
<1>8. CASE UnwindStep
  BY <1>8, PlacesStay DEF UnwindStep, UnwindFinalizer, UnwindDropGlue, UnwindCollect
<1> QED
  BY <1>1, <1>2, <1>3, <1>4, <1>5, <1>6, <1>7, <1>8 DEF CollectorStep

LEMMA NextPlaces ==
    ASSUME TypeOK, PlacesOK, CollectFrames, [Next]_vars
    PROVE  PlacesOK'
<1>1. CASE UNCHANGED vars
  BY <1>1, PlacesStay DEF vars, ccVars, loopVars, callVars
<1>2. CASE Next
  BY <1>2, UserPlaces, DropPlaces, ReturnPlaces, LibraryPlaces DEF Next
<1> QED BY <1>1, <1>2

-----------------------------------------------------------------------------
(* A step changes one end of the stack only: the frames up to m stay, with   *)
(* at most one new or changed frame on top of them, and the phase changes    *)
(* only if the frame of collect() is not among those that stay.              *)
KeepsBelow(m) ==
    /\ m \in Nat /\ m <= Len(stack)
    /\ Len(stack') \in Nat /\ Len(stack') \in {m, m + 1}
    /\ \A i \in 1..m : stack'[i] = stack[i]
    /\ phase' = phase \/ \A i \in 1..m : stack[i].op # "collect"

LEMMA CollectFramesStep ==
    ASSUME CollectFrames, NEW m, KeepsBelow(m), Len(stack) \in Nat,
           Len(stack') = m + 1 =>
                /\ stack'[m + 1].op = "collect" => \A i \in 1..m : stack[i].op # "collect"
                /\ stack'[m + 1].op = "finalizeList" =>
                    phase' = "finalizing" /\ m >= 1 /\ stack[m].op = "collect"
                /\ stack'[m + 1].op = "dropList" =>
                    phase' = "dropping" /\ m >= 1 /\ stack[m].op = "collect",
           phase' = "idle" <=> ~Running("collect")',
           phase' \in {"loop", "counting", "roots"} =>
                Len(stack') >= 1 /\ stack'[Len(stack')].op = "collect",
           todo' # {} => phase' \in {"counting", "roots"}
    PROVE  CollectFrames'
<1>0. m \in Nat /\ m <= Len(stack) /\ \A i \in 1..m : stack'[i] = stack[i]
  BY DEF KeepsBelow
<1>1. \A i, j \in 1..Len(stack') :
        stack'[i].op = "collect" /\ stack'[j].op = "collect" => i = j
  <2>1. ASSUME NEW i \in 1..m, NEW j \in 1..m,
               stack'[i].op = "collect", stack'[j].op = "collect"
        PROVE  i = j
    <3>1. i \in 1..Len(stack) /\ j \in 1..Len(stack) /\ stack'[i] = stack[i] /\ stack'[j] = stack[j]
      BY DEF KeepsBelow
    <3> QED BY <2>1, <3>1 DEF CollectFrames
  <2>2. \A i \in 1..Len(stack') : i \in 1..m \/ (i = m + 1 /\ Len(stack') = m + 1)
    BY DEF KeepsBelow
  <2> QED BY <2>1, <2>2 DEF KeepsBelow
<1>2. ASSUME NEW i \in 1..m
      PROVE  /\ stack'[i].op = "finalizeList" =>
                phase' = "finalizing" /\ i > 1 /\ stack'[i - 1].op = "collect"
             /\ stack'[i].op = "dropList" =>
                phase' = "dropping" /\ i > 1 /\ stack'[i - 1].op = "collect"
  <2>1. i \in 1..Len(stack) /\ stack'[i] = stack[i] /\ m \in Nat
    BY <1>0, <1>2
  <2>2. CASE stack[i].op \in {"finalizeList", "dropList"}
    <3>1. i > 1 /\ stack[i - 1].op = "collect" /\ i - 1 \in 1..m
      BY <2>1, <2>2 DEF CollectFrames
    <3>2. stack'[i - 1] = stack[i - 1] /\ phase' = phase
      BY <3>1 DEF KeepsBelow
    <3> QED BY <2>1, <2>2, <3>1, <3>2 DEF CollectFrames
  <2> QED BY <2>1, <2>2
<1>3. \A i \in 1..Len(stack') :
        /\ stack'[i].op = "finalizeList" =>
            phase' = "finalizing" /\ i > 1 /\ stack'[i - 1].op = "collect"
        /\ stack'[i].op = "dropList" =>
            phase' = "dropping" /\ i > 1 /\ stack'[i - 1].op = "collect"
  <2>1. \A i \in 1..Len(stack') : i \in 1..m \/ (i = m + 1 /\ Len(stack') = m + 1)
    BY DEF KeepsBelow
  <2>2. m >= 1 => stack'[m] = stack[m]
    <3>1. m >= 1 => m \in 1..m
      BY <1>0
    <3> QED BY <1>0, <3>1
  <2>3. (m + 1) - 1 = m /\ (m >= 1 => m + 1 > 1)
    BY <1>0
  <2>4. ASSUME NEW i \in 1..Len(stack'), i = m + 1, Len(stack') = m + 1
        PROVE  /\ stack'[i].op = "finalizeList" =>
                    phase' = "finalizing" /\ i > 1 /\ stack'[i - 1].op = "collect"
               /\ stack'[i].op = "dropList" =>
                    phase' = "dropping" /\ i > 1 /\ stack'[i - 1].op = "collect"
    BY <2>2, <2>3, <2>4
  <2> QED BY <1>2, <2>1, <2>4
<1>4. phase' \in {"loop", "counting", "roots"} => TopOp' = "collect"
  <2>1. Len(stack') >= 1 => stack' # <<>>
    OBVIOUS
  <2> QED BY <2>1 DEF TopOp, Top
<1> QED BY <1>1, <1>3, <1>4 DEF CollectFrames

LEMMA FlagsStep ==
    ASSUME FlagsOK, NEW m, KeepsBelow(m), Len(stack) \in Nat,
           collecting' <=> Running("collect")',
           finalizing' <=>
                \/ FinalizingBelow(stack, phase, m + 1)
                \/ Len(stack') = m + 1 /\ SetsFinalizing(stack'[m + 1], phase'),
           dropping' <=>
                \/ DroppingBelow(stack, phase, m + 1)
                \/ Len(stack') = m + 1 /\ SetsDropping(stack'[m + 1], phase'),
           Len(stack') = m + 1 =>
                /\ SetsFinalizing(stack'[m + 1], phase') =>
                        stack'[m + 1].saved = FinalizingBelow(stack, phase, m + 1)
                /\ SetsDropping(stack'[m + 1], phase') =>
                        stack'[m + 1].saved = DroppingBelow(stack, phase, m + 1)
    PROVE  FlagsOK'
<1>0. m \in Nat /\ m <= Len(stack) /\ Len(stack') \in {m, m + 1}
  BY DEF KeepsBelow
<1>1. \A i \in 1..m : /\ SetsFinalizing(stack'[i], phase') = SetsFinalizing(stack[i], phase)
                     /\ SetsDropping(stack'[i], phase') = SetsDropping(stack[i], phase)
  BY DEF KeepsBelow, SetsFinalizing, SetsDropping
<1>2. \A i \in 1..(m + 1) : /\ FinalizingBelow(stack', phase', i) = FinalizingBelow(stack, phase, i)
                           /\ DroppingBelow(stack', phase', i) = DroppingBelow(stack, phase, i)
  <2>1. \A i \in 1..(m + 1) : \A j \in 1..(i - 1) : j \in 1..m
    BY <1>0
  <2> QED BY <1>1, <2>1 DEF FinalizingBelow, DroppingBelow
<1>3. ASSUME NEW i \in 1..Len(stack')
      PROVE  /\ SetsFinalizing(stack'[i], phase') =>
                    stack'[i].saved = FinalizingBelow(stack', phase', i)
             /\ SetsDropping(stack'[i], phase') =>
                    stack'[i].saved = DroppingBelow(stack', phase', i)
  <2>1. CASE i \in 1..m
    <3>1. i \in 1..Len(stack) /\ i \in 1..(m + 1)
      BY <1>0, <2>1
    <3>2. stack'[i] = stack[i]
      BY <2>1 DEF KeepsBelow
    <3> QED BY <1>1, <1>2, <2>1, <3>1, <3>2 DEF FlagsOK
  <2>2. CASE i \notin 1..m
    <3>1. i = m + 1 /\ Len(stack') = m + 1 /\ m + 1 \in 1..(m + 1)
      BY <1>0, <2>2
    <3> QED BY <1>2, <3>1
  <2> QED BY <2>1, <2>2
<1>4. /\ finalizing' <=> FinalizingBelow(stack', phase', Len(stack') + 1)
      /\ dropping' <=> DroppingBelow(stack', phase', Len(stack') + 1)
  <2>1. CASE Len(stack') = m
    <3>1. m + 1 \in 1..(m + 1) /\ Len(stack') # m + 1
      BY <1>0, <2>1
    <3> QED BY <1>2, <2>1, <3>1
  <2>2. CASE Len(stack') = m + 1
    <3>1. \A j : j \in 1..((m + 2) - 1) <=> j \in 1..((m + 1) - 1) \/ j = m + 1
      BY <1>0
    <3>2. FinalizingBelow(stack', phase', m + 2) <=>
            FinalizingBelow(stack', phase', m + 1) \/ SetsFinalizing(stack'[m + 1], phase')
      BY <3>1 DEF FinalizingBelow
    <3>3. DroppingBelow(stack', phase', m + 2) <=>
            DroppingBelow(stack', phase', m + 1) \/ SetsDropping(stack'[m + 1], phase')
      BY <3>1 DEF DroppingBelow
    <3>4. Len(stack') + 1 = m + 2 /\ m + 1 \in 1..(m + 1)
      BY <1>0, <2>2
    <3>5. FinalizingBelow(stack', phase', m + 1) = FinalizingBelow(stack, phase, m + 1)
      BY <1>2, <3>4
    <3>6. DroppingBelow(stack', phase', m + 1) = DroppingBelow(stack, phase, m + 1)
      BY <1>2, <3>4
    <3> QED BY <2>2, <3>2, <3>3, <3>4, <3>5, <3>6
  <2> QED BY <1>0, <2>1, <2>2
<1> QED BY <1>3, <1>4 DEF FlagsOK

-----------------------------------------------------------------------------
(* The ends of the stack that a step changes. *)
LEMMA StackType ==
    ASSUME TypeOK
    PROVE  stack \in Seq(Frames) /\ Len(stack) \in Nat
BY DEF TypeOK

(* Above the frame of collect() is no other one, and when it is on top the   *)
(* phase matters to no frame below.                                          *)
LEMMA OneCollect ==
    ASSUME TypeOK, CollectFrames
    PROVE  /\ TopOp = "collect" => \A i \in 1..(Len(stack) - 1) : stack[i].op # "collect"
           /\ phase = "idle" => \A i \in 1..Len(stack) : stack[i].op # "collect"
<1>1. ASSUME TopOp = "collect", NEW i \in 1..(Len(stack) - 1), stack[i].op = "collect"
      PROVE  FALSE
  BY <1>1, StackType, PopIndex DEF CollectFrames
<1>2. phase = "idle" => \A i \in 1..Len(stack) : stack[i].op # "collect"
  BY DEF CollectFrames, Running
<1> QED BY <1>1, <1>2

LEMMA KeepsStay ==
    ASSUME TypeOK, UNCHANGED <<stack, phase>>
    PROVE  KeepsBelow(Len(stack)) /\ Len(stack') = Len(stack)
BY StackType DEF KeepsBelow

LEMMA KeepsPush ==
    ASSUME TypeOK, CollectFrames, NEW f, stack' = Append(stack, f),
           phase' = phase \/ phase = "idle"
    PROVE  /\ KeepsBelow(Len(stack)) /\ Len(stack') = Len(stack) + 1
           /\ stack'[Len(stack) + 1] = f
BY StackType, PushIndex, OneCollect DEF KeepsBelow

LEMMA KeepsPop ==
    ASSUME TypeOK, CollectFrames, TopOp # "main", stack' = Popped,
           phase' = phase \/ TopOp = "collect"
    PROVE  KeepsBelow(Len(stack) - 1) /\ Len(stack') = Len(stack) - 1
<1>1. /\ Len(stack) - 1 \in Nat /\ Len(stack) - 1 <= Len(stack) /\ Len(Popped) = Len(stack) - 1
      /\ \A i \in 1..(Len(stack) - 1) : Popped[i] = stack[i]
  BY PopIndex
<1> QED BY <1>1, OneCollect DEF KeepsBelow

LEMMA KeepsReplace ==
    ASSUME TypeOK, CollectFrames, TopOp # "main", phase' = phase \/ TopOp = "collect",
           NEW f, stack' = WithTop(f) \/ stack' = Append(Popped, f) \/ (stack' = stack /\ f = Top)
    PROVE  /\ KeepsBelow(Len(stack) - 1) /\ Len(stack') = (Len(stack) - 1) + 1
           /\ Len(stack') = Len(stack) /\ stack'[(Len(stack) - 1) + 1] = f
<1> DEFINE m == Len(stack) - 1
<1>1. /\ m \in Nat /\ m <= Len(stack) /\ m + 1 = Len(stack)
      /\ Len(Popped) = m /\ Popped \in Seq(Frames)
      /\ \A i \in 1..m : Popped[i] = stack[i]
      /\ Top = stack[m + 1]
  BY PopIndex
<1>2. /\ Len(stack') = m + 1 /\ stack'[m + 1] = f
      /\ \A i \in 1..m : stack'[i] = stack[i]
  <2>1. CASE stack' = WithTop(f)
    BY <1>1, <2>1, ReplaceIndex
  <2>2. CASE stack' = Append(Popped, f)
    <3>1. /\ Len(Append(Popped, f)) = m + 1 /\ Append(Popped, f)[m + 1] = f
          /\ \A i \in 1..m : Append(Popped, f)[i] = Popped[i]
      <4> HIDE DEF m
      <4> QED BY <1>1, PushIndex
    <3> QED BY <1>1, <2>2, <3>1
  <2>3. CASE stack' = stack /\ f = Top
    BY <1>1, <2>3
  <2> QED BY <2>1, <2>2, <2>3
<1>3. phase' = phase \/ \A i \in 1..m : stack[i].op # "collect"
  BY OneCollect
<1> HIDE DEF m
<1>4. KeepsBelow(m)
  BY <1>1, <1>2, <1>3 DEF KeepsBelow
<1> QED BY <1>1, <1>2, <1>4 DEF m

-----------------------------------------------------------------------------
(* What the frame on top tells of the flags, and the frames below it. *)
LEMMA BelowSplit ==
    ASSUME NEW s, NEW p, NEW n \in Nat
    PROVE  /\ FinalizingBelow(s, p, n + 2) <=>
                FinalizingBelow(s, p, n + 1) \/ SetsFinalizing(s[n + 1], p)
           /\ DroppingBelow(s, p, n + 2) <=>
                DroppingBelow(s, p, n + 1) \/ SetsDropping(s[n + 1], p)
<1>1. \A j : j \in 1..((n + 2) - 1) <=> j \in 1..((n + 1) - 1) \/ j = n + 1
  OBVIOUS
<1>2. FinalizingBelow(s, p, n + 2) <=>
                FinalizingBelow(s, p, n + 1) \/ SetsFinalizing(s[n + 1], p)
  BY <1>1 DEF FinalizingBelow
<1>3. DroppingBelow(s, p, n + 2) <=>
                DroppingBelow(s, p, n + 1) \/ SetsDropping(s[n + 1], p)
  BY <1>1 DEF DroppingBelow
<1> QED BY <1>2, <1>3

LEMMA TopFlags ==
    ASSUME TypeOK, FlagsOK, TopOp # "main", NEW m, m = Len(stack) - 1
    PROVE  /\ m \in Nat /\ m + 1 = Len(stack) /\ Top = stack[m + 1] /\ TopOp = stack[m + 1].op
           /\ finalizing <=> FinalizingBelow(stack, phase, m + 1) \/ SetsFinalizing(Top, phase)
           /\ dropping <=> DroppingBelow(stack, phase, m + 1) \/ SetsDropping(Top, phase)
           /\ SetsFinalizing(Top, phase) => Top.saved = FinalizingBelow(stack, phase, m + 1)
           /\ SetsDropping(Top, phase) => Top.saved = DroppingBelow(stack, phase, m + 1)
<1>1. m \in Nat /\ m + 1 = Len(stack) /\ Top = stack[m + 1] /\ TopOp = stack[m + 1].op
  BY PopIndex
<1>2. Len(stack) + 1 = m + 2 /\ m + 1 \in 1..Len(stack)
  BY <1>1
<1>3. /\ finalizing <=> FinalizingBelow(stack, phase, m + 1) \/ SetsFinalizing(Top, phase)
      /\ dropping <=> DroppingBelow(stack, phase, m + 1) \/ SetsDropping(Top, phase)
  BY <1>1, <1>2, BelowSplit DEF FlagsOK
<1> QED BY <1>1, <1>2, <1>3 DEF FlagsOK

LEMMA RunningStep ==
    ASSUME NEW m, KeepsBelow(m)
    PROVE  Running("collect")' <=>
                \/ \E i \in 1..m : stack[i].op = "collect"
                \/ Len(stack') = m + 1 /\ stack'[m + 1].op = "collect"
<1>1. /\ m \in Nat /\ Len(stack') \in {m, m + 1}
      /\ \A i \in 1..m : stack'[i] = stack[i]
  BY DEF KeepsBelow
<1>2. \A i : i \in 1..Len(stack') <=> i \in 1..m \/ (i = m + 1 /\ Len(stack') = m + 1)
  BY <1>1
<1> QED BY <1>1, <1>2 DEF Running

LEMMA RunningTop ==
    ASSUME TypeOK, TopOp # "main", NEW m, m = Len(stack) - 1
    PROVE  Running("collect") <=> TopOp = "collect" \/ \E i \in 1..m : stack[i].op = "collect"
<1>1. m \in Nat /\ m + 1 = Len(stack) /\ TopOp = stack[m + 1].op
  BY PopIndex
<1>2. \A i : i \in 1..Len(stack) <=> i \in 1..m \/ i = m + 1
  BY <1>1
<1> QED BY <1>1, <1>2 DEF Running

-----------------------------------------------------------------------------
(* The steps that leave the stack and the phase alone, or go from one phase  *)
(* of tracing to the next.                                                   *)
LEMMA StackStays ==
    ASSUME CollectFrames, FlagsOK, UNCHANGED <<stack, phase, collecting, finalizing, dropping>>,
           todo' # {} => phase \in {"counting", "roots"}
    PROVE  CollectFrames' /\ FlagsOK'
<1>1. CollectFrames'
  BY DEF CollectFrames, Running, TopOp, Top
<1>2. FlagsOK'
  BY DEF FlagsOK, Running
<1> QED BY <1>1, <1>2

LEMMA PhaseAdvances ==
    ASSUME CollectFrames, FlagsOK, UNCHANGED <<stack, collecting, finalizing, dropping>>,
           phase \in {"loop", "counting", "roots"}, phase' \in {"loop", "counting", "roots"},
           todo' # {} => phase' \in {"counting", "roots"}
    PROVE  CollectFrames' /\ FlagsOK'
<1>1. CollectFrames'
  BY DEF CollectFrames, Running, TopOp, Top
<1>2. \A f : /\ SetsFinalizing(f, phase') = SetsFinalizing(f, phase)
             /\ SetsDropping(f, phase') = SetsDropping(f, phase)
  BY DEF SetsFinalizing, SetsDropping
<1>3. \A i : /\ FinalizingBelow(stack, phase', i) = FinalizingBelow(stack, phase, i)
             /\ DroppingBelow(stack, phase', i) = DroppingBelow(stack, phase, i)
  BY <1>2 DEF FinalizingBelow, DroppingBelow
<1>4. FlagsOK'
  BY <1>2, <1>3 DEF FlagsOK, Running
<1> QED BY <1>1, <1>4

(* collect() is called and left. *)
LEMMA CollectStarts ==
    ASSUME TypeOK, CollectFrames, FlagsOK, ~collecting, collecting' = TRUE, phase' = "loop",
           stack' = Append(stack, Frame("collect", "none", "none", FALSE)),
           UNCHANGED <<finalizing, dropping, todo>>
    PROVE  CollectFrames' /\ FlagsOK'
<1> DEFINE f == Frame("collect", "none", "none", FALSE)
           m == Len(stack)
<1>1. phase = "idle" /\ todo = {} /\ \A i \in 1..m : stack[i].op # "collect"
  BY DEF CollectFrames, FlagsOK, Running
<1>2. f.op = "collect"
  BY DEF Frame
<1>3. KeepsBelow(m) /\ Len(stack') = m + 1 /\ stack'[m + 1] = f /\ m \in Nat
  BY <1>1, KeepsPush, StackType
<1> HIDE DEF f
<1>4. Running("collect")'
  BY <1>2, <1>3, RunningStep
<1>5. ~SetsFinalizing(f, "loop") /\ ~SetsDropping(f, "loop")
  BY <1>2 DEF SetsFinalizing, SetsDropping
<1>6. CollectFrames'
  <2>1. /\ stack'[m + 1].op = "collect" /\ Len(stack') >= 1 /\ todo' = {} /\ Len(stack) \in Nat
        /\ stack'[Len(stack')].op = "collect"
    <3>1. stack'[m + 1].op = "collect" /\ stack'[Len(stack')].op = "collect"
      BY <1>2, <1>3
    <3>2. Len(stack') >= 1 /\ Len(stack) \in Nat
      BY <1>3
    <3>3. todo' = {}
      BY <1>1
    <3> QED BY <3>1, <3>2, <3>3
  <2> HIDE DEF m
  <2> QED BY <1>1, <1>3, <1>4, <2>1, CollectFramesStep
<1>7. FlagsOK'
  BY <1>3, <1>4, <1>5, FlagsStep DEF FlagsOK
<1> QED BY <1>6, <1>7

LEMMA CollectEnds ==
    ASSUME TypeOK, CollectFrames, FlagsOK, TopOp = "collect", stack' = Popped,
           collecting' = FALSE, phase' = "idle", todo' = {},
           finalizing' = IF phase = "finalizing" THEN Top.saved ELSE finalizing,
           dropping' = IF phase = "dropping" THEN Top.saved ELSE dropping
    PROVE  CollectFrames' /\ FlagsOK'
<1> DEFINE m == Len(stack) - 1
<1>1. KeepsBelow(m) /\ Len(stack') = m /\ Len(stack) \in Nat /\ m \in Nat
  BY KeepsPop, StackType, TopFlags
<1>2. \A i \in 1..m : stack[i].op # "collect"
  BY OneCollect
<1>3. ~Running("collect")'
  BY <1>1, <1>2, RunningStep
<1>4. /\ finalizing' <=> FinalizingBelow(stack, phase, m + 1)
      /\ dropping' <=> DroppingBelow(stack, phase, m + 1)
  BY TopFlags DEF SetsFinalizing, SetsDropping
<1> HIDE DEF m
<1>5. Len(stack') # m + 1
  BY <1>1
<1>6. CollectFrames'
  BY <1>1, <1>3, <1>5, CollectFramesStep
<1>7. FlagsOK'
  BY <1>1, <1>3, <1>4, <1>5, FlagsStep
<1> QED BY <1>6, <1>7

(* __collect takes the guard of finalizing or dropping, or releases it.      *)
LEMMA PhaseGuarded ==
    ASSUME TypeOK, CollectFrames, FlagsOK, TopOp = "collect", phase # "idle", NEW f,
           stack' = WithTop(f) \/ (stack' = stack /\ f = Top), f.op = "collect",
           phase' \in {"loop", "finalizing", "dropping"}, collecting' = collecting, todo' = {},
           finalizing' = IF phase' = "finalizing" THEN TRUE
                         ELSE IF phase = "finalizing" THEN Top.saved ELSE finalizing,
           dropping' = IF phase' = "dropping" THEN TRUE
                       ELSE IF phase = "dropping" THEN Top.saved ELSE dropping,
           phase' = "finalizing" => phase # "finalizing" /\ f.saved = finalizing,
           phase' = "dropping" => phase # "dropping" /\ f.saved = dropping
    PROVE  CollectFrames' /\ FlagsOK'
<1> DEFINE m == Len(stack) - 1
<1>1. /\ KeepsBelow(m) /\ Len(stack') = m + 1 /\ stack'[m + 1] = f
      /\ Len(stack) \in Nat /\ m \in Nat
  BY KeepsReplace, StackType, TopFlags
<1>2. \A i \in 1..m : stack[i].op # "collect"
  BY OneCollect
<1>3. Running("collect")' /\ collecting'
  BY <1>1, RunningStep, RunningTop DEF FlagsOK
<1>4. /\ SetsFinalizing(f, phase') <=> phase' = "finalizing"
      /\ SetsDropping(f, phase') <=> phase' = "dropping"
      /\ SetsFinalizing(Top, phase) <=> phase = "finalizing"
      /\ SetsDropping(Top, phase) <=> phase = "dropping"
  BY TopFlags DEF SetsFinalizing, SetsDropping
<1>5. /\ finalizing' <=> FinalizingBelow(stack, phase, m + 1) \/ phase' = "finalizing"
      /\ dropping' <=> DroppingBelow(stack, phase, m + 1) \/ phase' = "dropping"
  BY <1>4, TopFlags
<1>6. /\ phase' = "finalizing" => f.saved = FinalizingBelow(stack, phase, m + 1)
      /\ phase' = "dropping" => f.saved = DroppingBelow(stack, phase, m + 1)
  <2>1. finalizing \in BOOLEAN /\ dropping \in BOOLEAN
    BY DEF TypeOK
  <2>2. /\ FinalizingBelow(stack, phase, m + 1) \in BOOLEAN
        /\ DroppingBelow(stack, phase, m + 1) \in BOOLEAN
    BY DEF FinalizingBelow, DroppingBelow
  <2> QED BY <1>4, <2>1, <2>2, TopFlags
<1> HIDE DEF m
<1>7. CollectFrames'
  BY <1>1, <1>2, <1>3, CollectFramesStep
<1>8. FlagsOK'
  BY <1>1, <1>3, <1>4, <1>5, <1>6, FlagsStep
<1> QED BY <1>7, <1>8

-----------------------------------------------------------------------------
(* Calls of code of the program, and their ends. *)

(* While the collector traces nothing runs above it. *)
LEMMA NotTracing ==
    ASSUME CollectFrames, TopOp # "collect"
    PROVE  phase \notin {"loop", "counting", "roots"} /\ todo = {}
BY DEF CollectFrames

(* A finalizer or drop glue starts, on top of the stack or in the place of   *)
(* the frame on top.                                                         *)
LEMMA FramePushed ==
    ASSUME TypeOK, CollectFrames, FlagsOK, NEW f, stack' = Append(stack, f),
           UNCHANGED <<phase, collecting, todo>>,
           phase \notin {"loop", "counting", "roots"}, todo = {},
           \/ f.op = "finalizeCc"
           \/ f.op = "dropCc"
           \/ f.op = "finalizeList" /\ TopOp = "collect" /\ phase = "finalizing"
           \/ f.op = "dropList" /\ TopOp = "collect" /\ phase = "dropping",
           IF f.op = "finalizeCc" THEN finalizing' = TRUE /\ f.saved = finalizing
                                  ELSE finalizing' = finalizing,
           IF f.op = "dropCc" THEN dropping' = TRUE /\ f.saved = dropping
                              ELSE dropping' = dropping
    PROVE  CollectFrames' /\ FlagsOK'
<1> DEFINE m == Len(stack)
<1>1. KeepsBelow(m) /\ Len(stack') = m + 1 /\ stack'[m + 1] = f /\ m \in Nat
  BY KeepsPush, StackType
<1>2. f.op # "collect" /\ f.op # "main"
  OBVIOUS
<1>3. Running("collect")' <=> Running("collect")
  BY <1>1, <1>2, RunningStep DEF Running
<1>4. TopOp = "collect" => m >= 1 /\ stack[m].op = "collect"
  BY PopIndex
<1>5. /\ SetsFinalizing(f, phase') <=> f.op = "finalizeCc"
      /\ SetsDropping(f, phase') <=> f.op = "dropCc"
  BY DEF SetsFinalizing, SetsDropping
<1>6. /\ FinalizingBelow(stack, phase, m + 1) \in BOOLEAN
      /\ DroppingBelow(stack, phase, m + 1) \in BOOLEAN
      /\ finalizing \in BOOLEAN /\ dropping \in BOOLEAN
      /\ finalizing = FinalizingBelow(stack, phase, m + 1)
      /\ dropping = DroppingBelow(stack, phase, m + 1)
  BY DEF FinalizingBelow, DroppingBelow, FlagsOK, TypeOK
<1>7. (phase' = "idle" <=> ~Running("collect")') /\ (collecting' <=> Running("collect")')
  BY <1>3 DEF CollectFrames, FlagsOK
<1> HIDE DEF m
<1>8. CollectFrames'
  <2>1. Len(stack) \in Nat /\ m = Len(stack)
    BY <1>1 DEF m
  <2> QED BY <1>1, <1>2, <1>4, <1>7, <2>1, CollectFramesStep
<1>9. FlagsOK'
  <2>1. Len(stack) \in Nat
    BY <1>1 DEF m
  <2> QED BY <1>1, <1>5, <1>6, <1>7, <2>1, FlagsStep
<1> QED BY <1>8, <1>9

(* A finalizer or drop glue ends, by a return or a panic, and the guard it   *)
(* holds restores its flag.                                                  *)
LEMMA FramePopped ==
    ASSUME TypeOK, CollectFrames, FlagsOK, TopOp \notin {"main", "collect"}, stack' = Popped,
           UNCHANGED <<phase, collecting, todo>>,
           finalizing' = IF TopOp = "finalizeCc" THEN Top.saved ELSE finalizing,
           dropping' = IF TopOp = "dropCc" THEN Top.saved ELSE dropping
    PROVE  CollectFrames' /\ FlagsOK'
<1> DEFINE m == Len(stack) - 1
<1>1. KeepsBelow(m) /\ Len(stack') = m /\ Len(stack) \in Nat /\ m \in Nat
  BY KeepsPop, StackType, TopFlags
<1>2. phase \notin {"loop", "counting", "roots"} /\ todo = {}
  BY NotTracing
<1>3. Running("collect")' <=> Running("collect")
  BY <1>1, RunningStep, RunningTop
<1>4. (phase' = "idle" <=> ~Running("collect")') /\ (collecting' <=> Running("collect")')
  BY <1>3 DEF CollectFrames, FlagsOK
<1>5. /\ finalizing' <=> FinalizingBelow(stack, phase, m + 1)
      /\ dropping' <=> DroppingBelow(stack, phase, m + 1)
  BY TopFlags DEF SetsFinalizing, SetsDropping
<1> HIDE DEF m
<1>6. Len(stack') # m + 1
  BY <1>1
<1>7. CollectFrames'
  BY <1>1, <1>2, <1>4, <1>6, CollectFramesStep
<1>8. FlagsOK'
  BY <1>1, <1>4, <1>5, <1>6, FlagsStep
<1> QED BY <1>7, <1>8

(* The frame of a finalizer makes place for that of the drop glue, or a      *)
(* panic marks a frame of drop glue.                                         *)
LEMMA FrameReplaced ==
    ASSUME TypeOK, CollectFrames, FlagsOK, TopOp \notin {"main", "collect"}, NEW f,
           stack' = WithTop(f) \/ stack' = Append(Popped, f),
           UNCHANGED <<phase, collecting, todo>>,
           \/ /\ TopOp = "finalizeCc" /\ f.op = "dropCc" /\ f.saved = dropping
              /\ finalizing' = Top.saved /\ dropping' = TRUE
           \/ /\ f.op = TopOp /\ f.saved = Top.saved
              /\ UNCHANGED <<finalizing, dropping>>
    PROVE  CollectFrames' /\ FlagsOK'
<1> DEFINE m == Len(stack) - 1
<1>1. /\ KeepsBelow(m) /\ Len(stack') = m + 1 /\ stack'[m + 1] = f
      /\ Len(stack) \in Nat /\ m \in Nat
  BY KeepsReplace, StackType, TopFlags
<1>2. phase \notin {"loop", "counting", "roots"} /\ todo = {}
  BY NotTracing
<1>3. f.op # "collect" /\ TopOp # "collect"
  OBVIOUS
<1>4. Running("collect")' <=> Running("collect")
  BY <1>1, <1>3, RunningStep, RunningTop
<1>5. (phase' = "idle" <=> ~Running("collect")') /\ (collecting' <=> Running("collect")')
  BY <1>4 DEF CollectFrames, FlagsOK
<1>6. /\ SetsFinalizing(f, phase') <=> f.op = "finalizeCc"
      /\ SetsDropping(f, phase') <=> f.op = "dropCc"
      /\ SetsFinalizing(Top, phase) <=> TopOp = "finalizeCc"
      /\ SetsDropping(Top, phase) <=> TopOp = "dropCc"
  BY <1>3, TopFlags DEF SetsFinalizing, SetsDropping
<1>7. /\ FinalizingBelow(stack, phase, m + 1) \in BOOLEAN
      /\ DroppingBelow(stack, phase, m + 1) \in BOOLEAN
      /\ finalizing \in BOOLEAN /\ dropping \in BOOLEAN
  BY DEF FinalizingBelow, DroppingBelow, TypeOK
<1>8. /\ finalizing' <=> FinalizingBelow(stack, phase, m + 1) \/ f.op = "finalizeCc"
      /\ dropping' <=> DroppingBelow(stack, phase, m + 1) \/ f.op = "dropCc"
      /\ f.op = "finalizeCc" => f.saved = FinalizingBelow(stack, phase, m + 1)
      /\ f.op = "dropCc" => f.saved = DroppingBelow(stack, phase, m + 1)
  BY <1>6, <1>7, TopFlags
<1>9. /\ f.op = "finalizeList" => phase' = "finalizing" /\ m >= 1 /\ stack[m].op = "collect"
      /\ f.op = "dropList" => phase' = "dropping" /\ m >= 1 /\ stack[m].op = "collect"
  <2>1. m + 1 \in 1..Len(stack) /\ TopOp = stack[m + 1].op /\ (m + 1) - 1 = m
        /\ (m + 1 > 1 => m >= 1)
    BY <1>1, TopFlags
  <2> HIDE DEF m
  <2> QED BY <2>1 DEF CollectFrames
<1> HIDE DEF m
<1>10. CollectFrames'
  BY <1>1, <1>2, <1>3, <1>5, <1>9, CollectFramesStep
<1>11. FlagsOK'
  BY <1>1, <1>5, <1>6, <1>8, FlagsStep
<1> QED BY <1>10, <1>11

-----------------------------------------------------------------------------
(* The actions. *)
LEMMA UserFrames ==
    ASSUME TypeOK, CollectFrames, FlagsOK, UserStep
    PROVE  CollectFrames' /\ FlagsOK'
<1> USE DEF boxVars, ccVars, pcVars, listVars, flagVars, loopVars, callVars
<1>1. CASE CollectCycles
  BY <1>1, CollectStarts DEF CollectCycles, Push
<1>2. CASE ~CollectCycles
  <2>1. UNCHANGED <<stack, phase, todo, collecting, finalizing, dropping>>
    BY <1>2 DEF UserStep, New, Upgrade, NewPointer, Store, Clone, MarkAlive, Take, TryUnwrap,
        BorrowCell, FinalizeAgain, UserPanic, TracePanic, Catch
  <2> QED BY <2>1, StackStays DEF CollectFrames
<1> QED BY <1>1, <1>2

LEMMA DropFrames ==
    ASSUME TypeOK, CollectFrames, FlagsOK, NEW c \in Ccs, CcDrop(c)
    PROVE  CollectFrames' /\ FlagsOK'
<1> USE DEF boxVars, ccVars, pcVars, listVars, flagVars, loopVars, callVars
<1>1. phase \notin {"loop", "counting", "roots"} /\ todo = {}
  BY NotTracing DEF CcDrop, DropListed, DropShared, DropFinalize, DropLast, Droppable, UserRunning
<1>2. CASE DropListed(c) \/ DropShared(c)
  BY <1>1, <1>2, StackStays DEF DropListed, DropShared
<1>3. CASE DropFinalize(c)
  <2> DEFINE f == Frame("finalizeCc", target[c], c, finalizing)
  <2>1. f.op = "finalizeCc" /\ f.saved = finalizing
    BY DEF Frame
  <2>2. /\ stack' = Append(stack, f) /\ finalizing' = TRUE
        /\ UNCHANGED <<phase, collecting, dropping, todo>>
    BY <1>3 DEF DropFinalize, Push
  <2> HIDE DEF f
  <2> QED BY <1>1, <2>1, <2>2, FramePushed
<1>4. CASE DropLast(c)
  <2> DEFINE f == Frame("dropCc", target[c], "none", dropping)
  <2>1. f.op = "dropCc" /\ f.saved = dropping
    BY DEF Frame
  <2>2. /\ stack' = Append(stack, f) /\ dropping' = TRUE
        /\ UNCHANGED <<phase, collecting, finalizing, todo>>
    BY <1>4 DEF DropLast, DropValue
  <2> HIDE DEF f
  <2> QED BY <1>1, <2>1, <2>2, FramePushed
<1> QED BY <1>2, <1>3, <1>4 DEF CcDrop

LEMMA ReturnFrames ==
    ASSUME TypeOK, CollectFrames, FlagsOK, UserReturn \/ EndDropCc \/ EndDropInner
    PROVE  CollectFrames' /\ FlagsOK'
<1> USE DEF boxVars, ccVars, pcVars, listVars, flagVars, loopVars, callVars
<1>1. CASE EndFinalizeList
  BY <1>1, FramePopped DEF EndFinalizeList
<1>2. CASE EndFinalizeCc
  <2>1. CASE counter[Top.obj] # 1
    BY <1>2, <2>1, FramePopped DEF EndFinalizeCc
  <2>2. CASE counter[Top.obj] = 1
    <3> DEFINE f == Frame("dropCc", target[Top.cc], "none", dropping)
    <3>1. f.op = "dropCc" /\ f.saved = dropping
      BY DEF Frame
    <3>2. /\ stack' = Append(Popped, f) /\ dropping' = TRUE /\ finalizing' = Top.saved
          /\ UNCHANGED <<phase, collecting, todo>>
      BY <1>2, <2>2 DEF EndFinalizeCc, DropValue
    <3> HIDE DEF f
    <3> QED BY <1>2, <3>1, <3>2, FrameReplaced DEF EndFinalizeCc
  <2> QED BY <2>1, <2>2
<1>3. CASE EndDropCc
  BY <1>3, FramePopped DEF EndDropCc, RestoreDropping
<1>4. CASE EndDropInner
  BY <1>4, FramePopped DEF EndDropInner
<1> QED BY <1>1, <1>2, <1>3, <1>4 DEF UserReturn

LEMMA CollectorFrames ==
    ASSUME TypeOK, PlacesOK, CollectFrames, FlagsOK, CollectorStep
    PROVE  CollectFrames' /\ FlagsOK'
<1> USE DEF boxVars, ccVars, pcVars, listVars, flagVars, loopVars, callVars
<1>0. /\ \A p : Collector(p) => TopOp = "collect" /\ phase = p
      /\ current = "none" => todo = {}
      /\ todo # {} => phase \in {"counting", "roots"}
  BY PlacesAssumption DEF Collector, PlacesOK, CollectFrames
<1>1. CASE NextRound \/ EndTraceCounting
  BY <1>0, <1>1, PhaseAdvances DEF NextRound, EndTraceCounting
<1>2. CASE EndCollect
  <2>1. /\ TopOp = "collect" /\ phase = "loop" /\ stack' = Popped
        /\ collecting' = FALSE /\ phase' = "idle" /\ todo' = todo
        /\ finalizing' = finalizing /\ dropping' = dropping
    BY <1>0, <1>2 DEF EndCollect
  <2>2. todo' = {}
    BY <1>0, <2>1
  <2> QED BY <2>1, <2>2, CollectEnds
<1>3. ASSUME NEW o \in Objects, StartCounting(o) \/ StartRoot(o)
      PROVE  CollectFrames' /\ FlagsOK'
  BY <1>0, <1>3, StackStays DEF StartCounting, StartRoot
<1>4. ASSUME NEW c \in Ccs, TraceCounting(c) \/ TraceRoots(c)
      PROVE  CollectFrames' /\ FlagsOK'
  BY <1>0, <1>4, StackStays DEF TraceCounting, TraceRoots
<1>5. CASE EndCounting \/ EndRoot
  BY <1>0, <1>5, StackStays DEF EndCounting, EndRoot
<1>6. CASE EndTraceRoots
  <2>1. CASE nonRootList = {}
    BY <1>0, <1>6, <2>1, PhaseAdvances DEF EndTraceRoots
  <2>2. CASE nonRootList # {}
    <3> DEFINE f == [Top EXCEPT !.saved = finalizing]
    <3>1. TopOp = "collect" /\ f.op = "collect" /\ f.saved = finalizing
      BY <1>0, <1>6, TopType DEF EndTraceRoots, Frames
    <3>2. /\ stack' = WithTop(f) /\ phase' = "finalizing" /\ phase = "roots" /\ finalizing' = TRUE
          /\ UNCHANGED <<collecting, dropping>> /\ todo' = {}
      BY <1>0, <1>6, <2>2 DEF EndTraceRoots
    <3> HIDE DEF f
    <3> QED BY <3>1, <3>2, PhaseGuarded
  <2> QED BY <2>1, <2>2
<1>7. ASSUME NEW o \in Objects, FinalizeInner(o)
      PROVE  CollectFrames' /\ FlagsOK'
  <2>1. CASE NeedsFinalization(o)
    <3> DEFINE f == Frame("finalizeList", o, "none", FALSE)
    <3>1. f.op = "finalizeList"
      BY DEF Frame
    <3>2. /\ stack' = Append(stack, f) /\ TopOp = "collect" /\ phase = "finalizing"
          /\ UNCHANGED <<phase, collecting, finalizing, dropping, todo>>
      BY <1>0, <1>7, <2>1 DEF FinalizeInner, Push
    <3>3. todo = {}
      BY <1>0, <3>2
    <3> HIDE DEF f
    <3> QED BY <3>1, <3>2, <3>3, FramePushed
  <2>2. CASE ~NeedsFinalization(o)
    BY <1>0, <1>7, <2>2, StackStays DEF FinalizeInner
  <2> QED BY <2>1, <2>2
<1>8. ASSUME NEW o \in Objects, DropInner(o)
      PROVE  CollectFrames' /\ FlagsOK'
  <2> DEFINE f == Frame("dropList", o, "none", FALSE)
  <2>1. f.op = "dropList"
    BY DEF Frame
  <2>2. /\ stack' = Append(stack, f) /\ TopOp = "collect" /\ phase = "dropping"
        /\ UNCHANGED <<phase, collecting, finalizing, dropping, todo>>
    BY <1>0, <1>8 DEF DropInner, Push
  <2>3. todo = {}
    BY <1>0, <2>2
  <2> HIDE DEF f
  <2> QED BY <2>1, <2>2, <2>3, FramePushed
<1>9. CASE EndFinalizing
  <2>1. CASE hasFinalized
    <3>1. /\ stack' = stack /\ phase' = "loop" /\ phase = "finalizing" /\ finalizing' = Top.saved
          /\ UNCHANGED <<collecting, dropping>> /\ todo' = {} /\ TopOp = "collect"
      BY <1>0, <1>9, <2>1 DEF EndFinalizing
    <3>2. Top.op = "collect"
      BY <3>1, TopType
    <3> QED BY <3>1, <3>2, PhaseGuarded
  <2>2. CASE ~hasFinalized
    <3> DEFINE f == [Top EXCEPT !.saved = dropping]
    <3>1. TopOp = "collect" /\ f.op = "collect" /\ f.saved = dropping
      BY <1>0, <1>9, TopType DEF EndFinalizing, Frames
    <3>2. /\ stack' = WithTop(f) /\ phase' = "dropping" /\ phase = "finalizing"
          /\ finalizing' = Top.saved /\ dropping' = TRUE
          /\ UNCHANGED collecting /\ todo' = {}
      BY <1>0, <1>9, <2>2 DEF EndFinalizing
    <3> HIDE DEF f
    <3> QED BY <3>1, <3>2, PhaseGuarded
  <2> QED BY <2>1, <2>2
<1>10. CASE DeallocateList
  <2>1. /\ stack' = stack /\ phase' = "loop" /\ phase = "dropping" /\ dropping' = Top.saved
        /\ UNCHANGED <<collecting, finalizing>> /\ todo' = {} /\ TopOp = "collect"
    BY <1>0, <1>10 DEF DeallocateList, RestoreDropping
  <2>2. Top.op = "collect"
    BY <2>1, TopType
  <2> QED BY <2>1, <2>2, PhaseGuarded
<1> QED
  BY <1>1, <1>2, <1>3, <1>4, <1>5, <1>6, <1>7, <1>8, <1>9, <1>10 DEF CollectorStep

LEMMA UnwindFrames ==
    ASSUME TypeOK, CollectFrames, FlagsOK, UnwindStep
    PROVE  CollectFrames' /\ FlagsOK'
<1> USE DEF boxVars, ccVars, pcVars, listVars, flagVars, loopVars, callVars
<1>1. CASE UnwindFinalizer
  BY <1>1, FramePopped DEF UnwindFinalizer
<1>2. CASE UnwindDropGlue
  <2> DEFINE f == [Top EXCEPT !.unwinding = TRUE]
  <2>1. f.op = TopOp /\ f.saved = Top.saved /\ TopOp \notin {"main", "collect"}
    BY <1>2, TopType DEF UnwindDropGlue, Frames
  <2>2. stack' = WithTop(f) /\ UNCHANGED <<phase, collecting, finalizing, dropping, todo>>
    BY <1>2 DEF UnwindDropGlue
  <2> HIDE DEF f
  <2> QED BY <2>1, <2>2, FrameReplaced
<1>3. CASE UnwindCollect
  BY <1>3, CollectEnds DEF UnwindCollect
<1> QED BY <1>1, <1>2, <1>3 DEF UnwindStep

LEMMA NextFrames ==
    ASSUME TypeOK, PlacesOK, CollectFrames, FlagsOK, [Next]_vars
    PROVE  CollectFrames' /\ FlagsOK'
<1>1. CASE UNCHANGED vars
  BY <1>1, StackStays DEF vars, flagVars, loopVars, callVars, CollectFrames
<1>2. CASE Next
  BY <1>2, UserFrames, DropFrames, ReturnFrames, CollectorFrames, UnwindFrames DEF Next
<1> QED BY <1>1, <1>2

-----------------------------------------------------------------------------
(* The theorems. *)
LEMMA InitStack == Init => StackInv
<1> SUFFICES ASSUME Init PROVE StackInv
  OBVIOUS
<1>1. PlacesOK
  BY PlacesInit
<1>2. CollectFrames
  BY DEF Init, CollectFrames, Running, TopOp
<1>3. FlagsOK
  BY DEF Init, FlagsOK, Running, FinalizingBelow, DroppingBelow
<1> QED BY <1>1, <1>2, <1>3 DEF StackInv

(* The types are preserved by every step, and with them the shape of the     *)
(* call stack: one collection at most, no frame above it while it traces,    *)
(* each guard knows the former value of its flag.                            *)
THEOREM StackCorrect == Spec => [](TypeOK /\ StackInv)
<1>1. Init => TypeOK /\ StackInv
  BY InitType, InitStack
<1>2. TypeOK /\ StackInv /\ [Next]_vars => (TypeOK /\ StackInv)'
  BY NextType, NextPlaces, NextFrames DEF StackInv
<1> QED BY <1>1, <1>2, PTL DEF Spec

(* Every variable has its type in every reachable state, in particular a     *)
(* reference counter never exceeds counter_marker::MAX and a list holds      *)
(* allocations only (counter_marker.rs, increment_counter).                  *)
THEOREM TypeCorrect == Spec => []TypeOK
BY StackCorrect, PTL

LEMMA FlagsTold ==
    ASSUME TypeOK, StackInv
    PROVE  FlagsMatchStack
<1>1. collecting <=> Running("collect")
  BY DEF StackInv, FlagsOK
<1>2. phase \in {"finalizing", "dropping"} => Running("collect")
  BY DEF StackInv, CollectFrames
<1>3. Len(stack) \in Nat /\ \A j : j \in 1..((Len(stack) + 1) - 1) <=> j \in 1..Len(stack)
  BY StackType
<1>4. finalizing <=> Running("finalizeCc") \/ phase = "finalizing"
  <2>1. finalizing <=> \E j \in 1..Len(stack) : SetsFinalizing(stack[j], phase)
    BY <1>3 DEF StackInv, FlagsOK, FinalizingBelow
  <2> QED BY <1>2, <2>1 DEF SetsFinalizing, Running
<1>5. dropping <=> Running("dropCc") \/ phase = "dropping"
  <2>1. dropping <=> \E j \in 1..Len(stack) : SetsDropping(stack[j], phase)
    BY <1>3 DEF StackInv, FlagsOK, DroppingBelow
  <2> QED BY <1>2, <2>1 DEF SetsDropping, Running
<1> QED BY <1>1, <1>4, <1>5 DEF FlagsMatchStack, Running

(* The flags of State are on exactly while a call that sets them is on the   *)
(* call stack, whatever calls are nested and whichever of them panic         *)
(* (state.rs, replace_state_field!).                                         *)
THEOREM FlagsCorrect == Spec => []FlagsMatchStack
BY FlagsTold, StackCorrect, PTL

(* is_tracing tells Trace implementations from other code, as long as the    *)
(* collection was not started in a call of Cc::drop (state.rs, is_tracing).  *)
THEOREM IsTracingCorrect == Spec => []IsTracingTells
<1>1. ASSUME TypeOK, StackInv PROVE IsTracingTells
  <2>1. /\ collecting <=> Running("collect")
        /\ finalizing <=> Running("finalizeCc") \/ phase = "finalizing"
        /\ dropping <=> Running("dropCc") \/ phase = "dropping"
    BY <1>1, FlagsTold DEF FlagsMatchStack, Running
  <2>2. ASSUME TopOp # "collect", collecting PROVE finalizing \/ dropping
    <3>1. Len(stack) \in 1..Len(stack) /\ TopOp = stack[Len(stack)].op
      <4>1. PICK i \in 1..Len(stack) : stack[i].op = "collect"
        BY <2>1, <2>2 DEF Running
      <4>2. Len(stack) \in 1..Len(stack) /\ stack # <<>>
        BY <1>1, <4>1, StackType
      <4> QED BY <4>2 DEF TopOp, Top
    <3>2. TopOp \in {"finalizeCc", "finalizeList", "dropCc", "dropList"}
      <4>1. stack[Len(stack)] \in Frames
        BY <1>1, <3>1, StackType
      <4> QED BY <2>2, <3>1, <4>1 DEF Frames, FrameOps
    <3>3. TopOp = "finalizeList" => phase = "finalizing"
      BY <1>1, <3>1 DEF StackInv, CollectFrames
    <3>4. TopOp = "dropList" => phase = "dropping"
      BY <1>1, <3>1 DEF StackInv, CollectFrames
    <3> QED BY <2>1, <3>1, <3>2, <3>3, <3>4 DEF Running
  <2>3. phase \in {"counting", "roots"} => collecting
    BY <1>1, <2>1 DEF StackInv, CollectFrames
  <2> QED BY <2>1, <2>2, <2>3 DEF IsTracingTells, IsTracing, Running
<1> QED BY <1>1, StackCorrect, PTL

-----------------------------------------------------------------------------
(* Sets of Ccs and of allocations are finite. *)
LEMMA CcsCount ==
    ASSUME NEW S \in SUBSET Ccs
    PROVE  /\ IsFiniteSet(S) /\ Cardinality(S) \in Nat
           /\ Cardinality(S) = 0 <=> S = {}
           /\ \A d \in Ccs \ S : Cardinality(S \cup {d}) = Cardinality(S) + 1
           /\ \A d \in S : Cardinality(S \ {d}) = Cardinality(S) - 1
           /\ \A d : S = {d} => Cardinality(S) = 1
           /\ Cardinality(S) = 1 => \A d \in S : S = {d}
<1>1. IsFiniteSet(S)
  BY FiniteAssumption, FS_Subset
<1>2. /\ \A d : S = {d} => Cardinality(S) = 1
      /\ Cardinality(S) = 1 => \A d \in S : S = {d}
  <2>1. Cardinality(S) = 1 => \E x : S = {x}
    BY <1>1, FS_Singleton
  <2> QED BY <2>1, FS_Singleton
<1> QED BY <1>1, <1>2, FS_CardinalityType, FS_EmptySet, FS_AddElement, FS_RemoveElement

LEMMA ObjectsCount ==
    ASSUME NEW S \in SUBSET Objects
    PROVE  /\ IsFiniteSet(S) /\ Cardinality(S) \in Nat
           /\ Cardinality(S) = 0 <=> S = {}
           /\ \A o \in Objects \ S : Cardinality(S \cup {o}) = Cardinality(S) + 1
           /\ \A o \in S : Cardinality(S \ {o}) = Cardinality(S) - 1
<1>1. IsFiniteSet(S)
  BY FiniteAssumption, FS_Subset
<1> QED BY <1>1, FS_CardinalityType, FS_EmptySet, FS_AddElement, FS_RemoveElement

(* Of the Ccs to an allocation, no more can be traced than there are.        *)
LEMMA TracedCount ==
    ASSUME NEW T, NEW P \in SUBSET Ccs
    PROVE  /\ Cardinality(T \cap P) \in Nat /\ Cardinality(P) \in Nat
           /\ Cardinality(T \cap P) <= Cardinality(P)
           /\ Cardinality(T \cap P) = Cardinality(P) => P \subseteq T
           /\ T \cap P = {} <=> Cardinality(T \cap P) = 0
           /\ \A c \in P \ T : /\ Cardinality((T \cup {c}) \cap P) = Cardinality(T \cap P) + 1
                               /\ Cardinality(T \cap P) < Cardinality(P)
<1>1. IsFiniteSet(P) /\ T \cap P \in SUBSET P /\ T \cap P \in SUBSET Ccs
  BY CcsCount
<1>2. /\ Cardinality(T \cap P) <= Cardinality(P)
      /\ Cardinality(T \cap P) = Cardinality(P) => T \cap P = P
  BY <1>1, FS_Subset
<1>3. Cardinality(T \cap P) \in Nat /\ Cardinality(P) \in Nat
  BY <1>1, CcsCount
<1>4. ASSUME NEW c \in P \ T
      PROVE  /\ Cardinality((T \cup {c}) \cap P) = Cardinality(T \cap P) + 1
             /\ Cardinality(T \cap P) < Cardinality(P)
  <2>1. (T \cup {c}) \cap P = (T \cap P) \cup {c} /\ c \in Ccs \ (T \cap P)
    OBVIOUS
  <2>2. T \cap P # P
    BY <1>4
  <2>3. Cardinality((T \cap P) \cup {c}) = Cardinality(T \cap P) + 1
    <3> DEFINE S == T \cap P
    <3>1. S \in SUBSET Ccs /\ c \in Ccs \ S
      BY <1>1, <2>1
    <3> HIDE DEF S
    <3>2. Cardinality(S \cup {c}) = Cardinality(S) + 1
      BY <3>1, CcsCount
    <3> QED BY <3>2 DEF S
  <2>4. Cardinality(T \cap P) < Cardinality(P)
    BY <1>2, <1>3, <2>2
  <2> QED BY <2>1, <2>3, <2>4
<1>5. T \cap P = {} <=> Cardinality(T \cap P) = 0
  BY <1>1, CcsCount
<1> QED BY <1>2, <1>3, <1>4, <1>5

-----------------------------------------------------------------------------
(* The reference counters. *)

(* A counter stays exact if it follows the Ccs that come and go.             *)
LEMMA CounterStep ==
    ASSUME TypeOK, CounterExact,
           \A o \in Objects : status'[o] # "free" =>
                \/ /\ status[o] # "free" /\ counter'[o] = counter[o]
                   /\ \A d \in Ccs : target'[d] = o <=> target[d] = o
                \/ /\ status[o] # "free" /\ counter'[o] = counter[o] + 1
                   /\ \E c \in Ccs : /\ target[c] # o
                                     /\ \A d \in Ccs : target'[d] = o <=> target[d] = o \/ d = c
                \/ /\ status[o] # "free" /\ counter'[o] = counter[o] - 1
                   /\ \E c \in Ccs : /\ target[c] = o
                                     /\ \A d \in Ccs : target'[d] = o <=> target[d] = o /\ d # c
                \/ /\ counter'[o] = 1
                   /\ \E c \in Ccs : \A d \in Ccs : target'[d] = o <=> d = c
    PROVE  CounterExact'
<1> SUFFICES ASSUME NEW o \in Objects, status'[o] # "free"
             PROVE  counter'[o] = Cardinality(Pointing(o)')
  BY DEF CounterExact
<1> DEFINE P == Pointing(o)
           Q == Pointing(o)'
<1>0. P \in SUBSET Ccs /\ Q \in SUBSET Ccs
  BY DEF Pointing
<1>1. status[o] # "free" => counter[o] = Cardinality(P)
  BY DEF CounterExact
<1>2. CASE /\ status[o] # "free" /\ counter'[o] = counter[o]
           /\ \A d \in Ccs : target'[d] = o <=> target[d] = o
  <2>1. Q = P
    BY <1>2 DEF Pointing
  <2> QED BY <1>1, <1>2, <2>1
<1>3. CASE /\ status[o] # "free" /\ counter'[o] = counter[o] + 1
           /\ \E c \in Ccs : /\ target[c] # o
                             /\ \A d \in Ccs : target'[d] = o <=> target[d] = o \/ d = c
  <2>1. PICK c \in Ccs : /\ target[c] # o
                         /\ \A d \in Ccs : target'[d] = o <=> target[d] = o \/ d = c
    BY <1>3
  <2>2. Q = P \cup {c} /\ c \notin P
    BY <2>1 DEF Pointing
  <2> HIDE DEF P, Q
  <2>3. Cardinality(P \cup {c}) = Cardinality(P) + 1
    BY <1>0, <2>2, CcsCount
  <2> QED BY <1>1, <1>3, <2>2, <2>3 DEF Q
<1>4. CASE /\ status[o] # "free" /\ counter'[o] = counter[o] - 1
           /\ \E c \in Ccs : /\ target[c] = o
                             /\ \A d \in Ccs : target'[d] = o <=> target[d] = o /\ d # c
  <2>1. PICK c \in Ccs : /\ target[c] = o
                         /\ \A d \in Ccs : target'[d] = o <=> target[d] = o /\ d # c
    BY <1>4
  <2>2. Q = P \ {c} /\ c \in P
    BY <2>1 DEF Pointing
  <2> HIDE DEF P, Q
  <2>3. Cardinality(P \ {c}) = Cardinality(P) - 1
    BY <1>0, <2>2, CcsCount
  <2> QED BY <1>1, <1>4, <2>2, <2>3 DEF Q
<1>5. CASE counter'[o] = 1 /\ \E c \in Ccs : \A d \in Ccs : target'[d] = o <=> d = c
  <2>1. PICK c \in Ccs : \A d \in Ccs : target'[d] = o <=> d = c
    BY <1>5
  <2>2. Q = {c}
    BY <2>1 DEF Pointing
  <2> HIDE DEF P, Q
  <2> QED BY <1>0, <1>5, <2>2, CcsCount DEF Q
<1> QED BY <1>2, <1>3, <1>4, <1>5

(* Who sees a Cc to an allocation in use sees a counter that is not 0, and   *)
(* who sees 1 knows the last Cc to it.                                       *)
LEMMA CounterTells ==
    ASSUME TypeOK, CounterExact, NEW c \in Ccs, target[c] \in Objects, status[target[c]] # "free"
    PROVE  /\ counter[target[c]] \in Nat /\ counter[target[c]] >= 1
           /\ Decrement(counter[target[c]]) = counter[target[c]] - 1
           /\ counter[target[c]] = 1 => \A d \in Ccs : target[d] = target[c] => d = c
<1> DEFINE P == Pointing(target[c])
<1>1. P \in SUBSET Ccs /\ c \in P /\ counter[target[c]] = Cardinality(P)
  BY DEF Pointing, CounterExact
<1>2. \A d \in Ccs : target[d] = target[c] => d \in P
  BY DEF Pointing
<1> HIDE DEF P
<1>3. Cardinality(P) \in Nat /\ Cardinality(P) # 0 /\ (Cardinality(P) = 1 => P = {c})
  BY <1>1, CcsCount
<1>4. counter[target[c]] = 1 => P = {c}
  BY <1>1, <1>3
<1> QED BY <1>1, <1>2, <1>3, <1>4 DEF Decrement

(* A Cc comes into existence, is discarded, or neither. *)
LEMMA CounterGains ==
    ASSUME TypeOK, CounterExact, NEW c \in Ccs, NEW t \in Objects,
           target[c] = "none", status[t] # "free", UNCHANGED status,
           \A o \in Objects : counter'[o] = IF o = t THEN counter[o] + 1 ELSE counter[o],
           \A d \in Ccs : target'[d] = IF d = c THEN t ELSE target[d]
    PROVE  CounterExact'
<1>1. \A o \in Objects : o # "none"
  BY PlacesAssumption
<1>2. target[c] # t /\ \A d \in Ccs : target'[d] = t <=> target[d] = t \/ d = c
  BY <1>1
<1>3. \A o \in Objects \ {t} : \A d \in Ccs : target'[d] = o <=> target[d] = o
  BY <1>1
<1> QED BY <1>2, <1>3, CounterStep

LEMMA CounterLoses ==
    ASSUME TypeOK, CounterExact, NEW c \in Ccs, NEW t \in Objects,
           target[c] = t, status[t] # "free", Discard(c),
           \A o \in Objects : status'[o] # "free" => status[o] # "free",
           \A o \in Objects : counter'[o] = IF o = t THEN Decrement(counter[o]) ELSE counter[o]
    PROVE  CounterExact'
<1>1. \A o \in Objects : o # "none"
  BY PlacesAssumption
<1>2. \A d \in Ccs : target'[d] = IF d = c THEN "none" ELSE target[d]
  BY DEF Discard, TypeOK
<1>3. counter'[t] = counter[t] - 1
  BY CounterTells
<1>4. \A d \in Ccs : target'[d] = t <=> target[d] = t /\ d # c
  BY <1>1, <1>2
<1>5. \A o \in Objects \ {t} : \A d \in Ccs : target'[d] = o <=> target[d] = o
  BY <1>1, <1>2
<1> QED BY <1>3, <1>4, <1>5, CounterStep

LEMMA CounterStays ==
    ASSUME TypeOK, CounterExact, UNCHANGED target,
           \A o \in Objects : status'[o] # "free" => status[o] # "free" /\ counter'[o] = counter[o]
    PROVE  CounterExact'
BY CounterStep

-----------------------------------------------------------------------------
(* The marks. *)

LEMMA MarksStay ==
    ASSUME MarksMatchLists, UNCHANGED <<mark, pcVars, listVars, phase, current>>
    PROVE  MarksMatchLists'
BY DEF MarksMatchLists, pcVars, listVars

(* Outside of the tracing phases, add_to_list and remove_from_list keep the  *)
(* marks, the lists and the size of possible_cycles together.                *)
LEMMA MarksRemove ==
    ASSUME TypeOK, MarksMatchLists, NEW o \in Objects, RemoveFromList(o),
           UNCHANGED <<listVars, phase, current>>
    PROVE  MarksMatchLists'
<1>1. CASE mark[o] # "PossibleCycles"
  BY <1>1 DEF RemoveFromList, MarksMatchLists, listVars
<1>2. CASE mark[o] = "PossibleCycles"
  <2>1. /\ pc' = pc \ {o} /\ pcSize' = pcSize - 1
        /\ \A x \in Objects : mark'[x] = IF x = o THEN "NonMarked" ELSE mark[x]
    BY <1>2 DEF RemoveFromList, TypeOK
  <2>2. o \in pc /\ pc \subseteq Objects /\ pcSize = Cardinality(pc)
    BY <1>2 DEF MarksMatchLists, TypeOK
  <2>3. pcSize' = Cardinality(pc')
    BY <2>1, <2>2, ObjectsCount
  <2>4. ASSUME NEW x \in Objects
        PROVE  /\ mark'[x] = "PossibleCycles" <=> x \in pc'
               /\ mark'[x] = "InList" <=> mark[x] = "InList"
               /\ mark'[x] = "InQueue" <=> mark[x] = "InQueue"
    BY <1>2, <2>1 DEF MarksMatchLists
  <2> QED BY <2>3, <2>4 DEF MarksMatchLists, listVars
<1> QED BY <1>1, <1>2

LEMMA MarksAdd ==
    ASSUME TypeOK, MarksMatchLists, NEW o \in Objects, AddToList(o), ~InListOrQueue(o),
           UNCHANGED <<listVars, phase, current>>
    PROVE  MarksMatchLists'
<1>1. CASE mark[o] = "PossibleCycles"
  BY <1>1 DEF AddToList, MarksMatchLists, listVars
<1>2. CASE mark[o] # "PossibleCycles"
  <2>1. /\ pc' = pc \cup {o} /\ pcSize' = pcSize + 1
        /\ \A x \in Objects : mark'[x] = IF x = o THEN "PossibleCycles" ELSE mark[x]
    BY <1>2 DEF AddToList, TypeOK
  <2>2. o \notin pc /\ pc \subseteq Objects /\ pcSize = Cardinality(pc)
    BY <1>2 DEF MarksMatchLists, TypeOK
  <2>3. pcSize' = Cardinality(pc')
    BY <2>1, <2>2, ObjectsCount
  <2>4. ASSUME NEW x \in Objects
        PROVE  /\ mark'[x] = "PossibleCycles" <=> x \in pc'
               /\ mark'[x] = "InList" <=> mark[x] = "InList"
               /\ mark'[x] = "InQueue" <=> mark[x] = "InQueue"
    BY <1>2, <2>1 DEF MarksMatchLists, InListOrQueue
  <2> QED BY <2>3, <2>4 DEF MarksMatchLists, listVars
<1> QED BY <1>1, <1>2

-----------------------------------------------------------------------------
(* What the invariants tell before a step. *)
LEMMA PartsOfInv ==
    ASSUME StackInv, SafeInv
    PROVE  /\ PlacesOK /\ CollectFrames /\ FlagsOK
           /\ PhaseOK /\ ListsOK /\ GoneOK /\ FramesFit /\ GlueEmpties /\ NonRootOK /\ TracingOK
           /\ CounterExact /\ MarksMatchLists /\ TracingExact
BY DEF StackInv, SafeInv

LEMMA GoneTells ==
    ASSUME TypeOK
    PROVE  /\ \A o \in Objects : ~Gone(o) <=>
                status[o] = "live" /\ tracing[o] # DroppedTc
                    /\ ~(phase = "dropping" /\ o \in nonRootList)
           /\ \A o \in Objects : status[o] = "free" => Gone(o)
BY DEF Gone, Decided, TypeOK

(* A Cc that exists and is not in a value points to nothing that is gone.    *)
LEMMA OutsideTarget ==
    ASSUME TypeOK, PlacesOK, GoneOK, NEW c \in Ccs, owner[c] \in {"program", "limbo"}
    PROVE  target[c] \in Objects /\ ~Gone(target[c])
<1>1. target[c] \in Objects
  BY DEF PlacesOK, TypeOK
<1> QED BY <1>1, PlacesAssumption DEF GoneOK

(* Nothing that the program can reach is gone. *)
LEMMA AccessibleTells ==
    ASSUME TypeOK, PlacesOK, CollectFrames, ListsOK, GoneOK, FramesFit, NEW W
    PROVE  \A o \in Accessible(W) : o \in Objects /\ ~Gone(o)
<1> DEFINE T == {o \in Objects : ~Gone(o)}
<1>1. \A c \in Held \ W : target[c] \in T
  BY OutsideTarget DEF Held
<1>2. Self \subseteq T
  <2>1. CASE TopOp = "finalizeCc"
    <3>1. /\ Len(stack) \in 1..Len(stack) /\ stack[Len(stack)].op = "finalizeCc"
          /\ Top = stack[Len(stack)]
      BY <2>1, PopIndex
    <3>2. Top.cc \in Ccs /\ owner[Top.cc] = "limbo" /\ target[Top.cc] = Top.obj
      BY <3>1 DEF PlacesOK
    <3> QED BY <2>1, <3>2, OutsideTarget DEF Self
  <2>2. CASE TopOp = "finalizeList"
    <3>1. /\ Len(stack) \in 1..Len(stack) /\ stack[Len(stack)].op = "finalizeList"
          /\ Top = stack[Len(stack)]
      BY <2>2, PopIndex
    <3>2. Top.obj \in nonRootList /\ phase = "finalizing"
      BY <3>1 DEF FramesFit, CollectFrames
    <3> QED BY <2>2, <3>2 DEF Self, ListsOK, TypeOK
  <2>3. CASE TopOp \notin {"finalizeCc", "finalizeList"}
    BY <2>3 DEF Self
  <2> QED BY <2>1, <2>2, <2>3
<1>3. Closed(T)
  <2> SUFFICES ASSUME NEW c \in Ccs, owner[c] \in T PROVE target[c] \in T
    BY DEF Closed
  <2>1. owner[c] \in Objects /\ owner[c] # "nowhere" /\ ~Gone(owner[c])
    BY PlacesAssumption
  <2>2. target[c] \in Objects
    BY <2>1 DEF PlacesOK, TypeOK
  <2> QED BY <2>1, <2>2 DEF GoneOK
<1>4. T \in SUBSET Objects /\ Self \cup {target[c] : c \in Held \ W} \subseteq T
  BY <1>1, <1>2
<1> HIDE DEF T
<1>5. \A o \in Accessible(W) : o \in Objects /\ o \in T
  BY <1>3, <1>4 DEF Accessible, Reachable
<1> QED BY <1>5 DEF T

LEMMA UsableTells ==
    ASSUME TypeOK, StackInv, SafeInv, NEW c \in Ccs, Usable(c)
    PROVE  target[c] \in Objects /\ ~Gone(target[c])
<1> USE PartsOfInv
<1>1. target[c] \in Objects
  BY HeldPlaces
<1>2. CASE owner[c] = "program"
  BY <1>2, OutsideTarget
<1>3. CASE owner[c] \in Accessible({})
  <2>1. owner[c] \in Objects /\ ~Gone(owner[c])
    BY <1>3, AccessibleTells
  <2> QED BY <1>1, <2>1 DEF GoneOK
<1> QED BY <1>2, <1>3 DEF Usable

-----------------------------------------------------------------------------
(* What the top of the stack tells. *)

(* Code of the program, drop glue and unwinding meet the collector between   *)
(* two phases, in finalize_inner or in drop_inner.                           *)
LEMMA NotCollecting ==
    ASSUME TypeOK, StackInv, SafeInv, TopOp # "collect"
    PROVE  /\ phase \in {"idle", "finalizing", "dropping"}
           /\ rootList = {} /\ queue = {} /\ current = "none" /\ todo = {}
           /\ phase = "finalizing" => hasFinalized
           /\ \A o \in Objects : InListOrQueue(o) <=> o \in nonRootList
<1>1. phase \in {"idle", "finalizing", "dropping"} /\ todo = {}
  BY NotTracing, PartsOfInv DEF TypeOK
<1>2. rootList = {} /\ queue = {} /\ current = "none" /\ (phase = "finalizing" => hasFinalized)
  BY <1>1, PartsOfInv DEF PhaseOK
<1>3. \A o \in Objects : InListOrQueue(o) <=> o \in nonRootList
  BY <1>1, <1>2, PartsOfInv DEF MarksMatchLists, InListOrQueue
<1> QED BY <1>1, <1>2, <1>3

LEMMA FrameTells ==
    ASSUME TypeOK, StackInv, SafeInv
    PROVE  /\ TopOp = "dropCc" => Top.obj \in Objects /\ Dropping(Top.obj)
           /\ TopOp = "dropList" => Top.obj \in nonRootList \ work /\ phase = "dropping"
           /\ TopOp = "finalizeCc" =>
                /\ Top.cc \in Ccs /\ owner[Top.cc] = "limbo" /\ target[Top.cc] = Top.obj
                /\ Top.obj \in Objects /\ ~Gone(Top.obj)
           /\ TopOp = "collect" => \A i \in 1..Len(stack) :
                                        stack[i].op \notin {"finalizeList", "dropList"}
<1>1. TopOp # "main" => /\ Len(stack) \in Nat /\ Len(stack) \in 1..Len(stack)
                        /\ Top = stack[Len(stack)] /\ TopOp = stack[Len(stack)].op
  BY PopIndex
<1>2. TopOp = "dropCc" => Top.obj \in Objects /\ Dropping(Top.obj)
  BY <1>1, PartsOfInv DEF FramesFit, PlacesOK
<1>3. TopOp = "dropList" => Top.obj \in nonRootList \ work /\ phase = "dropping"
  BY <1>1, PartsOfInv DEF FramesFit, CollectFrames
<1>4. TopOp = "finalizeCc" =>
        /\ Top.cc \in Ccs /\ owner[Top.cc] = "limbo" /\ target[Top.cc] = Top.obj
        /\ Top.obj \in Objects
  BY <1>1, PartsOfInv DEF PlacesOK
<1>5. TopOp = "finalizeCc" => ~Gone(Top.obj)
  BY <1>4, OutsideTarget, PartsOfInv
<1>6. ASSUME TopOp = "collect", NEW i \in 1..Len(stack), stack[i].op \in {"finalizeList", "dropList"}
      PROVE  FALSE
  <2>1. i > 1 /\ stack[i - 1].op = "collect" /\ i - 1 \in 1..Len(stack)
    BY <1>1, <1>6, PartsOfInv DEF CollectFrames
  <2>2. i - 1 = Len(stack)
    BY <1>1, <1>6, <2>1, PartsOfInv DEF CollectFrames
  <2> QED BY <1>1, <1>6, <2>2
<1> QED BY <1>2, <1>3, <1>4, <1>5, <1>6

(* What Cc::drop runs on is not gone, but values dropped together with the   *)
(* one that owns the pointer.                                                *)
LEMMA DroppableTells ==
    ASSUME TypeOK, StackInv, SafeInv, NEW c \in Ccs, Droppable(c)
    PROVE  /\ target[c] \in Objects /\ owner[c] # "limbo" /\ TopOp # "collect"
           /\ status[target[c]] # "free"
           /\ ~InListOrQueue(target[c]) => ~Gone(target[c]) /\ target[c] \notin nonRootList
<1> USE PartsOfInv
<1>1. TopOp # "collect" /\ target[c] \in Objects /\ owner[c] # "limbo"
  BY TargetType, HeldPlaces DEF Droppable, UserRunning
<1>2. status[target[c]] # "free"
  BY <1>1 DEF GoneOK, Pointing
<1>3. ASSUME ~InListOrQueue(target[c])
      PROVE  ~Gone(target[c]) /\ target[c] \notin nonRootList
  <2>1. target[c] \notin nonRootList
    BY <1>1, <1>3, NotCollecting
  <2>2. CASE owner[c] = "program"
    BY <2>1, <2>2, OutsideTarget
  <2>3. CASE TopOp = "dropCc" /\ owner[c] = Top.obj
    <3>1. c \in Fields(Top.obj)
      BY <2>3 DEF Fields
    <3> QED BY <2>1, <2>3, <3>1, FrameTells DEF Dropping
  <2>4. CASE TopOp = "dropList" /\ owner[c] = Top.obj
    <3>1. owner[c] \in nonRootList /\ phase = "dropping"
      BY <2>4, FrameTells
    <3> QED BY <2>1, <3>1 DEF GoneOK
  <2> QED BY <2>2, <2>3, <2>4 DEF Droppable
<1> QED BY <1>1, <1>2, <1>3

(* Weak::upgrade does not reach what is gone (weak/mod.rs, upgrade).          *)
LEMMA StrongTells ==
    ASSUME TypeOK, StackInv, SafeInv, NEW o \in Objects, status[o] # "free", StrongCount(o) # 0
    PROVE  ~Gone(o)
<1> USE PartsOfInv
<1>1. counter[o] # 0 /\ tracing[o] # DroppedTc /\ ~(InListOrQueue(o) /\ dropping)
  BY DEF StrongCount
<1>2. status[o] = "live"
  BY <1>1 DEF GoneOK, TypeOK
<1>3. ASSUME phase = "dropping", o \in nonRootList
      PROVE  FALSE
  <2>1. InListOrQueue(o)
    BY <1>3 DEF MarksMatchLists, InListOrQueue
  <2>2. PICK i \in 1..Len(stack) : stack[i].op = "collect"
    BY <1>3 DEF CollectFrames, Running
  <2>3. i \in 1..((Len(stack) + 1) - 1)
    BY StackType
  <2>4. dropping
    BY <1>3, <2>2, <2>3 DEF FlagsOK, DroppingBelow, SetsDropping
  <2> QED BY <1>1, <2>1, <2>4
<1> QED BY <1>1, <1>2, <1>3, GoneTells

(* The guards of Cc::try_unwrap hold at top level only (cc.rs).               *)
LEMMA NoFlagNoFrame ==
    ASSUME TypeOK, StackInv, ~collecting, ~finalizing, ~dropping
    PROVE  Len(stack) = 0 /\ phase = "idle"
<1>0. PlacesOK /\ CollectFrames /\ FlagsOK
  BY DEF StackInv
<1>1. stack \in Seq(Frames) /\ Len(stack) \in Nat
  BY StackType
<1>2. \A i \in 1..Len(stack) : stack[i].op # "collect"
  BY <1>0 DEF FlagsOK, Running
<1>3. \A i \in 1..Len(stack) : i \in 1..((Len(stack) + 1) - 1)
  BY <1>1
<1>4. \A i \in 1..Len(stack) : stack[i].op \notin {"finalizeCc", "dropCc"}
  BY <1>0, <1>3 DEF FlagsOK, FinalizingBelow, DroppingBelow, SetsFinalizing, SetsDropping
<1>5. \A i \in 1..Len(stack) : i > 1 => i - 1 \in 1..Len(stack)
  BY <1>1
<1>6. \A i \in 1..Len(stack) : stack[i].op \notin {"finalizeList", "dropList"}
  BY <1>0, <1>2, <1>5 DEF CollectFrames
<1>7. \A i \in 1..Len(stack) : stack[i].op \in FrameOps
  <2>1. \A i \in 1..Len(stack) : stack[i] \in Frames
    BY <1>1
  <2> QED BY <2>1 DEF Frames
<1>8. \A i \in 1..Len(stack) : FALSE
  BY <1>2, <1>4, <1>6, <1>7 DEF FrameOps
<1>9. Len(stack) = 0
  BY <1>1, <1>8
<1>10. phase = "idle"
  BY <1>0, <1>2 DEF CollectFrames, Running
<1> QED BY <1>9, <1>10

-----------------------------------------------------------------------------
(* Steps of the program, of Cc::drop and of drop glue: the collection, if    *)
(* there is one, waits.                                                      *)

(* A pointer stays, ends, or is found afterwards where a pointer to a value  *)
(* that is not gone may be.                                                  *)
PointerStep(d) ==
    \/ owner'[d] = owner[d] /\ target'[d] = target[d]
    \/ owner'[d] = "nowhere" /\ target'[d] = "none"
    \/ /\ target'[d] \in Objects /\ ~Gone(target[d])'
       /\ owner'[d] = "limbo" => target'[d] \notin nonRootList
       /\ owner'[d] \in Objects => ~Gone(owner[d])'

(* A value stays what it was; or is dropped or given back when nothing points *)
(* to it and no list holds it; or comes into existence.                      *)
ValueStep(o) ==
    \/ status'[o] = status[o] /\ (tracing'[o] = DroppedTc <=> tracing[o] = DroppedTc)
    \/ /\ \/ status'[o] = "dropped" /\ tracing'[o] = DroppedTc
          \/ status'[o] = "free" /\ \A d \in Ccs : owner'[d] # o
       /\ o \notin nonRootList /\ o \notin pc'
       /\ \A d \in Ccs : target'[d] # o
    \/ status[o] = "free" /\ ~Gone(o)'

ProgramStep ==
    /\ TopOp # "collect" /\ UNCHANGED <<listVars, loopVars>>
    /\ \A d \in Ccs : PointerStep(d)
    /\ \A o \in Objects : ValueStep(o)
    /\ \A o \in pc' : o \in pc \/ ~Gone(o)'

LEMMA ProgramGone ==
    ASSUME TypeOK, TypeOK', StackInv, PlacesOK', SafeInv, ProgramStep
    PROVE  GoneOK'
<1> USE PartsOfInv
<1>0. phase' = phase /\ nonRootList' = nonRootList
  BY DEF ProgramStep, listVars, loopVars
<1>1. \A o \in Objects : Gone(o)' <=> status'[o] # "live" \/ tracing'[o] = DroppedTc
                                        \/ (phase = "dropping" /\ o \in nonRootList)
  BY <1>0 DEF Gone, Decided
<1>2. \A o \in Objects : Gone(o) <=> status[o] # "live" \/ tracing[o] = DroppedTc
                                       \/ (phase = "dropping" /\ o \in nonRootList)
  BY DEF Gone, Decided
<1>3. ASSUME NEW o \in Objects
      PROVE  /\ status'[o] = "free" => Pointing(o)' = {} /\ Fields(o)' = {}
             /\ status'[o] = "dropped" => tracing'[o] = DroppedTc
  <2>1. ValueStep(o) /\ \A d \in Ccs : PointerStep(d)
    BY DEF ProgramStep
  <2>2. status'[o] = "free" => \A d \in Ccs : target'[d] # o /\ owner'[d] # o
    <3>1. CASE status[o] = "free" /\ status'[o] = "free"
      <4>1. \A d \in Ccs : target[d] # o /\ owner[d] # o
        BY <3>1 DEF GoneOK, Pointing, Fields
      <4>2. Gone(o)'
        BY <1>1, <3>1
      <4> QED BY <2>1, <4>1, <4>2, PlacesAssumption DEF PointerStep
    <3>2. CASE status[o] # "free" /\ status'[o] = "free"
      BY <2>1, <3>2 DEF ValueStep
    <3> QED BY <3>1, <3>2
  <2>3. status'[o] = "dropped" => tracing'[o] = DroppedTc
    BY <1>1, <2>1 DEF ValueStep, GoneOK
  <2> QED BY <2>2, <2>3 DEF Pointing, Fields
<1>4. ASSUME NEW c \in Ccs, target'[c] \in Objects, Gone(target[c])'
      PROVE  owner'[c] \in Objects /\ Gone(owner[c])'
  <2>1. PICK t \in Objects : t = target'[c]
    BY <1>4
  <2>2. PointerStep(c) /\ ValueStep(t)
    BY DEF ProgramStep
  <2>3. owner'[c] = owner[c] /\ target[c] = t
    BY <1>4, <2>1, <2>2, PlacesAssumption DEF PointerStep
  <2>4. status'[t] # "live" \/ tracing'[t] = DroppedTc \/ (phase = "dropping" /\ t \in nonRootList)
    BY <1>1, <1>4, <2>1
  <2>5. Gone(t)
    BY <1>2, <2>1, <2>2, <2>3, <2>4 DEF ValueStep
  <2>6. PICK o \in Objects : o = owner[c] /\ Gone(o)
    BY <1>4, <2>3, <2>5 DEF GoneOK
  <2>7. status[o] # "free"
    BY <2>6 DEF GoneOK, Fields
  <2>8. ValueStep(o)
    BY DEF ProgramStep
  <2>9. status'[o] # "live" \/ tracing'[o] = DroppedTc \/ (phase = "dropping" /\ o \in nonRootList)
    BY <1>2, <2>6, <2>7, <2>8 DEF ValueStep
  <2> QED BY <1>1, <2>3, <2>6, <2>9
<1>5. ASSUME phase' = "dropping", NEW c \in Ccs
      PROVE  /\ target'[c] \in nonRootList' => owner'[c] \in nonRootList'
             /\ owner'[c] \in nonRootList' => target'[c] \in nonRootList' \/ ~Gone(target[c])'
  <2>1. PointerStep(c) /\ nonRootList \subseteq Objects
    BY DEF ProgramStep, TypeOK
  <2>2. \A o \in nonRootList : Gone(o)'
    BY <1>0, <1>1, <1>5, <2>1
  <2>3. CASE owner'[c] = owner[c] /\ target'[c] = target[c]
    <3>1. target[c] \in nonRootList => owner[c] \in nonRootList
      BY <1>0, <1>5 DEF GoneOK
    <3>2. ASSUME owner[c] \in nonRootList, target[c] \notin nonRootList
          PROVE  ~Gone(target[c])'
      <4>1. target[c] \in Objects
        BY <2>1, <3>2, PlacesAssumption DEF PlacesOK, TypeOK
      <4>2. PICK t \in Objects : t = target[c] /\ ~Gone(t)
        BY <1>0, <1>5, <3>2, <4>1 DEF GoneOK
      <4>3. ValueStep(t) /\ target'[c] = t
        BY <2>3, <4>2 DEF ProgramStep
      <4>4. ~(status'[t] # "live" \/ tracing'[t] = DroppedTc \/ (phase = "dropping" /\ t \in nonRootList))
        BY <1>2, <4>2, <4>3 DEF ValueStep
      <4> QED BY <1>1, <4>3, <4>4
    <3> QED BY <1>0, <2>3, <3>1, <3>2
  <2>4. CASE owner'[c] = "nowhere" /\ target'[c] = "none"
    BY <1>0, <2>1, <2>4, PlacesAssumption
  <2>5. CASE target'[c] \in Objects /\ ~Gone(target[c])'
    BY <1>0, <2>2, <2>5
  <2> QED BY <2>1, <2>3, <2>4, <2>5 DEF PointerStep
<1> QED BY <1>3, <1>4, <1>5 DEF GoneOK

LEMMA ProgramLists ==
    ASSUME TypeOK, TypeOK', StackInv, SafeInv, ProgramStep
    PROVE  ListsOK' /\ PhaseOK' /\ TracingOK' /\ TracingExact'
<1> USE PartsOfInv
<1>0. /\ phase' = phase /\ nonRootList' = nonRootList /\ work' = work
      /\ listSize' = listSize /\ hasFinalized' = hasFinalized
      /\ rootList' = {} /\ queue' = {} /\ current' = "none" /\ todo' = {}
      /\ phase \in {"idle", "finalizing", "dropping"} /\ (phase = "finalizing" => hasFinalized)
      /\ nonRootList \subseteq Objects /\ pc' \subseteq Objects
  BY NotCollecting DEF ProgramStep, listVars, loopVars, TypeOK
<1>1. \A o \in Objects : Gone(o)' <=> status'[o] # "live" \/ tracing'[o] = DroppedTc
                                        \/ (phase = "dropping" /\ o \in nonRootList)
  BY <1>0 DEF Gone, Decided
<1>2. \A o \in Objects : Gone(o) <=> status[o] # "live" \/ tracing[o] = DroppedTc
                                       \/ (phase = "dropping" /\ o \in nonRootList)
  BY DEF Gone, Decided
<1>3. \A o \in Objects : ValueStep(o)
  BY DEF ProgramStep
<1>4. ASSUME NEW o \in pc' PROVE ~Gone(o)'
  <2>1. o \in pc \/ ~Gone(o)'
    BY DEF ProgramStep
  <2>2. o \in pc => ~Gone(o)
    BY DEF ListsOK
  <2> QED BY <1>0, <1>1, <1>2, <1>3, <2>1, <2>2 DEF ValueStep
<1>5. ASSUME phase # "dropping", NEW o \in nonRootList PROVE ~Gone(o)'
  <2>1. ~Gone(o)
    BY <1>5 DEF ListsOK
  <2> QED BY <1>0, <1>1, <1>2, <1>3, <2>1 DEF ValueStep
<1>6. ListsOK'
  BY <1>0, <1>4, <1>5 DEF ListsOK
<1>7. ASSUME phase = "dropping", NEW o \in nonRootList
      PROVE  status'[o] = status[o]
  <2>1. status[o] # "free"
    BY <1>7 DEF PhaseOK
  <2> QED BY <1>0, <1>3, <1>7, <2>1 DEF ValueStep
<1>8. PhaseOK'
  BY <1>0, <1>7 DEF PhaseOK
<1>9. TracingOK' /\ TracingExact'
  BY <1>0 DEF TracingOK, TracingExact
<1> QED BY <1>6, <1>8, <1>9

(* The frames up to m stay, and the values whose drop glue they run are still *)
(* dropped; a new frame on top runs a finalizer, or the drop glue of a value *)
(* that nobody points to.  Glue that ended has dropped every field.          *)
FramesStep(m) ==
    /\ KeepsBelow(m)
    /\ \A i \in 1..m : stack[i].op = "dropCc" => status'[stack[i].obj] = "dropped"
    /\ Len(stack') = m + 1 =>
        \/ /\ m + 1 <= Len(stack)
           /\ stack'[m + 1].op = stack[m + 1].op /\ stack'[m + 1].obj = stack[m + 1].obj
           /\ stack[m + 1].op = "dropCc" => status'[stack[m + 1].obj] = "dropped"
        \/ stack'[m + 1].op = "finalizeCc"
        \/ /\ stack'[m + 1].op = "dropCc"
           /\ \E o \in Objects : stack'[m + 1].obj = o /\ status[o] = "live" /\ Dropping(o)'
    /\ \A i \in (m + 1)..Len(stack) : stack[i].op = "dropList" =>
        \/ Fields(stack[i].obj) = {}
        \/ i <= Len(stack') /\ stack'[i].op = "dropList" /\ stack'[i].obj = stack[i].obj

LEMMA DroppingStays ==
    ASSUME TypeOK, TypeOK', StackInv, SafeInv, ProgramStep,
           NEW o \in Objects, Dropping(o), status'[o] = "dropped"
    PROVE  Dropping(o)'
<1> USE PartsOfInv
<1>0. phase' = phase /\ nonRootList' = nonRootList
  BY DEF ProgramStep, listVars, loopVars
<1>1. Gone(o)'
  BY DEF Gone
<1>2. \A d \in Ccs : PointerStep(d)
  BY DEF ProgramStep
<1>3. ASSUME NEW d \in Ccs PROVE target'[d] # o
  BY <1>1, <1>2, PlacesAssumption DEF PointerStep, Dropping, Pointing
<1>4. ASSUME NEW d \in Ccs, owner'[d] = o PROVE ~Gone(target[d])'
  <2>1. CASE owner'[d] = owner[d] /\ target'[d] = target[d]
    <3>1. target[d] \in Objects /\ ~Gone(target[d])
      BY <1>4, <2>1, PlacesAssumption DEF Dropping, Fields, PlacesOK, TypeOK
    <3>2. PICK t \in Objects : t = target[d] /\ ~Gone(t)
      BY <3>1
    <3>3. ValueStep(t) /\ target'[d] = t
      BY <2>1, <3>2 DEF ProgramStep
    <3>4. ~Gone(t)'
      BY <1>0, <3>2, <3>3 DEF ValueStep, Gone, Decided
    <3> QED BY <3>3, <3>4
  <2> QED BY <1>2, <1>4, <2>1, PlacesAssumption DEF PointerStep
<1>5. status'[o] = "dropped" /\ o \notin nonRootList'
  BY <1>0 DEF Dropping
<1>6. Pointing(o)' = {} /\ \A c \in Fields(o)' : ~Gone(target[c])'
  BY <1>3, <1>4 DEF Pointing, Fields
<1> QED BY <1>5, <1>6 DEF Dropping

LEMMA ProgramFrames ==
    ASSUME TypeOK, TypeOK', StackInv, PlacesOK', SafeInv, ProgramStep, NEW m, FramesStep(m)
    PROVE  FramesFit' /\ GlueEmpties' /\ NonRootOK'
<1> USE PartsOfInv
<1>0. /\ phase' = phase /\ nonRootList' = nonRootList /\ work' = work
      /\ hasFinalized' = hasFinalized /\ (phase = "finalizing" => hasFinalized)
      /\ nonRootList \subseteq Objects /\ Len(stack) \in Nat
  BY NotCollecting, StackType DEF ProgramStep, listVars, loopVars, TypeOK
<1>1. /\ m \in Nat /\ m <= Len(stack) /\ Len(stack') \in {m, m + 1}
      /\ \A i \in 1..m : i \in 1..Len(stack) /\ stack'[i] = stack[i]
      /\ \A i \in 1..Len(stack') : i \in 1..m \/ (i = m + 1 /\ Len(stack') = m + 1)
      /\ m + 1 <= Len(stack) => m + 1 \in 1..Len(stack)
  BY <1>0 DEF FramesStep, KeepsBelow
<1>2. ASSUME NEW i \in 1..Len(stack), stack[i].op = "dropCc",
             status'[stack[i].obj] = "dropped", stack'[i].obj = stack[i].obj
      PROVE  Dropping(stack[i].obj)'
  <2>1. PICK o \in Objects : o = stack[i].obj /\ Dropping(o)
    BY <1>2 DEF FramesFit, PlacesOK
  <2>2. Dropping(o)'
    BY <1>2, <2>1, DroppingStays
  <2> QED BY <1>2, <2>1, <2>2
<1>3. ASSUME NEW i \in 1..m
      PROVE  /\ stack'[i].op = "dropCc" => Dropping(stack[i].obj)'
             /\ stack'[i].op \in {"finalizeList", "dropList"} => stack'[i].obj \in nonRootList' \ work'
  <2>1. i \in 1..Len(stack) /\ stack'[i] = stack[i]
    BY <1>1
  <2>2. stack[i].op = "dropCc" => status'[stack[i].obj] = "dropped"
    BY DEF FramesStep
  <2>3. stack[i].op \in {"finalizeList", "dropList"} => stack[i].obj \in nonRootList \ work
    BY <2>1 DEF FramesFit
  <2>4. stack'[i].op = "dropCc" => Dropping(stack[i].obj)'
    BY <1>2, <2>1, <2>2
  <2> QED BY <1>0, <2>1, <2>3, <2>4
<1>4. ASSUME NEW i, i = m + 1, Len(stack') = m + 1
      PROVE  /\ stack'[i].op = "dropCc" => Dropping(stack[i].obj)'
             /\ stack'[i].op \in {"finalizeList", "dropList"} => stack'[i].obj \in nonRootList' \ work'
  <2>1. CASE /\ i <= Len(stack) /\ stack'[i].op = stack[i].op /\ stack'[i].obj = stack[i].obj
             /\ stack[i].op = "dropCc" => status'[stack[i].obj] = "dropped"
    <3>1. i \in 1..Len(stack)
      BY <1>1, <1>4, <2>1
    <3>2. stack[i].op \in {"finalizeList", "dropList"} => stack[i].obj \in nonRootList \ work
      BY <3>1 DEF FramesFit
    <3>3. stack'[i].op = "dropCc" => Dropping(stack[i].obj)'
      BY <1>2, <2>1, <3>1
    <3> QED BY <1>0, <2>1, <3>2, <3>3
  <2>2. CASE stack'[i].op = "finalizeCc"
    BY <2>2
  <2>3. CASE /\ stack'[i].op = "dropCc"
             /\ \E o \in Objects : stack'[i].obj = o /\ status[o] = "live" /\ Dropping(o)'
    <3>1. PICK o \in Objects : stack'[i].obj = o /\ Dropping(o)'
      BY <2>3
    <3>2. Dropping(stack[i].obj)'
      BY <3>1
    <3> QED BY <2>3, <3>2
  <2> QED BY <1>4, <2>1, <2>2, <2>3 DEF FramesStep
<1>5. ASSUME NEW i \in 1..m, NEW j, j = m + 1, Len(stack') = m + 1,
             stack'[i].op = "dropCc", stack'[j].op = "dropCc", stack'[i].obj = stack'[j].obj
      PROVE  FALSE
  <2>1. i \in 1..Len(stack) /\ stack'[i] = stack[i] /\ i # j
    BY <1>1, <1>5
  <2>2. status[stack[i].obj] = "dropped"
    BY <1>5, <2>1 DEF FramesFit, Dropping
  <2>3. CASE j <= Len(stack) /\ stack'[j].op = stack[j].op /\ stack'[j].obj = stack[j].obj
    <3>1. j \in 1..Len(stack)
      BY <1>1, <1>5, <2>3
    <3> QED BY <1>5, <2>1, <2>3, <3>1 DEF FramesFit
  <2>4. CASE stack'[j].op = "finalizeCc"
    BY <1>5, <2>4
  <2>5. CASE \E o \in Objects : stack'[j].obj = o /\ status[o] = "live" /\ Dropping(o)'
    BY <1>5, <2>1, <2>2, <2>5
  <2> QED BY <1>5, <2>3, <2>4, <2>5 DEF FramesStep
<1>6. ASSUME NEW i \in 1..m, NEW j \in 1..m,
             stack'[i].op = "dropCc", stack'[j].op = "dropCc", stack'[i].obj = stack'[j].obj
      PROVE  i = j
  BY <1>1, <1>6 DEF FramesFit
<1>7. FramesFit'
  <2>1. \A i \in 1..Len(stack') :
            /\ stack'[i].op = "dropCc" => Dropping(stack[i].obj)'
            /\ stack'[i].op \in {"finalizeList", "dropList"} => stack'[i].obj \in nonRootList' \ work'
    BY <1>1, <1>3, <1>4
  <2>2. \A i, j \in 1..Len(stack') :
            stack'[i].op = "dropCc" /\ stack'[j].op = "dropCc" /\ stack'[i].obj = stack'[j].obj
                => i = j
    BY <1>1, <1>5, <1>6
  <2> QED BY <2>1, <2>2 DEF FramesFit
<1>8. ASSUME phase = "dropping", NEW o \in nonRootList \ work
      PROVE  Fields(o)' = {} \/ ListGlue(o)'
  <2>1. Gone(o)' /\ o \in Objects
    BY <1>0, <1>8 DEF Gone, Decided
  <2>2. \A d \in Ccs : PointerStep(d)
    BY DEF ProgramStep
  <2>3. Fields(o)' \subseteq Fields(o)
    BY <2>1, <2>2, PlacesAssumption DEF PointerStep, Fields
  <2>4. ASSUME ListGlue(o), Fields(o) # {}
        PROVE  ListGlue(o)'
    <3>1. PICK i \in 1..Len(stack) : stack[i].op = "dropList" /\ stack[i].obj = o
      BY <2>4 DEF ListGlue
    <3>2. CASE i \in 1..m
      <4>1. i \in 1..Len(stack') /\ stack'[i] = stack[i]
        BY <1>1, <3>2
      <4> QED BY <3>1, <4>1 DEF ListGlue
    <3>3. CASE i \notin 1..m
      <4>1. i \in (m + 1)..Len(stack)
        BY <1>0, <1>1, <3>3
      <4>2. i <= Len(stack') /\ stack'[i].op = "dropList" /\ stack'[i].obj = stack[i].obj
        BY <2>4, <3>1, <4>1 DEF FramesStep
      <4>3. i \in 1..Len(stack')
        BY <1>1, <4>2
      <4> QED BY <3>1, <4>2, <4>3 DEF ListGlue
    <3> QED BY <3>2, <3>3
  <2> QED BY <1>8, <2>3, <2>4 DEF GlueEmpties
<1>9. GlueEmpties'
  BY <1>0, <1>8 DEF GlueEmpties
<1>10. ASSUME phase \in {"finalizing", "dropping"}, NEW c \in Ccs, owner'[c] = "limbo"
       PROVE  target'[c] \notin nonRootList'
  <2>1. PointerStep(c)
    BY DEF ProgramStep
  <2> QED BY <1>0, <1>10, <2>1, PlacesAssumption DEF PointerStep, NonRootOK
<1>11. NonRootOK'
  BY <1>0, <1>10 DEF NonRootOK
<1> QED BY <1>7, <1>9, <1>11

LEMMA ProgramSafe ==
    ASSUME TypeOK, TypeOK', StackInv, StackInv', SafeInv, ProgramStep, NEW m, FramesStep(m),
           CounterExact', MarksMatchLists'
    PROVE  SafeInv'
<1>1. PlacesOK'
  BY DEF StackInv
<1>2. GoneOK'
  BY <1>1, ProgramGone
<1>3. ListsOK' /\ PhaseOK' /\ TracingOK' /\ TracingExact'
  BY ProgramLists
<1>4. FramesFit' /\ GlueEmpties' /\ NonRootOK'
  BY <1>1, ProgramFrames
<1> QED BY <1>2, <1>3, <1>4 DEF SafeInv

(* No frame comes or goes. *)
LEMMA FramesStay ==
    ASSUME TypeOK, StackInv, SafeInv, UNCHANGED <<stack, phase>>,
           \A o \in Objects : status[o] = "dropped" => status'[o] = "dropped"
    PROVE  FramesStep(Len(stack))
<1>1. KeepsBelow(Len(stack)) /\ Len(stack') = Len(stack) /\ Len(stack) \in Nat
  BY KeepsStay, StackType
<1>2. \A i \in 1..Len(stack) : stack[i].op = "dropCc" => status'[stack[i].obj] = "dropped"
  BY PartsOfInv DEF FramesFit, Dropping, PlacesOK
<1> QED BY <1>1, <1>2 DEF FramesStep

(* A frame without drop glue, or whose glue has dropped every field, ends.   *)
LEMMA FramesPopped ==
    ASSUME TypeOK, StackInv, SafeInv, TopOp # "main", stack' = Popped, phase' = phase,
           TopOp = "dropList" => Fields(Top.obj) = {},
           \A i \in 1..(Len(stack) - 1) :
                stack[i].op = "dropCc" => status'[stack[i].obj] = "dropped"
    PROVE  FramesStep(Len(stack) - 1)
<1> DEFINE m == Len(stack) - 1
<1>1. KeepsBelow(m) /\ Len(stack') = m /\ Len(stack) \in Nat /\ m \in Nat /\ m + 1 = Len(stack)
  BY KeepsPop, StackType, PopIndex, PartsOfInv
<1>2. Top = stack[Len(stack)] /\ TopOp = Top.op
  BY PopIndex
<1>3. \A i \in (m + 1)..Len(stack) : stack[i].op = "dropList" => Fields(stack[i].obj) = {}
  BY <1>1, <1>2
<1> HIDE DEF m
<1>4. \A i \in 1..m : stack[i].op = "dropCc" => status'[stack[i].obj] = "dropped"
  BY DEF m
<1>5. Len(stack') # m + 1
  BY <1>1
<1>6. FramesStep(m)
  BY <1>1, <1>3, <1>4, <1>5 DEF FramesStep
<1> QED BY <1>6 DEF m

-----------------------------------------------------------------------------
(* The operations of the program. *)

(* Nothing happens to the values but finalized flags, and to the pointers. *)
LEMMA QuietSafe ==
    ASSUME TypeOK, TypeOK', StackInv, StackInv', SafeInv, TopOp # "collect",
           UNCHANGED <<status, counter, tracing, owner, target, listVars, loopVars, stack>>,
           \/ UNCHANGED <<mark, pcVars>>
           \/ \E o \in Objects : RemoveFromList(o)
    PROVE  SafeInv'
<1>1. UNCHANGED <<phase, current>>
  BY DEF loopVars
<1>2. \A d \in Ccs : PointerStep(d)
  BY DEF PointerStep
<1>3. \A o \in Objects : ValueStep(o)
  BY DEF ValueStep
<1>4. \A o \in pc' : o \in pc
  BY DEF RemoveFromList, pcVars
<1>5. ProgramStep
  BY <1>2, <1>3, <1>4 DEF ProgramStep
<1>6. FramesStep(Len(stack))
  BY <1>1, FramesStay
<1>7. CounterExact'
  BY PartsOfInv, CounterStays
<1>8. MarksMatchLists'
  BY <1>1, PartsOfInv, MarksStay, MarksRemove
<1> QED BY <1>5, <1>6, <1>7, <1>8, ProgramSafe

LEMMA GoneStays ==
    ASSUME NEW o, UNCHANGED <<phase, nonRootList>>, status'[o] = status[o],
           tracing'[o] = DroppedTc <=> tracing[o] = DroppedTc
    PROVE  Gone(o)' <=> Gone(o)
BY DEF Gone, Decided

LEMMA PointerTo ==
    ASSUME NEW d \in Ccs, NEW t \in Objects, target'[d] = t, ~Gone(t)',
           owner'[d] \in {"program", "limbo"}, owner'[d] = "limbo" => t \notin nonRootList
    PROVE  PointerStep(d)
BY PlacesAssumption DEF PointerStep

LEMMA NewPointerSafe ==
    ASSUME TypeOK, TypeOK', StackInv, StackInv', SafeInv, UserRunning,
           NEW d \in Ccs, NEW o \in Objects, ~Gone(o), NewPointer(d, o)
    PROVE  SafeInv'
<1>0. TopOp # "collect" /\ status[o] # "free"
  BY GoneTells DEF UserRunning
<1>1. /\ UNCHANGED <<status, tracing, listVars, loopVars, stack, phase, current, nonRootList>>
      /\ RemoveFromList(o) /\ owner[d] = "nowhere"
      /\ \A c \in Ccs : /\ owner'[c] = IF c = d THEN "program" ELSE owner[c]
                        /\ target'[c] = IF c = d THEN o ELSE target[c]
      /\ \A x \in Objects : counter'[x] = IF x = o THEN counter[x] + 1 ELSE counter[x]
  BY DEF NewPointer, listVars, loopVars, callVars, TypeOK
<1>2. \A c \in Ccs : PointerStep(c)
  <2>1. ~Gone(o)'
    BY <1>1, GoneStays
  <2>2. PointerStep(d)
    BY <1>1, <2>1, PointerTo
  <2>3. \A c \in Ccs \ {d} : PointerStep(c)
    BY <1>1 DEF PointerStep
  <2> QED BY <2>2, <2>3
<1>3. \A x \in Objects : ValueStep(x)
  BY <1>1 DEF ValueStep
<1>4. \A x \in pc' : x \in pc
  BY <1>1 DEF RemoveFromList
<1>5. ProgramStep
  BY <1>0, <1>1, <1>2, <1>3, <1>4 DEF ProgramStep
<1>6. FramesStep(Len(stack))
  BY <1>1, FramesStay
<1>7. CounterExact'
  <2>1. target[d] = "none"
    BY <1>1, PartsOfInv DEF PlacesOK
  <2> QED BY <1>0, <1>1, <2>1, PartsOfInv, CounterGains
<1>8. MarksMatchLists'
  BY <1>1, PartsOfInv, MarksRemove
<1> QED BY <1>5, <1>6, <1>7, <1>8, ProgramSafe

LEMMA NewSafe ==
    ASSUME TypeOK, TypeOK', StackInv, StackInv', SafeInv, NEW c \in Ccs, NEW o \in Objects, New(c, o)
    PROVE  SafeInv'
<1> USE PartsOfInv
<1>0. TopOp # "collect" /\ status[o] = "free" /\ owner[c] = "nowhere" /\ target[c] = "none"
  BY DEF New, UserRunning, PlacesOK
<1>1. /\ UNCHANGED <<pcVars, listVars, loopVars, stack, phase, current, nonRootList, pc>>
      /\ \A d \in Ccs : /\ owner'[d] = IF d = c THEN "program" ELSE owner[d]
                        /\ target'[d] = IF d = c THEN o ELSE target[d]
      /\ \A x \in Objects : /\ status'[x] = IF x = o THEN "live" ELSE status[x]
                            /\ counter'[x] = IF x = o THEN 1 ELSE counter[x]
                            /\ tracing'[x] = IF x = o THEN 1 ELSE tracing[x]
                            /\ mark'[x] = IF x = o THEN "NonMarked" ELSE mark[x]
      /\ mark' \in [Objects -> Marks]
  BY DEF New, listVars, loopVars, pcVars, callVars, TypeOK
<1>2. Gone(o) /\ Pointing(o) = {} /\ Fields(o) = {}
  BY <1>0, GoneTells DEF GoneOK
<1>3. o \notin pc /\ o \notin nonRootList
  BY <1>0, <1>2 DEF ListsOK, PhaseOK
<1>4. mark' = mark
  <2>1. mark[o] = "NonMarked"
    BY <1>0, <1>3, NotCollecting DEF MarksMatchLists, InListOrQueue, TypeOK, Marks
  <2>2. mark \in [Objects -> Marks] /\ \A x \in Objects : mark'[x] = mark[x]
    BY <1>1, <2>1 DEF TypeOK
  <2> QED BY <1>1, <2>2
<1>5. ~Gone(o)'
  <2>1. DroppedTc # 1
    BY MaxCountAssumption DEF DroppedTc
  <2> QED BY <1>1, <1>3, <2>1 DEF Gone, Decided
<1>6. \A d \in Ccs : PointerStep(d)
  <2>1. PointerStep(c)
    BY <1>1, <1>5, PointerTo
  <2>2. \A d \in Ccs \ {c} : PointerStep(d)
    BY <1>1 DEF PointerStep
  <2> QED BY <2>1, <2>2
<1>7. \A x \in Objects : ValueStep(x)
  <2>1. \A x \in Objects \ {o} : ValueStep(x)
    BY <1>1 DEF ValueStep
  <2>2. ValueStep(o)
    BY <1>0, <1>5 DEF ValueStep
  <2> QED BY <2>1, <2>2
<1>8. ProgramStep
  BY <1>0, <1>1, <1>6, <1>7 DEF ProgramStep
<1>9. FramesStep(Len(stack))
  BY <1>0, <1>1, FramesStay
<1>10. CounterExact'
  <2>1. counter'[o] = 1 /\ \A d \in Ccs : target'[d] = o <=> d = c
    BY <1>1, <1>2 DEF Pointing
  <2>2. \A x \in Objects \ {o} : /\ status'[x] = status[x] /\ counter'[x] = counter[x]
                                 /\ \A d \in Ccs : target'[d] = x <=> target[d] = x
    BY <1>0, <1>1, PlacesAssumption
  <2> QED BY <2>1, <2>2, CounterStep
<1>11. MarksMatchLists'
  BY <1>1, <1>4, MarksStay
<1> QED BY <1>8, <1>9, <1>10, <1>11, ProgramSafe

(* Nothing happens but to panicking and to variables no invariant is about.  *)
LEMMA SafeStays ==
    ASSUME SafeInv, UNCHANGED <<status, counter, tracing, mark, ccVars, pcVars, listVars, stack>>,
           UNCHANGED <<phase, current, todo, work, listSize, hasFinalized>>
    PROVE  SafeInv'
<1> USE DEF ccVars, pcVars, listVars
<1>1. PhaseOK' /\ ListsOK' /\ NonRootOK'
  BY DEF SafeInv, PhaseOK, ListsOK, NonRootOK, Gone, Decided, TopOp, Top
<1>2. GoneOK'
  BY DEF SafeInv, GoneOK, Gone, Decided, Pointing, Fields
<1>3. FramesFit' /\ GlueEmpties'
  BY DEF SafeInv, FramesFit, GlueEmpties, Dropping, Gone, Decided, Pointing, Fields, ListGlue
<1>4. TracingOK' /\ TracingExact'
  <2>1. Traced' = Traced
    BY DEF Traced, TracedFields, Fields
  <2>2. TracingExact'
    BY <2>1 DEF SafeInv, TracingExact, Pointing
  <2>3. TracingOK'
    <3>1. /\ \A o \in Objects : mark'[o] = "NonMarked" => (Traced \cap Pointing(o))' = Traced \cap Pointing(o)
          /\ \A c \in Ccs : owner'[c] \in (rootList \cup nonRootList \cup queue)' =>
                TracedFields(owner[c])' = TracedFields(owner[c])
          /\ current' # "none" => TracedFields(current)' = TracedFields(current)
      BY <2>1 DEF TracedFields, Fields, Pointing
    <3> QED BY <3>1 DEF SafeInv, TracingOK, AllTraced
  <2> QED BY <2>2, <2>3
<1>5. CounterExact' /\ MarksMatchLists'
  BY DEF SafeInv, CounterExact, MarksMatchLists, Pointing
<1> QED BY <1>1, <1>2, <1>3, <1>4, <1>5 DEF SafeInv

(* A Cc that points to nothing gone is moved to a place that is not gone.    *)
LEMMA MoveSafe ==
    ASSUME TypeOK, TypeOK', StackInv, StackInv', SafeInv, TopOp # "collect",
           NEW c \in Ccs, NEW v, owner' = [owner EXCEPT ![c] = v],
           target[c] \in Objects, ~Gone(target[c]),
           v = "program" \/ (v \in Objects /\ ~Gone(v)),
           UNCHANGED <<target, boxVars, pcVars, listVars, loopVars, stack>>
    PROVE  SafeInv'
<1>1. /\ UNCHANGED <<status, counter, tracing, mark, phase, current, nonRootList, pc>>
      /\ \A d \in Ccs : owner'[d] = IF d = c THEN v ELSE owner[d]
  BY DEF boxVars, listVars, loopVars, pcVars, TypeOK
<1>2. \A o \in Objects : Gone(o)' <=> Gone(o)
  BY <1>1, GoneStays
<1>3. PointerStep(c)
  <2>1. target'[c] \in Objects /\ owner'[c] = v /\ v # "limbo"
    BY <1>1, PlacesAssumption
  <2>2. ~Gone(target[c])'
    BY <1>2
  <2>3. v \in Objects => ~Gone(owner[c])'
    BY <1>2, <2>1, PlacesAssumption
  <2> QED BY <2>1, <2>2, <2>3 DEF PointerStep
<1>4. \A d \in Ccs : PointerStep(d)
  <2>1. \A d \in Ccs \ {c} : PointerStep(d)
    BY <1>1 DEF PointerStep
  <2> QED BY <1>3, <2>1
<1>5. \A o \in Objects : ValueStep(o)
  BY <1>1 DEF ValueStep
<1>6. ProgramStep
  BY <1>1, <1>4, <1>5 DEF ProgramStep
<1>7. FramesStep(Len(stack))
  BY <1>1, FramesStay
<1>8. CounterExact'
  BY <1>1, PartsOfInv, CounterStays
<1>9. MarksMatchLists'
  BY <1>1, PartsOfInv, MarksStay
<1> QED BY <1>6, <1>7, <1>8, <1>9, ProgramSafe

LEMMA UnwrapSafe ==
    ASSUME TypeOK, TypeOK', StackInv, StackInv', SafeInv, NEW c \in Ccs, TryUnwrap(c)
    PROVE  SafeInv'
<1> USE PartsOfInv
<1>0. PICK t \in Objects : t = target[c]
  BY OutsideTarget DEF TryUnwrap
<1>1. t \in Objects /\ ~Gone(t) /\ status[t] = "live"
  BY <1>0, OutsideTarget, GoneTells DEF TryUnwrap
<1>2. TopOp # "collect" /\ phase = "idle" /\ nonRootList = {}
  BY NoFlagNoFrame DEF TryUnwrap, UserRunning, PhaseOK
<1>3. /\ UNCHANGED <<listVars, loopVars, stack, phase, current, nonRootList>>
      /\ RemoveFromList(t) /\ owner[c] = "program" /\ counter[t] = 1
      /\ \A d \in Ccs : target'[d] = IF d = c THEN "none" ELSE target[d]
      /\ \A d \in Ccs : owner'[d] = IF d = c THEN "nowhere"
                                    ELSE IF owner[d] = t THEN "program" ELSE owner[d]
      /\ \A x \in Objects : status'[x] = IF x = t THEN "free" ELSE status[x]
      /\ \A x \in Objects : counter'[x] = IF x = t THEN 0 ELSE counter[x]
      /\ \A x \in Objects : tracing'[x] = IF x = t THEN 0 ELSE tracing[x]
  BY <1>0 DEF TryUnwrap, Dealloc, listVars, loopVars, callVars, TypeOK
<1>4. \A d \in Ccs : target[d] = t => d = c
  BY <1>0, <1>1, <1>3, CounterTells
<1>5. ASSUME NEW d \in Ccs PROVE PointerStep(d)
  <2>1. CASE d = c
    BY <1>3, <2>1 DEF PointerStep
  <2>2. CASE d # c /\ owner[d] = t
    <3>1. target[d] \in Objects /\ target[d] # t
      BY <1>1, <1>4, <2>2, PlacesAssumption DEF PlacesOK, TypeOK
    <3>2. PICK u \in Objects : u = target[d] /\ u # t /\ ~Gone(u)
      BY <1>1, <2>2, <3>1 DEF GoneOK
    <3>3. ~Gone(u)'
      BY <1>3, <3>2, GoneStays
    <3>4. target'[d] = u /\ owner'[d] = "program"
      BY <1>3, <2>2, <3>2
    <3> QED BY <3>3, <3>4, PointerTo
  <2>3. CASE d # c /\ owner[d] # t
    BY <1>3, <2>3 DEF PointerStep
  <2> QED BY <2>1, <2>2, <2>3
<1>6. t \notin pc'
  BY <1>1, <1>3 DEF RemoveFromList, MarksMatchLists
<1>7. \A x \in Objects : ValueStep(x)
  <2>1. \A x \in Objects \ {t} : ValueStep(x)
    BY <1>3 DEF ValueStep
  <2>2. \A d \in Ccs : target'[d] # t /\ owner'[d] # t
    BY <1>1, <1>3, <1>4, PlacesAssumption
  <2>3. ValueStep(t)
    BY <1>1, <1>2, <1>3, <1>6, <2>2 DEF ValueStep
  <2> QED BY <2>1, <2>3
<1>8. \A x \in pc' : x \in pc
  BY <1>3 DEF RemoveFromList
<1>9. ProgramStep
  BY <1>2, <1>3, <1>5, <1>7, <1>8 DEF ProgramStep
<1>10. FramesStep(Len(stack))
  BY <1>1, <1>3, FramesStay
<1>11. CounterExact'
  <2>1. \A x \in Objects \ {t} : /\ status'[x] = status[x] /\ counter'[x] = counter[x]
                                 /\ \A d \in Ccs : target'[d] = x <=> target[d] = x
    BY <1>0, <1>3, PlacesAssumption
  <2>2. status'[t] = "free"
    BY <1>1, <1>3
  <2> QED BY <2>1, <2>2, CounterStep
<1>12. MarksMatchLists'
  BY <1>1, <1>3, MarksRemove
<1> QED BY <1>9, <1>10, <1>11, <1>12, ProgramSafe

-----------------------------------------------------------------------------
(* Cc::drop. *)

(* A Cc is discarded: its target loses a pointer, and no value changes.      *)
LEMMA DiscardPointers ==
    ASSUME TypeOK, NEW c \in Ccs, Discard(c)
    PROVE  /\ \A d \in Ccs : PointerStep(d)
           /\ \A d \in Ccs : target'[d] = IF d = c THEN "none" ELSE target[d]
           /\ \A d \in Ccs : owner'[d] = IF d = c THEN "nowhere" ELSE owner[d]
<1>1. /\ \A d \in Ccs : target'[d] = IF d = c THEN "none" ELSE target[d]
      /\ \A d \in Ccs : owner'[d] = IF d = c THEN "nowhere" ELSE owner[d]
  BY DEF Discard, TypeOK
<1>2. \A d \in Ccs : PointerStep(d)
  BY <1>1 DEF PointerStep
<1> QED BY <1>1, <1>2

LEMMA ListedSafe ==
    ASSUME TypeOK, TypeOK', StackInv, StackInv', SafeInv, NEW c \in Ccs, DropListed(c)
    PROVE  SafeInv'
<1> USE PartsOfInv
<1>0. PICK t \in Objects : t = target[c]
  BY DroppableTells DEF DropListed
<1>1. t \in Objects /\ TopOp # "collect" /\ status[t] # "free"
  BY <1>0, DroppableTells DEF DropListed
<1>2. /\ UNCHANGED <<status, tracing, mark, pcVars, listVars, loopVars, stack, phase, current, pc>>
      /\ Discard(c)
      /\ \A x \in Objects : counter'[x] = IF x = t THEN Decrement(counter[x]) ELSE counter[x]
  BY <1>0, <1>1 DEF DropListed, listVars, loopVars, pcVars, callVars, TypeOK
<1>3. \A o \in Objects : ValueStep(o)
  BY <1>2 DEF ValueStep
<1>4. ProgramStep
  BY <1>1, <1>2, <1>3, DiscardPointers DEF ProgramStep
<1>5. FramesStep(Len(stack))
  BY <1>2, FramesStay
<1>6. CounterExact'
  BY <1>0, <1>1, <1>2, CounterLoses
<1>7. MarksMatchLists'
  BY <1>2, MarksStay
<1> QED BY <1>4, <1>5, <1>6, <1>7, ProgramSafe

(* handle_possible_cycle, on a value that is not gone. *)
LEMMA PossibleCycleStep ==
    ASSUME TypeOK, TypeOK', StackInv, SafeInv, TopOp # "collect", NEW c \in Ccs,
           target[c] \in Objects, ~Gone(target[c]), ~InListOrQueue(target[c]),
           HandlePossibleCycle(c), UNCHANGED <<status, listVars, loopVars>>
    PROVE  ProgramStep /\ CounterExact' /\ MarksMatchLists'
<1> USE PartsOfInv
<1>0. PICK t \in Objects : t = target[c]
  OBVIOUS
<1>1. t \in Objects /\ status[t] = "live" /\ tracing[t] # DroppedTc
  BY <1>0, GoneTells
<1>2. /\ UNCHANGED <<phase, current, nonRootList>>
      /\ Discard(c) /\ AddToList(t)
      /\ \A x \in Objects : counter'[x] = IF x = t THEN Decrement(counter[x]) ELSE counter[x]
  BY <1>0, <1>1 DEF HandlePossibleCycle, listVars, loopVars, TypeOK
<1>3. /\ \A x \in Objects : x # t => tracing'[x] = tracing[x]
      /\ tracing'[t] = tracing[t] \/ tracing'[t] = 0
      /\ pc' \subseteq pc \cup {t}
  BY <1>1, <1>2 DEF AddToList, TypeOK
<1>4. DroppedTc # 0
  BY MaxCountAssumption DEF DroppedTc
<1>5. \A o \in Objects : ValueStep(o)
  BY <1>1, <1>3, <1>4 DEF ValueStep
<1>6. ~Gone(t)'
  <2>1. ~Gone(t)
    BY <1>0
  <2> QED BY <1>1, <1>2, <1>3, <1>4, <2>1, GoneStays
<1>7. \A o \in pc' : o \in pc \/ ~Gone(o)'
  BY <1>3, <1>6
<1>8. ProgramStep
  BY <1>2, <1>5, <1>7, DiscardPointers DEF ProgramStep
<1>9. CounterExact'
  BY <1>0, <1>1, <1>2, CounterLoses
<1>10. MarksMatchLists'
  BY <1>0, <1>1, <1>2, MarksAdd
<1> QED BY <1>8, <1>9, <1>10

(* The drop glue of a value starts when its last pointer c goes away. *)
LEMMA DropValueStep ==
    ASSUME TypeOK, TypeOK', StackInv, SafeInv, TopOp # "collect", NEW c \in Ccs, NEW below,
           target[c] \in Objects, ~Gone(target[c]), target[c] \notin nonRootList,
           counter[target[c]] = 1, DropValue(c, below)
    PROVE  /\ ProgramStep /\ CounterExact' /\ MarksMatchLists'
           /\ \A o \in Objects : o = target[c] => Dropping(o)' /\ status[o] = "live"
           /\ \A o \in Objects : status[o] = "dropped" => status'[o] = "dropped"
<1> USE PartsOfInv
<1>0. PICK t \in Objects : t = target[c]
  OBVIOUS
<1>1. t \in Objects /\ status[t] = "live" /\ tracing[t] # DroppedTc /\ ~Gone(t) /\ t \notin nonRootList
  BY <1>0, GoneTells
<1>2. /\ UNCHANGED <<listVars, loopVars, phase, current, nonRootList>>
      /\ Discard(c) /\ RemoveFromList(t)
      /\ \A x \in Objects : counter'[x] = IF x = t THEN Decrement(counter[x]) ELSE counter[x]
      /\ \A x \in Objects : status'[x] = IF x = t THEN "dropped" ELSE status[x]
      /\ \A x \in Objects : tracing'[x] = IF x = t THEN DroppedTc ELSE tracing[x]
  BY <1>0, <1>1 DEF DropValue, listVars, loopVars, TypeOK
<1>3. \A d \in Ccs : target[d] = t => d = c
  BY <1>0, <1>1, CounterTells
<1>4. /\ \A d \in Ccs : target'[d] = IF d = c THEN "none" ELSE target[d]
      /\ \A d \in Ccs : owner'[d] = IF d = c THEN "nowhere" ELSE owner[d]
  BY <1>2, DiscardPointers
<1>5. \A d \in Ccs : target'[d] # t
  BY <1>1, <1>3, <1>4, PlacesAssumption
<1>6. t \notin pc' /\ \A o \in pc' : o \in pc
  BY <1>1, <1>2 DEF RemoveFromList, MarksMatchLists
<1>7. \A o \in Objects : ValueStep(o)
  <2>1. \A o \in Objects \ {t} : ValueStep(o)
    BY <1>2 DEF ValueStep
  <2>2. ValueStep(t)
    BY <1>1, <1>2, <1>5, <1>6 DEF ValueStep
  <2> QED BY <2>1, <2>2
<1>8. ProgramStep
  BY <1>2, <1>6, <1>7, DiscardPointers DEF ProgramStep
<1>9. Dropping(t)'
  <2>1. ASSUME NEW d \in Ccs, owner'[d] = t PROVE ~Gone(target[d])'
    <3>1. owner[d] = t /\ target[d] \in Objects /\ target'[d] = target[d]
      BY <1>1, <1>4, <2>1, PlacesAssumption DEF PlacesOK, TypeOK
    <3>2. PICK u \in Objects : u = target[d] /\ ~Gone(u)
      BY <1>1, <3>1 DEF GoneOK
    <3>3. u # t
      BY <1>5, <3>1, <3>2
    <3>4. ~Gone(u)'
      BY <1>2, <3>2, <3>3, GoneStays
    <3> QED BY <3>1, <3>2, <3>4
  <2>2. status'[t] = "dropped" /\ t \notin nonRootList'
    BY <1>1, <1>2
  <2>3. Pointing(t)' = {} /\ \A d \in Fields(t)' : ~Gone(target[d])'
    BY <1>5, <2>1 DEF Pointing, Fields
  <2> QED BY <2>2, <2>3 DEF Dropping
<1>10. CounterExact'
  BY <1>0, <1>1, <1>2, CounterLoses
<1>11. MarksMatchLists'
  BY <1>1, <1>2, MarksRemove
<1>12. \A o \in Objects : o = target[c] => Dropping(o)' /\ status[o] = "live"
  BY <1>0, <1>1, <1>9
<1>13. \A o \in Objects : status[o] = "dropped" => status'[o] = "dropped"
  BY <1>2
<1> QED BY <1>8, <1>10, <1>11, <1>12, <1>13

(* A finalizer or the drop glue of a value of Cc::drop starts. *)
LEMMA FramesPushed ==
    ASSUME TypeOK, StackInv, SafeInv, NEW f, stack' = Append(stack, f), phase' = phase,
           \/ f.op = "finalizeCc"
           \/ /\ f.op = "dropCc"
              /\ \E o \in Objects : f.obj = o /\ status[o] = "live" /\ Dropping(o)',
           \A o \in Objects : status[o] = "dropped" => status'[o] = "dropped"
    PROVE  FramesStep(Len(stack))
<1> DEFINE m == Len(stack)
<1>1. KeepsBelow(m) /\ Len(stack') = m + 1 /\ stack'[m + 1] = f /\ m \in Nat
  BY KeepsPush, StackType, PartsOfInv
<1>2. \A i \in 1..m : stack[i].op = "dropCc" => status'[stack[i].obj] = "dropped"
  BY PartsOfInv DEF FramesFit, Dropping, PlacesOK
<1>3. \A i \in (m + 1)..Len(stack) : FALSE
  BY <1>1
<1> HIDE DEF m
<1>4. FramesStep(m)
  BY <1>1, <1>2, <1>3 DEF FramesStep
<1> QED BY <1>4 DEF m

LEMMA DropSafe ==
    ASSUME TypeOK, TypeOK', StackInv, StackInv', SafeInv, NEW c \in Ccs, CcDrop(c)
    PROVE  SafeInv'
<1> USE DEF boxVars, ccVars, pcVars, listVars, loopVars, callVars
<1>1. CASE DropListed(c)
  BY <1>1, ListedSafe
<1>2. CASE DropShared(c)
  <2>1. /\ TopOp # "collect" /\ target[c] \in Objects
        /\ ~InListOrQueue(target[c]) /\ ~Gone(target[c])
    BY <1>2, DroppableTells DEF DropShared
  <2>2. HandlePossibleCycle(c) /\ UNCHANGED <<status, listVars, loopVars, stack, phase>>
    BY <1>2 DEF DropShared
  <2>3. ProgramStep /\ CounterExact' /\ MarksMatchLists'
    BY <2>1, <2>2, PossibleCycleStep
  <2>4. FramesStep(Len(stack))
    BY <2>2, FramesStay
  <2> QED BY <2>3, <2>4, ProgramSafe
<1>3. CASE DropFinalize(c)
  <2>0. PICK t \in Objects : t = target[c]
    BY <1>3, DroppableTells DEF DropFinalize
  <2>1. TopOp # "collect" /\ ~Gone(t) /\ t \notin nonRootList
    BY <1>3, <2>0, DroppableTells DEF DropFinalize
  <2> DEFINE f == Frame("finalizeCc", t, c, finalizing)
  <2>2. f.op = "finalizeCc"
    BY DEF Frame
  <2>3. /\ UNCHANGED <<status, counter, tracing, mark, target, pcVars, listVars, loopVars>>
        /\ stack' = Append(stack, f)
        /\ \A d \in Ccs : owner'[d] = IF d = c THEN "limbo" ELSE owner[d]
    BY <1>3, <2>0 DEF DropFinalize, Push, TypeOK
  <2> HIDE DEF f
  <2>4. FramesStep(Len(stack))
    BY <2>2, <2>3, FramesPushed
  <2>5. PointerStep(c)
    <3>1. ~Gone(t)'
      BY <2>1, <2>3, GoneStays
    <3> QED BY <2>0, <2>1, <2>3, <3>1, PointerTo
  <2>6. \A d \in Ccs \ {c} : PointerStep(d)
    BY <2>3 DEF PointerStep
  <2>7. \A o \in Objects : ValueStep(o)
    BY <2>3 DEF ValueStep
  <2>8. ProgramStep
    BY <2>1, <2>3, <2>5, <2>6, <2>7 DEF ProgramStep
  <2>9. CounterExact' /\ MarksMatchLists'
    BY <2>3, PartsOfInv, CounterStays, MarksStay
  <2> QED BY <2>4, <2>8, <2>9, ProgramSafe
<1>4. CASE DropLast(c)
  <2>1. /\ TopOp # "collect" /\ target[c] \in Objects /\ ~Gone(target[c])
        /\ target[c] \notin nonRootList /\ counter[target[c]] = 1 /\ DropValue(c, stack)
    BY <1>4, DroppableTells DEF DropLast
  <2>2. /\ ProgramStep /\ CounterExact' /\ MarksMatchLists'
        /\ \A o \in Objects : o = target[c] => Dropping(o)' /\ status[o] = "live"
        /\ \A o \in Objects : status[o] = "dropped" => status'[o] = "dropped"
    BY <2>1, DropValueStep
  <2> DEFINE f == Frame("dropCc", target[c], "none", dropping)
  <2>3. f.op = "dropCc" /\ f.obj = target[c]
    BY DEF Frame
  <2>4. stack' = Append(stack, f) /\ phase' = phase
    BY <2>1 DEF DropValue
  <2> HIDE DEF f
  <2>5. \E o \in Objects : f.obj = o /\ status[o] = "live" /\ Dropping(o)'
    BY <2>1, <2>2, <2>3
  <2>6. FramesStep(Len(stack))
    BY <2>2, <2>3, <2>4, <2>5, FramesPushed
  <2> QED BY <2>2, <2>6, ProgramSafe
<1> QED BY <1>1, <1>2, <1>3, <1>4 DEF CcDrop

-----------------------------------------------------------------------------
(* The operations of the program, all of them. *)
LEMMA UserSafe ==
    ASSUME TypeOK, TypeOK', StackInv, StackInv', SafeInv, UserStep, ~CollectCycles
    PROVE  SafeInv'
<1> USE DEF boxVars, ccVars, pcVars, listVars, flagVars, loopVars, callVars
<1>0. UserRunning => TopOp # "collect"
  BY DEF UserRunning
<1>1. ASSUME NEW c \in Ccs, NEW o \in Objects, New(c, o) PROVE SafeInv'
  BY <1>1, NewSafe
<1>2. ASSUME NEW c \in Ccs, NEW o \in Objects, Upgrade(o, c) PROVE SafeInv'
  BY <1>2, StrongTells, NewPointerSafe DEF Upgrade
<1>3. ASSUME NEW c \in Ccs, NEW o \in Objects, Store(c, o) PROVE SafeInv'
  <2>1. o \in Objects /\ ~Gone(o)
    BY <1>3, AccessibleTells, PartsOfInv DEF Store
  <2>2. target[c] \in Objects /\ ~Gone(target[c])
    BY <1>3, OutsideTarget, PartsOfInv DEF Store
  <2>3. /\ TopOp # "collect" /\ owner' = [owner EXCEPT ![c] = o]
        /\ UNCHANGED <<target, boxVars, pcVars, listVars, loopVars, stack>>
    BY <1>0, <1>3 DEF Store
  <2> QED BY <2>1, <2>2, <2>3, MoveSafe
<1>4. ASSUME NEW o \in Objects, BorrowCell(o) PROVE SafeInv'
  BY <1>0, <1>4, QuietSafe DEF BorrowCell
<1>5. ASSUME NEW c \in Ccs, NEW d \in Ccs, Clone(c, d) PROVE SafeInv'
  <2>1. PICK t \in Objects : t = target[c] /\ ~Gone(t)
    BY <1>5, UsableTells DEF Clone
  <2> QED BY <1>5, <2>1, NewPointerSafe DEF Clone
<1>6. ASSUME NEW c \in Ccs, MarkAlive(c) PROVE SafeInv'
  BY <1>0, <1>6, UsableTells, QuietSafe DEF MarkAlive
<1>7. ASSUME NEW c \in Ccs, Take(c) PROVE SafeInv'
  <2>1. target[c] \in Objects /\ ~Gone(target[c])
    BY <1>7, UsableTells DEF Take, Usable
  <2>2. /\ TopOp # "collect" /\ owner' = [owner EXCEPT ![c] = "program"]
        /\ UNCHANGED <<target, boxVars, pcVars, listVars, loopVars, stack>>
    BY <1>0, <1>7 DEF Take
  <2> QED BY <2>1, <2>2, MoveSafe
<1>8. ASSUME NEW c \in Ccs, TryUnwrap(c) PROVE SafeInv'
  BY <1>8, UnwrapSafe
<1>9. ASSUME NEW c \in Ccs, FinalizeAgain(c) PROVE SafeInv'
  BY <1>0, <1>9, QuietSafe DEF FinalizeAgain
<1>10. ASSUME UserPanic \/ TracePanic \/ Catch PROVE SafeInv'
  BY <1>10, SafeStays DEF UserPanic, TracePanic, Catch
<1> QED
  BY <1>1, <1>2, <1>3, <1>4, <1>5, <1>6, <1>7, <1>8, <1>9, <1>10 DEF UserStep

-----------------------------------------------------------------------------
(* Finalizers and drop glue end, or a panic passes them. *)

(* A frame without drop glue ends, and nothing else happens. *)
LEMMA QuietPop ==
    ASSUME TypeOK, TypeOK', StackInv, StackInv', SafeInv, TopOp \notin {"main", "collect"},
           UNCHANGED <<boxVars, ccVars, pcVars, listVars, loopVars>>,
           \/ stack' = Popped /\ (TopOp = "dropList" => Fields(Top.obj) = {})
           \/ stack' = WithTop([Top EXCEPT !.unwinding = TRUE])
    PROVE  SafeInv'
<1> USE DEF boxVars, ccVars, pcVars, listVars, loopVars
<1>1. ProgramStep
  <2>1. \A d \in Ccs : PointerStep(d)
    BY DEF PointerStep
  <2>2. \A o \in Objects : ValueStep(o)
    BY DEF ValueStep
  <2> QED BY <2>1, <2>2 DEF ProgramStep
<1>2. CounterExact' /\ MarksMatchLists'
  BY PartsOfInv, CounterStays, MarksStay
<1>3. Len(stack) \in Nat /\ \A i \in 1..Len(stack) :
                stack[i].op = "dropCc" => status'[stack[i].obj] = "dropped"
  BY PartsOfInv, StackType DEF FramesFit, Dropping, PlacesOK
<1>4. CASE stack' = Popped /\ (TopOp = "dropList" => Fields(Top.obj) = {})
  <2>1. \A i \in 1..(Len(stack) - 1) :
            stack[i].op = "dropCc" => status'[stack[i].obj] = "dropped"
    BY <1>3
  <2>2. FramesStep(Len(stack) - 1)
    BY <1>4, <2>1, FramesPopped
  <2> QED BY <1>1, <1>2, <2>2, ProgramSafe
<1>5. CASE stack' = WithTop([Top EXCEPT !.unwinding = TRUE])
  <2> DEFINE m == Len(stack) - 1
             f == [Top EXCEPT !.unwinding = TRUE]
  <2>1. m \in Nat /\ m + 1 = Len(stack) /\ Top = stack[m + 1]
    BY PopIndex
  <2>0. KeepsBelow(m) /\ Len(stack') = m + 1 /\ stack'[m + 1] = f
    <3>1. CollectFrames /\ TopOp # "main" /\ phase' = phase
      BY PartsOfInv
    <3>2. stack' = WithTop(f)
      BY <1>5
    <3> HIDE DEF f
    <3> QED BY <3>1, <3>2, KeepsReplace
  <2>2. f.op = Top.op /\ f.obj = Top.obj
    BY TopType DEF Frames
  <2> HIDE DEF m, f
  <2>3. \A i \in (m + 1)..Len(stack) : i = m + 1
    BY <2>1
  <2>4. FramesStep(m)
    BY <1>3, <2>0, <2>1, <2>2, <2>3 DEF FramesStep
  <2> QED BY <1>1, <1>2, <2>4, ProgramSafe
<1> QED BY <1>4, <1>5

(* The drop glue of a value of Cc::drop ends: its memory is given back. *)
LEMMA EndDropSafe ==
    ASSUME TypeOK, TypeOK', StackInv, StackInv', SafeInv, EndDropCc
    PROVE  SafeInv'
<1> USE PartsOfInv
<1> USE DEF ccVars, pcVars, listVars, loopVars
<1>1. TopOp = "dropCc" /\ stack' = Popped /\ Fields(Top.obj) = {}
  BY DEF EndDropCc
<1>2. CASE Top.unwinding
  <2>1. UNCHANGED <<boxVars, ccVars, pcVars, listVars, loopVars>>
    BY <1>2 DEF EndDropCc, boxVars
  <2> QED BY <1>1, <2>1, QuietPop
<1>3. CASE ~Top.unwinding
  <2>0. PICK t \in Objects : t = Top.obj /\ Dropping(t)
    BY <1>1, FrameTells
  <2>1. /\ UNCHANGED <<mark, owner, target, pcVars, listVars, loopVars>>
        /\ \A o \in Objects : status'[o] = IF o = t THEN "free" ELSE status[o]
        /\ \A o \in Objects : counter'[o] = IF o = t THEN 0 ELSE counter[o]
        /\ \A o \in Objects : tracing'[o] = IF o = t THEN 0 ELSE tracing[o]
    BY <1>3, <2>0 DEF EndDropCc, Dealloc
  <2>2. t \notin nonRootList /\ t \notin pc' /\ \A d \in Ccs : target'[d] # t /\ owner'[d] # t
    <3>1. Gone(t)
      BY <2>0 DEF Dropping, Gone
    <3> QED BY <1>1, <2>0, <2>1, <3>1 DEF Dropping, Pointing, Fields, ListsOK
  <2>3. \A d \in Ccs : PointerStep(d)
    BY <2>1 DEF PointerStep
  <2>4. \A o \in Objects : ValueStep(o)
    BY <2>1, <2>2 DEF ValueStep
  <2>5. ProgramStep
    BY <1>1, <2>1, <2>3, <2>4 DEF ProgramStep
  <2>6. CounterExact'
    BY <2>1, CounterStays
  <2>7. MarksMatchLists'
    BY <2>1, MarksStay
  <2>8. ASSUME NEW i \in 1..(Len(stack) - 1), stack[i].op = "dropCc"
        PROVE  status'[stack[i].obj] = "dropped"
    <3>1. /\ i \in 1..Len(stack) /\ Len(stack) \in 1..Len(stack) /\ i # Len(stack)
          /\ stack[Len(stack)].op = "dropCc" /\ stack[Len(stack)].obj = t
      BY <1>1, <2>0, PopIndex
    <3>2. stack[i].obj \in Objects /\ stack[i].obj # t /\ status[stack[i].obj] = "dropped"
      BY <2>8, <3>1 DEF FramesFit, Dropping, PlacesOK
    <3> QED BY <2>1, <3>2
  <2>9. FramesStep(Len(stack) - 1)
    BY <1>1, <2>1, <2>8, FramesPopped
  <2> QED BY <2>5, <2>6, <2>7, <2>9, ProgramSafe
<1> QED BY <1>2, <1>3

(* The finalizer that Cc::drop called returns. *)
LEMMA EndFinalizeSafe ==
    ASSUME TypeOK, TypeOK', StackInv, StackInv', SafeInv, EndFinalizeCc
    PROVE  SafeInv'
<1> USE PartsOfInv
<1> DEFINE c == Top.cc
           m == Len(stack) - 1
<1>1. /\ TopOp = "finalizeCc" /\ TopOp # "collect" /\ TopOp # "main" /\ TopOp # "dropList"
      /\ c \in Ccs /\ owner[c] = "limbo" /\ target[c] = Top.obj
      /\ target[c] \in Objects /\ ~Gone(target[c])
  BY FrameTells DEF EndFinalizeCc
<1>2. target[c] \notin nonRootList /\ ~InListOrQueue(target[c])
  BY <1>1, NotCollecting DEF NonRootOK, PhaseOK
<1>3. \A i \in 1..m : i \in 1..Len(stack)
  BY StackType
<1>4. \A i \in 1..m : stack[i].op = "dropCc" => stack[i].obj \in Objects /\ status[stack[i].obj] = "dropped"
  BY <1>3 DEF FramesFit, Dropping, PlacesOK
<1>5. CASE counter[Top.obj] # 1
  <2>1. /\ HandlePossibleCycle(c) /\ stack' = Popped
        /\ UNCHANGED <<status, listVars, loopVars>> /\ phase' = phase
    BY <1>5 DEF EndFinalizeCc, loopVars
  <2>2. ProgramStep /\ CounterExact' /\ MarksMatchLists'
    BY <1>1, <1>2, <2>1, PossibleCycleStep
  <2>3. FramesStep(m)
    BY <1>1, <1>4, <2>1, FramesPopped
  <2> QED BY <2>2, <2>3, ProgramSafe
<1>6. CASE counter[Top.obj] = 1
  <2>1. DropValue(c, Popped) /\ phase' = phase
    BY <1>6 DEF EndFinalizeCc, DropValue, loopVars
  <2>2. /\ ProgramStep /\ CounterExact' /\ MarksMatchLists'
        /\ \A o \in Objects : o = target[c] => Dropping(o)' /\ status[o] = "live"
        /\ \A o \in Objects : status[o] = "dropped" => status'[o] = "dropped"
    BY <1>1, <1>2, <1>6, <2>1, DropValueStep
  <2> DEFINE f == Frame("dropCc", target[c], "none", dropping)
  <2>3. f.op = "dropCc" /\ f.obj = target[c]
    BY DEF Frame
  <2>4. stack' = Append(Popped, f)
    BY <2>1 DEF DropValue
  <2> HIDE DEF f
  <2>5. /\ KeepsBelow(m) /\ Len(stack') = m + 1 /\ stack'[m + 1] = f
        /\ m \in Nat /\ m + 1 = Len(stack) /\ stack[m + 1].op = "finalizeCc"
    <3>1. m \in Nat /\ m + 1 = Len(stack) /\ stack[m + 1].op = "finalizeCc"
      BY <1>1, PopIndex
    <3>2. KeepsBelow(m) /\ Len(stack') = m + 1 /\ stack'[m + 1] = f
      BY <1>1, <2>1, <2>4, KeepsReplace
    <3> QED BY <3>1, <3>2
  <2>6. \E o \in Objects : f.obj = o /\ status[o] = "live" /\ Dropping(o)'
    BY <1>1, <2>2, <2>3
  <2> HIDE DEF m
  <2>7. \A i \in (m + 1)..Len(stack) : i = m + 1
    BY <2>5
  <2>8. FramesStep(m)
    BY <1>4, <2>2, <2>3, <2>5, <2>6, <2>7 DEF FramesStep
  <2> QED BY <2>2, <2>8, ProgramSafe
<1> QED BY <1>5, <1>6

LEMMA ReturnSafe ==
    ASSUME TypeOK, TypeOK', StackInv, StackInv', SafeInv,
           \/ UserReturn \/ EndDropCc \/ EndDropInner
           \/ UnwindFinalizer \/ UnwindDropGlue
    PROVE  SafeInv'
<1>1. CASE EndFinalizeList \/ UnwindFinalizer \/ UnwindDropGlue
  BY <1>1, QuietPop DEF EndFinalizeList, UnwindFinalizer, UnwindDropGlue
<1>2. CASE EndDropInner
  BY <1>2, QuietPop DEF EndDropInner
<1> QED BY <1>1, <1>2, EndFinalizeSafe, EndDropSafe DEF UserReturn

-----------------------------------------------------------------------------
(* A collection keeps SafeInv: the steps of collect() and __collect, of the  *)
(* functions they call, and of a panic that leaves them.                     *)

(* What a step of the collector has in common with the others. *)

(* No drop glue of Cc::drop starts or ends, and the finalizer or drop glue   *)
(* that runs for the collection is that of a value it has visited.           *)
FramesKept ==
    \A i \in 1..Len(stack') :
        /\ stack'[i].op = "dropCc" => i \in 1..Len(stack) /\ stack'[i] = stack[i]
        /\ stack'[i].op \in {"finalizeList", "dropList"} => stack'[i].obj \in nonRootList' \ work'

LEMMA CollectorFramesKept ==
    ASSUME TypeOK, StackInv, SafeInv, phase = "idle" \/ TopOp = "collect", NEW f,
           \/ stack' = stack
           \/ TopOp # "main" /\ stack' = Popped
           \/ TopOp # "main" /\ stack' = WithTop(f) /\ f.op = "collect"
           \/ stack' = Append(stack, f) /\ f.op = "collect"
           \/ /\ stack' = Append(stack, f) /\ f.op \in {"finalizeList", "dropList"}
              /\ f.obj \in nonRootList' \ work'
    PROVE  FramesKept
<1> USE PartsOfInv
<1>1. stack \in Seq(Frames) /\ Len(stack) \in Nat
  BY StackType
<1>2. \A i \in 1..Len(stack) : stack[i].op \notin {"finalizeList", "dropList"}
  BY FrameTells DEF CollectFrames
<1>3. CASE stack' = stack
  BY <1>2, <1>3 DEF FramesKept
<1>4. CASE TopOp # "main" /\ stack' = Popped
  <2>1. /\ Len(stack') = Len(stack) - 1
        /\ \A i \in 1..(Len(stack) - 1) : i \in 1..Len(stack) /\ stack'[i] = stack[i]
    BY <1>1, <1>4, PopIndex
  <2> QED BY <1>2, <2>1 DEF FramesKept
<1>5. CASE TopOp # "main" /\ stack' = WithTop(f) /\ f.op = "collect"
  <2>1. /\ Len(stack') = Len(stack) /\ stack'[Len(stack)] = f
        /\ \A i \in 1..(Len(stack) - 1) : stack'[i] = stack[i]
    BY <1>5, ReplaceIndex
  <2>2. \A i \in 1..Len(stack) : i = Len(stack) \/ i \in 1..(Len(stack) - 1)
    BY <1>1
  <2> QED BY <1>2, <1>5, <2>1, <2>2 DEF FramesKept
<1>6. ASSUME stack' = Append(stack, f)
      PROVE  /\ Len(stack') = Len(stack) + 1 /\ stack'[Len(stack) + 1] = f
             /\ \A i \in 1..Len(stack) : stack'[i] = stack[i]
             /\ \A i \in 1..Len(stack') : i = Len(stack) + 1 \/ i \in 1..Len(stack)
  BY <1>1, <1>6, PushIndex
<1>7. CASE stack' = Append(stack, f) /\ f.op = "collect"
  BY <1>2, <1>6, <1>7 DEF FramesKept
<1>8. CASE /\ stack' = Append(stack, f) /\ f.op \in {"finalizeList", "dropList"}
           /\ f.obj \in nonRootList' \ work'
  BY <1>2, <1>6, <1>8 DEF FramesKept
<1> QED BY <1>3, <1>4, <1>5, <1>7, <1>8

(* What was decided stays decided and nothing else is; the lists hold what   *)
(* is not gone, and memory is given back that no pointer leads to.           *)
LEMMA GoneKept ==
    ASSUME TypeOK, TypeOK', StackInv, SafeInv, UNCHANGED <<owner, target>>, FramesKept,
           \A o \in Objects :
                /\ Gone(o)' <=> Gone(o)
                /\ status'[o] = "free" => status[o] = "free" \/ (Pointing(o) = {} /\ Fields(o) = {})
                /\ status'[o] = "dropped" => tracing'[o] = DroppedTc
                /\ o \notin nonRootList /\ status[o] = "dropped" => status'[o] = "dropped"
                /\ o \in pc' \cup rootList' \cup queue' \/ o = current' => ~Gone(o)
                /\ o \in nonRootList' => o \in nonRootList \/ ~Gone(o)
                /\ o \in nonRootList' /\ phase' # "dropping" => ~Gone(o),
           phase' = "dropping" => phase = "dropping" /\ nonRootList' = nonRootList
    PROVE  GoneOK' /\ ListsOK' /\ FramesFit'
<1> USE PartsOfInv
<1>1. GoneOK'
  <2>1. \A o \in Objects : status'[o] = "free" => Pointing(o)' = {} /\ Fields(o)' = {}
    BY DEF GoneOK, Pointing, Fields
  <2>2. ASSUME NEW c \in Ccs, target'[c] \in Objects, Gone(target[c])'
        PROVE  owner'[c] \in Objects /\ Gone(owner[c])'
    <3>1. PICK t \in Objects : t = target[c] /\ Gone(t)'
      BY <2>2
    <3>2. PICK o \in Objects : o = owner[c] /\ Gone(o)
      BY <3>1 DEF GoneOK
    <3> QED BY <3>2
  <2>3. ASSUME phase' = "dropping", NEW c \in Ccs
        PROVE  /\ target'[c] \in nonRootList' => owner'[c] \in nonRootList'
               /\ owner'[c] \in nonRootList' => target'[c] \in nonRootList' \/ ~Gone(target[c])'
    <3>1. /\ target[c] \in nonRootList => owner[c] \in nonRootList
          /\ owner[c] \in nonRootList => target[c] \in nonRootList \/ ~Gone(target[c])
      BY <2>3 DEF GoneOK
    <3>2. owner[c] \in nonRootList => target[c] \in Objects
      BY PlacesAssumption DEF PlacesOK, TypeOK
    <3>3. ASSUME target[c] \in Objects, ~Gone(target[c])
          PROVE  ~Gone(target[c])'
      <4>1. PICK t \in Objects : t = target[c] /\ ~Gone(t)
        BY <3>3
      <4> QED BY <4>1
    <3> QED BY <2>3, <3>1, <3>2, <3>3
  <2> QED BY <2>1, <2>2, <2>3 DEF GoneOK
<1>2. ListsOK'
  BY DEF ListsOK, TypeOK
<1>3. ASSUME NEW i \in 1..Len(stack'), stack'[i].op = "dropCc"
      PROVE  Dropping(stack[i].obj)'
  <2>1. i \in 1..Len(stack) /\ stack'[i] = stack[i]
    BY <1>3 DEF FramesKept
  <2>2. PICK o \in Objects : o = stack[i].obj /\ Dropping(o)
    BY <1>3, <2>1 DEF FramesFit, PlacesOK
  <2>3. /\ status[o] = "dropped" /\ o \notin nonRootList
        /\ \A c \in Ccs : target[c] # o
        /\ \A c \in Ccs : owner[c] = o => ~Gone(target[c])
    BY <2>2 DEF Dropping, Pointing, Fields
  <2>4. status'[o] = "dropped" /\ o \notin nonRootList'
    BY <2>3 DEF Gone
  <2>5. ASSUME NEW c \in Ccs, owner[c] = o PROVE ~Gone(target[c])'
    <3>1. PICK t \in Objects : t = target[c] /\ ~Gone(t)
      BY <2>3, <2>5, PlacesAssumption DEF PlacesOK, TypeOK
    <3> QED BY <3>1
  <2>6. Dropping(o)'
    BY <2>3, <2>4, <2>5 DEF Dropping, Pointing, Fields
  <2> QED BY <2>1, <2>2, <2>6
<1>4. ASSUME NEW i \in 1..Len(stack'), NEW j \in 1..Len(stack'),
             stack'[i].op = "dropCc", stack'[j].op = "dropCc", stack'[i].obj = stack'[j].obj
      PROVE  i = j
  BY <1>4 DEF FramesKept, FramesFit
<1>5. FramesFit'
  BY <1>3, <1>4 DEF FramesFit, FramesKept
<1> QED BY <1>1, <1>2, <1>5

(* While nothing is dropped and no pointer moves, the values and counters of *)
(* references are as they were.                                              *)
LEMMA CollectionKept ==
    ASSUME TypeOK, TypeOK', StackInv, SafeInv, UNCHANGED <<status, counter, owner, target>>,
           phase # "dropping", phase' # "dropping", FramesKept,
           \A o \in Objects :
                /\ tracing'[o] = DroppedTc <=> tracing[o] = DroppedTc
                /\ o \in pc' \cup rootList' \cup queue' \cup nonRootList' \/ o = current' => ~Gone(o),
           PhaseOK', NonRootOK', TracingOK', MarksMatchLists', TracingExact'
    PROVE  SafeInv'
<1> USE PartsOfInv
<1>1. ASSUME NEW o \in Objects
      PROVE  /\ Gone(o)' <=> Gone(o)
             /\ status'[o] = "dropped" => tracing'[o] = DroppedTc
  BY DEF Gone, Decided, GoneOK
<1>2. GoneOK' /\ ListsOK' /\ FramesFit'
  BY <1>1, GoneKept
<1>3. CounterExact' /\ GlueEmpties'
  BY CounterStays DEF GlueEmpties, CounterExact
<1> QED BY <1>2, <1>3 DEF SafeInv

-----------------------------------------------------------------------------
(* collect() *)

LEMMA CollectCyclesSafe ==
    ASSUME TypeOK, TypeOK', StackInv, SafeInv, CollectCycles
    PROVE  SafeInv'
<1> USE PartsOfInv
<1> USE DEF boxVars, ccVars, pcVars, listVars
<1>1. phase = "idle"
  BY DEF CollectCycles, CollectFrames, FlagsOK
<1>2. rootList = {} /\ queue = {} /\ current = "none" /\ nonRootList = {} /\ work = {}
  BY <1>1 DEF PhaseOK
<1>3. /\ UNCHANGED <<status, counter, tracing, mark, owner, target, pc, pcSize>>
      /\ UNCHANGED <<rootList, queue, current, nonRootList, work>> /\ phase' = "loop"
  BY DEF CollectCycles
<1> DEFINE f == Frame("collect", "none", "none", FALSE)
<1>4. stack' = Append(stack, f) /\ f.op = "collect"
  BY DEF CollectCycles, Push, Frame
<1> HIDE DEF f
<1>5. FramesKept
  BY <1>1, <1>4, CollectorFramesKept
<1>6. \A o \in pc : ~Gone(o)
  BY DEF ListsOK
<1>7. PhaseOK' /\ NonRootOK' /\ TracingOK' /\ TracingExact'
  BY <1>2, <1>3 DEF PhaseOK, NonRootOK, TracingOK, TracingExact
<1>8. MarksMatchLists'
  BY <1>1, <1>3 DEF MarksMatchLists
<1> QED BY <1>1, <1>2, <1>3, <1>5, <1>6, <1>7, <1>8, PlacesAssumption, CollectionKept

LEMMA EndCollectSafe ==
    ASSUME TypeOK, TypeOK', StackInv, SafeInv, EndCollect
    PROVE  SafeInv'
<1> USE PartsOfInv
<1> USE DEF boxVars, ccVars, pcVars, listVars
<1>1. phase = "loop" /\ TopOp = "collect" /\ TopOp # "main" /\ stack' = Popped
  BY DEF EndCollect, Collector
<1>2. rootList = {} /\ queue = {} /\ current = "none" /\ nonRootList = {} /\ work = {}
  BY <1>1 DEF PhaseOK
<1>3. /\ UNCHANGED <<status, counter, tracing, mark, owner, target, pc, pcSize>>
      /\ UNCHANGED <<rootList, queue, current, nonRootList, work>> /\ phase' = "idle"
  BY DEF EndCollect
<1>4. FramesKept
  BY <1>1, CollectorFramesKept
<1>5. \A o \in pc : ~Gone(o)
  BY DEF ListsOK
<1>6. PhaseOK' /\ NonRootOK' /\ TracingOK' /\ TracingExact'
  BY <1>2, <1>3 DEF PhaseOK, NonRootOK, TracingOK, TracingExact
<1>7. MarksMatchLists'
  BY <1>1, <1>3 DEF MarksMatchLists
<1> QED BY <1>1, <1>2, <1>3, <1>4, <1>5, <1>6, <1>7, PlacesAssumption, CollectionKept

(* The counters of the buffered objects are 0 when a round starts, and these *)
(* are the only objects it knows.                                            *)
LEMMA NextRoundSafe ==
    ASSUME TypeOK, TypeOK', StackInv, SafeInv, BufferedIsReset, NextRound
    PROVE  SafeInv'
<1> USE PartsOfInv
<1> USE DEF boxVars, ccVars, pcVars, listVars, callVars
<1>1. phase = "loop" /\ TopOp = "collect" /\ stack' = stack
  BY DEF NextRound, Collector
<1>2. rootList = {} /\ queue = {} /\ current = "none" /\ nonRootList = {} /\ work = {}
  BY <1>1 DEF PhaseOK
<1>3. /\ UNCHANGED <<status, counter, tracing, mark, owner, target, pc, pcSize>>
      /\ UNCHANGED <<rootList, queue, current, nonRootList, work>> /\ phase' = "counting"
  BY DEF NextRound
<1>4. FramesKept
  BY <1>1, CollectorFramesKept
<1>5. \A o \in pc : ~Gone(o)
  BY DEF ListsOK
<1>6. PhaseOK' /\ NonRootOK'
  BY <1>2, <1>3 DEF PhaseOK, NonRootOK
<1>7. Traced' = {}
  BY <1>2, <1>3 DEF Traced
<1>8. TracingOK'
  BY <1>2, <1>3, <1>7 DEF TracingOK
<1>9. MarksMatchLists'
  BY <1>1, <1>2, <1>3 DEF MarksMatchLists
<1>10. TracingExact'
  <2>1. \A o \in Objects : mark[o] # "NonMarked" => tracing[o] = 0
    BY <1>1, <1>2 DEF MarksMatchLists, BufferedIsReset, TypeOK, Marks
  <2>2. \A o \in Objects : Cardinality(Traced' \cap Pointing(o)') = 0
    BY <1>7, FS_EmptySet
  <2> QED BY <1>3, <2>1, <2>2 DEF TracingExact
<1> QED BY <1>1, <1>2, <1>3, <1>4, <1>5, <1>6, <1>8, <1>9, <1>10, PlacesAssumption, CollectionKept

-----------------------------------------------------------------------------
(* trace_counting *)

(* The Ccs traced so far, Cc by Cc, before a step and after it. *)
LEMMA TracedTells ==
    /\ \A d : d \in Traced <=>
            \/ \E o \in rootList \cup nonRootList : d \in TracedFields(o)
            \/ current # "none" /\ d \in TracedFields(current) \ todo
    /\ \A d : d \in Traced' <=>
            \/ \E o \in rootList' \cup nonRootList' : d \in TracedFields(o)'
            \/ current' # "none" /\ d \in TracedFields(current)' \ todo'
BY DEF Traced

(* A step of trace_counting, on the lists and the counters alone.            *)
LEMMA CountingKept ==
    ASSUME TypeOK, TypeOK', StackInv, SafeInv, phase = "counting", TopOp = "collect",
           phase' \in {"counting", "roots"},
           UNCHANGED <<status, counter, owner, target, work, stack>>, nonRootList \subseteq nonRootList',
           \A o \in Objects :
                /\ tracing'[o] = DroppedTc <=> tracing[o] = DroppedTc
                /\ o \in pc' \cup rootList' \cup queue' \cup nonRootList' \/ o = current' => ~Gone(o),
           phase' = "roots" => pc' = {},
           TracingOK', MarksMatchLists', TracingExact'
    PROVE  SafeInv'
<1>1. FramesKept
  BY CollectorFramesKept
<1>2. PhaseOK' /\ NonRootOK'
  BY PartsOfInv DEF PhaseOK, NonRootOK
<1> QED BY <1>1, <1>2, CollectionKept

LEMMA StartCountingSafe ==
    ASSUME TypeOK, TypeOK', StackInv, SafeInv, NEW o \in Objects, StartCounting(o)
    PROVE  SafeInv'
<1> USE PartsOfInv
<1>1. phase = "counting" /\ TopOp = "collect" /\ current = "none"
  BY DEF StartCounting, Collector
<1>2. /\ UNCHANGED <<status, counter, tracing, owner, target, borrowed, work, stack>>
      /\ UNCHANGED <<rootList, nonRootList, phase>>
      /\ current' = o /\ todo' = TracedFields(o)
      /\ \A x \in Objects : mark'[x] = IF x = o THEN "InQueue" ELSE mark[x]
  BY DEF StartCounting, ccVars, callVars, TypeOK
<1>3. \/ o \in pc /\ pc' = pc \ {o} /\ pcSize' = pcSize - 1 /\ queue' = queue
      \/ o \in queue /\ queue' = queue \ {o} /\ UNCHANGED <<pc, pcSize>>
  BY DEF StartCounting, pcVars
<1>4. \A x \in Objects : x \in pc \cup rootList \cup queue \cup nonRootList => ~Gone(x)
  BY <1>1 DEF ListsOK
<1>5. MarksMatchLists'
  <2>1. pcSize' = Cardinality(pc')
    <3>1. pcSize = Cardinality(pc) /\ pc \in SUBSET Objects
      BY DEF MarksMatchLists, TypeOK
    <3>2. o \in pc => Cardinality(pc \ {o}) = Cardinality(pc) - 1
      BY <3>1, ObjectsCount
    <3> QED BY <1>3, <3>1, <3>2
  <2>2. o # "none" /\ o \notin queue'
    BY <1>3, PlacesAssumption DEF MarksMatchLists
  <2>3. \A x \in Objects :
          /\ mark'[x] = "PossibleCycles" <=> x \in pc'
          /\ mark'[x] = "InList" <=> x \in rootList \cup nonRootList
          /\ mark'[x] = "InQueue" <=> x \in queue' \cup {o}
    BY <1>1, <1>2, <1>3 DEF MarksMatchLists
  <2> QED BY <1>1, <1>2, <2>1, <2>2, <2>3 DEF MarksMatchLists
<1>6. Traced' = Traced
  <2>1. o # "none" /\ \A x : TracedFields(x)' = TracedFields(x)
    BY <1>2, PlacesAssumption DEF TracedFields, Fields
  <2>2. \A d : d \in Traced' <=> d \in Traced
    BY <1>1, <1>2, <2>1, TracedTells
  <2> QED BY <2>2
<1>7. \A x \in Objects : mark'[x] = "NonMarked" <=> mark[x] = "NonMarked"
  BY <1>1, <1>2, <1>3 DEF MarksMatchLists
<1>8. todo' = TracedFields(current)'
  BY <1>2 DEF TracedFields, Fields
<1>9. TracingOK'
  BY <1>1, <1>2, <1>6, <1>7, <1>8 DEF TracingOK, AllTraced, Pointing
<1>10. TracingExact'
  BY <1>1, <1>2, <1>6, <1>7 DEF TracingExact, Pointing
<1> QED BY <1>1, <1>2, <1>3, <1>4, <1>5, <1>9, <1>10, CountingKept

(* One more Cc of the traced value is counted, for the first time. *)
LEMMA OneMoreTraced ==
    ASSUME TypeOK, StackInv, SafeInv, NEW c \in Ccs, NEW t \in Objects,
           t = target[c], TraceCounting(c)
    PROVE  /\ ~Gone(t) /\ Traced' = Traced \cup {c} /\ c \notin Traced
           /\ Cardinality(Traced \cap Pointing(t)) \in Nat
           /\ Cardinality(Traced' \cap Pointing(t)) = Cardinality(Traced \cap Pointing(t)) + 1
           /\ Cardinality(Traced \cap Pointing(t)) < counter[t]
           /\ \A o \in Objects \ {t} : Traced' \cap Pointing(o) = Traced \cap Pointing(o)
<1> USE PartsOfInv
<1>1. phase = "counting" /\ c \in todo /\ todo' = todo \ {c}
  BY DEF TraceCounting, Collector
<1>2. current \in Objects /\ owner[c] = current /\ c \in TracedFields(current) /\ current # "none"
  BY <1>1, PlacesAssumption DEF PlacesOK, TracingOK
<1>3. ~Gone(t)
  <2>1. ~Gone(current)
    BY <1>2 DEF ListsOK
  <2> QED BY <1>2, <2>1 DEF GoneOK
<1>4. c \notin Traced
  <2>1. current \notin rootList \cup nonRootList
    BY <1>1, <1>2 DEF MarksMatchLists
  <2>2. \A o \in rootList \cup nonRootList : c \notin TracedFields(o)
    BY <1>2, <2>1 DEF TracedFields, Fields
  <2> QED BY <1>1, <2>2, TracedTells
<1>5. Traced' = Traced \cup {c}
  <2>1. /\ rootList' \cup nonRootList' = rootList \cup nonRootList
        /\ UNCHANGED <<owner, borrowed, current>>
    BY DEF TraceCounting, CountListed, CountBuffered, CountNew, MarksMatchLists, ccVars, listVars
  <2>2. \A x : TracedFields(x)' = TracedFields(x)
    BY <2>1 DEF TracedFields, Fields
  <2>3. \A d : d \in Traced' <=> d \in Traced \/ d = c
    BY <1>1, <1>2, <2>1, <2>2, TracedTells
  <2> QED BY <2>3
<1>6. c \in Pointing(t) \ Traced /\ Pointing(t) \in SUBSET Ccs
  BY <1>4 DEF Pointing
<1>7. counter[t] = Cardinality(Pointing(t))
  BY <1>3, GoneTells DEF CounterExact
<1>8. \A o \in Objects \ {t} : Traced' \cap Pointing(o) = Traced \cap Pointing(o)
  BY <1>5 DEF Pointing
<1>9. /\ Cardinality(Traced \cap Pointing(t)) \in Nat
      /\ Cardinality((Traced \cup {c}) \cap Pointing(t)) = Cardinality(Traced \cap Pointing(t)) + 1
      /\ Cardinality(Traced \cap Pointing(t)) < Cardinality(Pointing(t))
  <2> DEFINE T == Traced
             P == Pointing(t)
  <2> HIDE DEF T, P
  <2>1. c \in P \ T /\ P \in SUBSET Ccs
    BY <1>6 DEF T, P
  <2>2. /\ Cardinality(T \cap P) \in Nat
        /\ Cardinality((T \cup {c}) \cap P) = Cardinality(T \cap P) + 1
        /\ Cardinality(T \cap P) < Cardinality(P)
    <3>1. /\ Cardinality(T \cap P) \in Nat
          /\ \A d \in P \ T : /\ Cardinality((T \cup {d}) \cap P) = Cardinality(T \cap P) + 1
                              /\ Cardinality(T \cap P) < Cardinality(P)
      BY <2>1, TracedCount
    <3> QED BY <2>1, <3>1
  <2> QED BY <2>2 DEF T, P
<1> QED BY <1>3, <1>4, <1>5, <1>7, <1>8, <1>9

LEMMA TraceCountingSafe ==
    ASSUME TypeOK, TypeOK', StackInv, SafeInv, NEW c \in Ccs, TraceCounting(c)
    PROVE  SafeInv'
<1> USE PartsOfInv
<1>1. /\ phase = "counting" /\ TopOp = "collect" /\ c \in todo /\ todo' = todo \ {c}
      /\ UNCHANGED <<status, counter, owner, target, borrowed, pc, pcSize, work, stack>>
      /\ UNCHANGED <<phase, current>>
      /\ current \in Objects /\ owner[c] = current /\ current # "none"
  BY PlacesAssumption DEF TraceCounting, Collector, ccVars, pcVars, callVars, PlacesOK
<1>2. PICK t \in Objects : t = target[c]
  BY <1>1, PlacesAssumption DEF PlacesOK, TypeOK
<1> DEFINE n == Cardinality(Traced \cap Pointing(t))
<1>3. /\ ~Gone(t) /\ Traced' = Traced \cup {c}
      /\ n \in Nat /\ Cardinality(Traced' \cap Pointing(t)) = n + 1 /\ n < counter[t]
      /\ \A o \in Objects \ {t} : Traced' \cap Pointing(o) = Traced \cap Pointing(o)
  BY <1>2, OneMoreTraced
<1>4. mark[t] # "NonMarked" => tracing[t] = n
  BY <1>1 DEF TracingExact
<1>5. mark[t] = "NonMarked" => n = 0
  BY <1>1, FS_EmptySet DEF TracingOK
<1> HIDE DEF n
<1>6. counter[t] \in Nat /\ counter[t] <= MaxCount
  BY MaxCountAssumption DEF TypeOK
<1>7. \A o \in Objects : tracing'[o] = IF o = t THEN n + 1 ELSE tracing[o]
  <2>1. tracing[t] = n => Increment(tracing[t]) = n + 1
    BY <1>3, <1>6, MaxCountAssumption DEF Increment
  <2>2. CASE CountListed(t) \/ CountBuffered(t)
    <3>1. /\ mark[t] # "NonMarked"
          /\ \A o \in Objects : tracing'[o] = IF o = t THEN Increment(tracing[t]) ELSE tracing[o]
      BY <2>2 DEF CountListed, CountBuffered, InListOrQueue, TypeOK
    <3> QED BY <1>4, <2>1, <3>1
  <2>3. CASE CountNew(t)
    <3>1. n = 0 /\ \A o \in Objects : tracing'[o] = IF o = t THEN 1 ELSE tracing[o]
      BY <1>5, <2>3 DEF CountNew, TypeOK
    <3> QED BY <3>1
  <2> QED BY <1>2, <2>2, <2>3 DEF TraceCounting
<1>8. \/ /\ mark[t] = "NonMarked" /\ queue' = queue \cup {t} /\ UNCHANGED <<rootList, nonRootList>>
         /\ \A o \in Objects : mark'[o] = IF o = t THEN "InQueue" ELSE mark[o]
      \/ /\ mark[t] # "NonMarked" /\ mark' = mark /\ queue' = queue
         /\ IF mark[t] = "InList" /\ counter[t] = n + 1
            THEN rootList' = rootList \ {t} /\ nonRootList' = nonRootList \cup {t}
            ELSE UNCHANGED <<rootList, nonRootList>>
  <2>1. CASE CountListed(t)
    <3>1. tracing'[t] = n + 1
      BY <1>7
    <3> QED BY <2>1, <3>1 DEF CountListed, InListOrQueue
  <2>2. CASE CountBuffered(t)
    BY <2>2 DEF CountBuffered, listVars
  <2>3. CASE CountNew(t)
    BY <2>3 DEF CountNew, TypeOK
  <2> QED BY <1>2, <2>1, <2>2, <2>3 DEF TraceCounting
<1>9. t \in nonRootList => FALSE
  <2>1. ASSUME t \in nonRootList PROVE FALSE
    <3>1. AllTraced(t) /\ mark[t] # "NonMarked"
      BY <1>1, <2>1 DEF TracingOK, MarksMatchLists
    <3> QED BY <1>3, <1>4, <1>6, <3>1 DEF AllTraced
  <2> QED BY <2>1
<1>10. MarksMatchLists'
  BY <1>1, <1>8 DEF MarksMatchLists
<1>11. TracingOK'
  <2>1. todo' \subseteq TracedFields(current)'
    BY <1>1 DEF TracingOK, TracedFields, Fields
  <2>2. \A o \in Objects : mark'[o] = "NonMarked" => Traced' \cap Pointing(o)' = {}
    BY <1>1, <1>3, <1>8 DEF TracingOK, Pointing
  <2>3. \A o \in rootList' : ~AllTraced(o)'
    BY <1>1, <1>7, <1>8 DEF TracingOK, AllTraced, MarksMatchLists, TypeOK
  <2>4. \A o \in nonRootList' : AllTraced(o)'
    BY <1>1, <1>7, <1>8, <1>9 DEF TracingOK, AllTraced, TypeOK
  <2> QED BY <1>1, <2>1, <2>2, <2>3, <2>4 DEF TracingOK
<1>12. TracingExact'
  <2>1. \A o \in Objects : Pointing(o)' = Pointing(o)
    BY <1>1 DEF Pointing
  <2>2. \A o \in Objects \ {t} :
            mark'[o] # "NonMarked" => tracing'[o] = Cardinality(Traced' \cap Pointing(o)')
    BY <1>1, <1>3, <1>7, <1>8, <2>1 DEF TracingExact
  <2>3. tracing'[t] = Cardinality(Traced' \cap Pointing(t)')
    BY <1>3, <1>7, <2>1
  <2> QED BY <2>2, <2>3 DEF TracingExact
<1>13. \A o \in Objects :
            o \in pc' \cup rootList' \cup queue' \cup nonRootList' \/ o = current' => ~Gone(o)
  BY <1>1, <1>3, <1>8 DEF ListsOK
<1>14. nonRootList \subseteq nonRootList'
  BY <1>8
<1>15. \A o \in Objects : tracing'[o] = DroppedTc <=> tracing[o] = DroppedTc
  <2>1. n + 1 # DroppedTc
    BY <1>3, <1>6, MaxCountAssumption DEF DroppedTc
  <2>2. tracing[t] # DroppedTc
    BY <1>3, GoneTells
  <2> QED BY <1>7, <2>1, <2>2
<1> QED BY <1>1, <1>10, <1>11, <1>12, <1>13, <1>14, <1>15, CountingKept

LEMMA EndCountingSafe ==
    ASSUME TypeOK, TypeOK', StackInv, SafeInv, EndCounting
    PROVE  SafeInv'
<1> USE PartsOfInv
<1>1. /\ phase = "counting" /\ TopOp = "collect" /\ todo = {} /\ current # "none"
      /\ current \in Objects
  BY DEF EndCounting, Collector, TypeOK
<1>2. PICK o \in Objects : o = current
  BY <1>1
<1>3. /\ UNCHANGED <<status, counter, tracing, owner, target, borrowed, work, stack>>
      /\ UNCHANGED <<pc, pcSize, queue, phase, todo>> /\ current' = "none"
      /\ \A x \in Objects : mark'[x] = IF x = o THEN "InList" ELSE mark[x]
      /\ IF AllTraced(o) THEN nonRootList' = nonRootList \cup {o} /\ rootList' = rootList
                         ELSE rootList' = rootList \cup {o} /\ nonRootList' = nonRootList
  BY <1>2 DEF EndCounting, ccVars, pcVars, callVars, TypeOK
<1>4. \A x \in Objects :
            x \in pc' \cup rootList' \cup queue' \cup nonRootList' \/ x = current' => ~Gone(x)
  <2>1. ~Gone(o)
    BY <1>1, <1>2 DEF ListsOK
  <2>2. \A x \in Objects : x # "none"
    BY PlacesAssumption
  <2> QED BY <1>1, <1>3, <2>1, <2>2 DEF ListsOK
<1>5. mark[o] = "InQueue" /\ o \notin queue /\ o \notin pc
  BY <1>1, <1>2 DEF MarksMatchLists
<1>6. MarksMatchLists'
  BY <1>1, <1>2, <1>3, <1>5 DEF MarksMatchLists
<1>7. Traced' = Traced
  <2>1. /\ rootList' \cup nonRootList' = rootList \cup nonRootList \cup {o}
        /\ \A x : TracedFields(x)' = TracedFields(x)
    BY <1>3 DEF TracedFields, Fields
  <2>2. \A d : d \in Traced' <=> d \in Traced
    BY <1>1, <1>2, <1>3, <2>1, TracedTells
  <2> QED BY <2>2
<1>8. TracingOK'
  BY <1>1, <1>3, <1>7 DEF TracingOK, AllTraced, Pointing
<1>9. TracingExact'
  BY <1>1, <1>3, <1>5, <1>7 DEF TracingExact, Pointing
<1> QED BY <1>1, <1>3, <1>4, <1>6, <1>8, <1>9, CountingKept

(* Every Cc to an object of non_root_list was traced, and from an object     *)
(* that is in root_list or in non_root_list by now.                          *)
LEMMA EndTraceCountingSafe ==
    ASSUME TypeOK, TypeOK', StackInv, SafeInv, EndTraceCounting
    PROVE  SafeInv'
<1> USE PartsOfInv
<1>1. /\ phase = "counting" /\ TopOp = "collect" /\ current = "none" /\ pc = {} /\ queue = {}
      /\ phase' = "roots"
      /\ UNCHANGED <<status, counter, tracing, mark, owner, target, borrowed, work, stack>>
      /\ UNCHANGED <<pc, pcSize, rootList, nonRootList, queue, current, todo>>
  BY DEF EndTraceCounting, Collector, boxVars, ccVars, pcVars, listVars, callVars
<1>2. \A x \in Objects :
            x \in pc' \cup rootList' \cup queue' \cup nonRootList' \/ x = current' => ~Gone(x)
  BY <1>1, PlacesAssumption DEF ListsOK
<1>3. MarksMatchLists' /\ TracingExact'
  BY <1>1 DEF MarksMatchLists, TracingExact
<1>4. ASSUME NEW c \in Ccs, NEW t \in nonRootList, target[c] = t
      PROVE  owner[c] \in rootList \cup nonRootList /\ c \in TracedFields(owner[c])
  <2> DEFINE T == Traced
             P == Pointing(t)
  <2>1. t \in Objects /\ ~Gone(t) /\ AllTraced(t) /\ mark[t] # "NonMarked"
    BY <1>1 DEF ListsOK, TracingOK, MarksMatchLists, TypeOK
  <2>2. Cardinality(T \cap P) = Cardinality(P) /\ P \in SUBSET Ccs /\ c \in P
    BY <1>1, <1>4, <2>1, GoneTells DEF CounterExact, TracingExact, AllTraced, Pointing
  <2>3. c \in Traced
    <3> HIDE DEF T, P
    <3>1. P \subseteq T
      BY <2>2, TracedCount
    <3> QED BY <2>2, <3>1 DEF T
  <2> QED BY <1>1, <2>3, TracedTells DEF TracedFields, Fields
<1>5. TracingOK'
  <2>1. \A o \in rootList' : ~AllTraced(o)'
    BY <1>1 DEF TracingOK, AllTraced
  <2>2. \A o \in nonRootList' : AllTraced(o)'
    BY <1>1 DEF TracingOK, AllTraced
  <2>3. \A c \in Ccs : target'[c] \in nonRootList' =>
            owner'[c] \in rootList' \cup nonRootList' /\ c \in TracedFields(owner[c])'
    BY <1>1, <1>4 DEF TracedFields, Fields
  <2> QED BY <1>1, <2>1, <2>2, <2>3 DEF TracingOK
<1> QED BY <1>1, <1>2, <1>3, <1>5, CountingKept

-----------------------------------------------------------------------------
(* trace_roots *)

(* A step of trace_roots, on the lists alone. *)
LEMMA RootsKept ==
    ASSUME TypeOK, TypeOK', StackInv, SafeInv, phase = "roots", TopOp = "collect", phase' = "roots",
           UNCHANGED <<status, counter, tracing, owner, target, pc, pcSize, work, stack>>,
           nonRootList' \subseteq nonRootList,
           rootList' \cup queue' \subseteq rootList \cup nonRootList \cup queue,
           \/ current' \in rootList \cup queue
           \/ current' = current
           \/ current' = "none",
           TracingOK', MarksMatchLists'
    PROVE  SafeInv'
<1> USE PartsOfInv
<1>1. FramesKept
  BY CollectorFramesKept
<1>2. PhaseOK' /\ NonRootOK' /\ TracingExact'
  BY DEF PhaseOK, NonRootOK, TracingExact
<1>3. \A x \in Objects :
            x \in pc' \cup rootList' \cup queue' \cup nonRootList' \/ x = current' => ~Gone(x)
  BY PlacesAssumption DEF ListsOK
<1> QED BY <1>1, <1>2, <1>3, CollectionKept

LEMMA StartRootSafe ==
    ASSUME TypeOK, TypeOK', StackInv, SafeInv, NEW o \in Objects, StartRoot(o)
    PROVE  SafeInv'
<1> USE PartsOfInv
<1>1. phase = "roots" /\ TopOp = "collect" /\ current = "none" /\ todo = {}
  BY PlacesAssumption DEF StartRoot, Collector, PlacesOK
<1>2. /\ UNCHANGED <<status, counter, tracing, owner, target, borrowed, work, stack>>
      /\ UNCHANGED <<pc, pcSize, nonRootList, phase>>
      /\ current' = o /\ todo' = TracedFields(o)
      /\ \A x \in Objects : mark'[x] = IF x = o THEN "NonMarked" ELSE mark[x]
      /\ \/ o \in rootList /\ rootList' = rootList \ {o} /\ queue' = queue
         \/ o \in queue /\ queue' = queue \ {o} /\ rootList' = rootList
  BY DEF StartRoot, ccVars, pcVars, callVars, TypeOK
<1>3. MarksMatchLists'
  BY <1>1, <1>2 DEF MarksMatchLists
<1>4. \A x : TracedFields(x)' = TracedFields(x)
  BY <1>2 DEF TracedFields, Fields
<1>5. TracingOK'
  <2>1. \A c \in Ccs : target'[c] \in nonRootList' =>
            \/ c \in todo'
            \/ /\ owner'[c] \in rootList' \cup nonRootList' \cup queue'
               /\ c \in TracedFields(owner[c])'
    BY <1>1, <1>2, <1>4 DEF TracingOK
  <2>2. todo' \subseteq TracedFields(current)'
    BY <1>2 DEF TracedFields, Fields
  <2> QED BY <1>1, <1>2, <2>1, <2>2 DEF TracingOK, AllTraced
<1> QED BY <1>1, <1>2, <1>3, <1>5, RootsKept

LEMMA TraceRootsSafe ==
    ASSUME TypeOK, TypeOK', StackInv, SafeInv, NEW c \in Ccs, TraceRoots(c)
    PROVE  SafeInv'
<1> USE PartsOfInv
<1>1. /\ phase = "roots" /\ TopOp = "collect" /\ c \in todo /\ todo' = todo \ {c}
      /\ UNCHANGED <<status, counter, tracing, owner, target, borrowed, work, stack>>
      /\ UNCHANGED <<pc, pcSize, rootList, phase, current>>
      /\ current \in Objects /\ owner[c] = current /\ current # "none"
  BY PlacesAssumption DEF TraceRoots, Collector, ccVars, pcVars, callVars, PlacesOK
<1>2. PICK t \in Objects : t = target[c]
  BY <1>1, PlacesAssumption DEF PlacesOK, TypeOK
<1>3. InNonRootList(t) <=> t \in nonRootList
  BY <1>1 DEF InNonRootList, MarksMatchLists, TracingOK
<1>4. \/ /\ t \in nonRootList /\ nonRootList' = nonRootList \ {t} /\ queue' = queue \cup {t}
         /\ \A x \in Objects : mark'[x] = IF x = t THEN "InQueue" ELSE mark[x]
      \/ t \notin nonRootList /\ UNCHANGED <<nonRootList, queue, mark>>
  BY <1>2, <1>3 DEF TraceRoots, Requeue, TypeOK
<1>5. MarksMatchLists'
  BY <1>1, <1>4 DEF MarksMatchLists
<1>6. \A x : TracedFields(x)' = TracedFields(x)
  BY <1>1 DEF TracedFields, Fields
<1>7. TracingOK'
  <2>1. \A d \in Ccs : target'[d] \in nonRootList' =>
            \/ d \in todo'
            \/ /\ owner'[d] \in rootList' \cup nonRootList' \cup queue'
               /\ d \in TracedFields(owner[d])'
    BY <1>1, <1>2, <1>4, <1>6 DEF TracingOK
  <2>2. todo' \subseteq TracedFields(current)'
    BY <1>1, <1>6 DEF TracingOK
  <2> QED BY <1>1, <1>4, <2>1, <2>2 DEF TracingOK, AllTraced
<1> QED BY <1>1, <1>4, <1>5, <1>7, RootsKept

LEMMA EndRootSafe ==
    ASSUME TypeOK, TypeOK', StackInv, SafeInv, EndRoot
    PROVE  SafeInv'
<1> USE PartsOfInv
<1>1. /\ phase = "roots" /\ TopOp = "collect" /\ todo = {} /\ current' = "none"
      /\ UNCHANGED <<status, counter, tracing, mark, owner, target, borrowed, work, stack>>
      /\ UNCHANGED <<pc, pcSize, rootList, nonRootList, queue, phase, todo>>
  BY DEF EndRoot, Collector, boxVars, ccVars, pcVars, listVars, callVars
<1>2. MarksMatchLists'
  BY <1>1 DEF MarksMatchLists
<1>3. \A x : TracedFields(x)' = TracedFields(x)
  BY <1>1 DEF TracedFields, Fields
<1>4. TracingOK'
  <2>1. \A d \in Ccs : target'[d] \in nonRootList' =>
            /\ owner'[d] \in rootList' \cup nonRootList' \cup queue'
            /\ d \in TracedFields(owner[d])'
    BY <1>1, <1>3 DEF TracingOK
  <2> QED BY <1>1, <2>1 DEF TracingOK, AllTraced
<1> QED BY <1>1, <1>2, <1>4, RootsKept

(* Only objects of non_root_list own Ccs to objects of non_root_list. *)
LEMMA EndTraceRootsSafe ==
    ASSUME TypeOK, TypeOK', StackInv, SafeInv, EndTraceRoots
    PROVE  SafeInv'
<1> USE PartsOfInv
<1>1. /\ phase = "roots" /\ TopOp = "collect" /\ TopOp # "main" /\ current = "none" /\ todo = {}
      /\ rootList = {} /\ queue = {} /\ work = {}
      /\ UNCHANGED <<status, counter, tracing, mark, owner, target>>
      /\ UNCHANGED <<pc, pcSize, rootList, nonRootList, queue, current, todo>>
  BY PlacesAssumption
  DEF EndTraceRoots, Collector, boxVars, ccVars, pcVars, listVars, PlacesOK, PhaseOK
<1>2. \A x \in Objects :
            x \in pc' \cup rootList' \cup queue' \cup nonRootList' \/ x = current' => ~Gone(x)
  BY <1>1, PlacesAssumption DEF ListsOK
<1>3. \A c \in Ccs : target[c] \in nonRootList => owner[c] \in nonRootList
  BY <1>1 DEF TracingOK
<1>4. CASE nonRootList = {}
  <2>1. phase' = "loop" /\ UNCHANGED <<work, stack>>
    BY <1>4 DEF EndTraceRoots
  <2>2. FramesKept
    BY <1>1, <2>1, CollectorFramesKept
  <2>3. PhaseOK' /\ NonRootOK' /\ TracingOK' /\ TracingExact' /\ MarksMatchLists'
    BY <1>1, <1>4, <2>1 DEF PhaseOK, NonRootOK, TracingOK, TracingExact, MarksMatchLists
  <2> QED BY <1>1, <1>2, <2>1, <2>2, <2>3, CollectionKept
<1>5. CASE nonRootList # {}
  <2> DEFINE f == [Top EXCEPT !.saved = finalizing]
  <2>1. /\ phase' = "finalizing" /\ work' = nonRootList /\ listSize' = 0 /\ ~hasFinalized'
        /\ stack' = WithTop(f)
    BY <1>5 DEF EndTraceRoots
  <2>2. f.op = "collect"
    BY <1>1, TopType DEF Frames
  <2> HIDE DEF f
  <2>3. FramesKept
    BY <1>1, <2>1, <2>2, CollectorFramesKept
  <2>4. NonRootOK'
    BY <1>1, <1>3, <2>1, PlacesAssumption DEF NonRootOK, TypeOK
  <2>5. TopOp' = "collect"
    <3>1. stack' # <<>> /\ stack'[Len(stack')] = f
      BY <1>1, <2>1, ReplaceIndex, PopIndex
    <3> QED BY <2>2, <3>1 DEF TopOp, Top
  <2>6. PhaseOK'
    <3>1. nonRootList \in SUBSET Objects
      BY DEF TypeOK
    <3>2. 0 + Cardinality(nonRootList) = Cardinality(nonRootList)
      BY <3>1, ObjectsCount
    <3> QED BY <1>1, <2>1, <2>5, <3>2 DEF PhaseOK
  <2>7. TracingOK' /\ TracingExact' /\ MarksMatchLists'
    BY <1>1, <2>1 DEF TracingOK, TracingExact, MarksMatchLists
  <2> QED BY <1>1, <1>2, <2>1, <2>3, <2>4, <2>6, <2>7, CollectionKept
<1> QED BY <1>4, <1>5

-----------------------------------------------------------------------------
(* The finalization of non_root_list *)

LEMMA FinalizeInnerSafe ==
    ASSUME TypeOK, TypeOK', StackInv, SafeInv, NEW o \in Objects, FinalizeInner(o)
    PROVE  SafeInv'
<1> USE PartsOfInv
<1> DEFINE f == Frame("finalizeList", o, "none", FALSE)
<1>1. /\ phase = "finalizing" /\ TopOp = "collect" /\ o \in work /\ work' = work \ {o}
      /\ listSize' = listSize + 1
      /\ UNCHANGED <<status, counter, tracing, mark, owner, target, phase>>
      /\ UNCHANGED <<pc, pcSize, rootList, nonRootList, queue, current, todo>>
      /\ \/ stack' = Append(stack, f) /\ hasFinalized'
         \/ stack' = stack /\ hasFinalized' = hasFinalized
  BY DEF FinalizeInner, Collector, Push, ccVars, pcVars, listVars
<1>2. f.op = "finalizeList" /\ f.obj = o
  BY DEF Frame
<1> HIDE DEF f
<1>3. /\ rootList = {} /\ queue = {} /\ current = "none" /\ work \subseteq nonRootList
      /\ listSize + Cardinality(work) = Cardinality(nonRootList)
      /\ ~hasFinalized => TopOp = "collect"
  BY <1>1 DEF PhaseOK
<1>4. FramesKept
  BY <1>1, <1>2, <1>3, CollectorFramesKept
<1>5. \A x \in Objects :
            x \in pc' \cup rootList' \cup queue' \cup nonRootList' \/ x = current' => ~Gone(x)
  BY <1>1, <1>3, PlacesAssumption DEF ListsOK
<1>6. listSize' + Cardinality(work') = Cardinality(nonRootList')
  <2>1. work \in SUBSET Objects /\ listSize \in Nat
    BY DEF TypeOK
  <2>2. Cardinality(work) \in Nat /\ Cardinality(work \ {o}) = Cardinality(work) - 1
    BY <1>1, <2>1, ObjectsCount
  <2> QED BY <1>1, <1>3, <2>1, <2>2
<1>7. ~hasFinalized' => TopOp' = "collect"
  BY <1>1, <1>3 DEF TopOp, Top
<1>8. PhaseOK' /\ NonRootOK'
  BY <1>1, <1>3, <1>6, <1>7 DEF PhaseOK, NonRootOK
<1>9. TracingOK' /\ TracingExact' /\ MarksMatchLists'
  BY <1>1, <1>3 DEF TracingOK, TracingExact, MarksMatchLists
<1> QED BY <1>1, <1>4, <1>5, <1>8, <1>9, CollectionKept

(* A finalizer ran: the objects of non_root_list are buffered again. *)
LEMMA SwapSafe ==
    ASSUME TypeOK, TypeOK', StackInv, SafeInv, EndFinalizing, hasFinalized
    PROVE  SafeInv'
<1> USE PartsOfInv
<1>1. /\ phase = "finalizing" /\ TopOp = "collect" /\ work = {} /\ phase' = "loop"
      /\ UNCHANGED <<status, counter, owner, target, rootList, queue, current, todo, work, stack>>
      /\ pc' = nonRootList \cup pc /\ pcSize' = listSize + pcSize /\ nonRootList' = {}
      /\ \A o \in Objects : tracing'[o] = IF o \in nonRootList THEN 0 ELSE tracing[o]
      /\ \A o \in Objects : mark'[o] = IF o \in nonRootList THEN "PossibleCycles" ELSE mark[o]
  BY DEF EndFinalizing, Collector, SwapAndAppend, ccVars
<1>2. rootList = {} /\ queue = {} /\ current = "none"
  BY <1>1 DEF PhaseOK
<1>3. FramesKept
  BY <1>1, CollectorFramesKept
<1>4. \A x \in Objects : x \in pc \cup nonRootList => ~Gone(x)
  BY <1>1 DEF ListsOK
<1>5. \A x \in Objects : tracing'[x] = DroppedTc <=> tracing[x] = DroppedTc
  <2>1. DroppedTc # 0
    BY MaxCountAssumption DEF DroppedTc
  <2> QED BY <1>1, <1>4, <2>1, GoneTells
<1>6. PhaseOK' /\ NonRootOK' /\ TracingOK' /\ TracingExact'
  BY <1>1, <1>2 DEF PhaseOK, NonRootOK, TracingOK, TracingExact
<1>7. pcSize' = Cardinality(pc')
  <2>1. /\ pc \in SUBSET Objects /\ nonRootList \in SUBSET Objects /\ listSize \in Nat
        /\ pcSize = Cardinality(pc) /\ nonRootList \cap pc = {}
    BY DEF TypeOK, MarksMatchLists
  <2>2. listSize + Cardinality({}) = Cardinality(nonRootList)
    BY <1>1 DEF PhaseOK
  <2>3. IsFiniteSet(pc) /\ IsFiniteSet(nonRootList) /\ Cardinality({}) = 0
    BY <2>1, ObjectsCount, FS_EmptySet
  <2>4. Cardinality(pc) \in Nat /\ Cardinality(nonRootList) \in Nat
    BY <2>1, ObjectsCount
  <2>5. Cardinality(nonRootList \cup pc) = Cardinality(nonRootList) + Cardinality(pc) - 0
    BY <2>1, <2>3, FS_Union
  <2> QED BY <1>1, <2>1, <2>2, <2>3, <2>4, <2>5
<1>8. MarksMatchLists'
  BY <1>1, <1>2, <1>7 DEF MarksMatchLists
<1> QED BY <1>1, <1>2, <1>3, <1>4, <1>5, <1>6, <1>8, PlacesAssumption, CollectionKept

(* No finalizer ran: the objects of non_root_list are doomed. *)
LEMMA DoomSafe ==
    ASSUME TypeOK, TypeOK', StackInv, SafeInv, EndFinalizing, ~hasFinalized
    PROVE  SafeInv'
<1> USE PartsOfInv
<1> DEFINE f == [Top EXCEPT !.saved = dropping]
<1>1. /\ phase = "finalizing" /\ TopOp = "collect" /\ TopOp # "main" /\ work = {}
      /\ phase' = "dropping" /\ work' = nonRootList /\ stack' = WithTop(f)
      /\ UNCHANGED <<status, counter, tracing, mark, owner, target>>
      /\ UNCHANGED <<pc, pcSize, rootList, nonRootList, queue, current, todo>>
  BY DEF EndFinalizing, Collector, ccVars, pcVars
<1>2. f.op = "collect"
  BY <1>1, TopType DEF Frames
<1> HIDE DEF f
<1>3. rootList = {} /\ queue = {} /\ current = "none" /\ nonRootList \subseteq Objects
  BY <1>1 DEF PhaseOK, TypeOK
<1>4. \A i \in 1..Len(stack') : /\ stack'[i].op = "dropCc" => i \in 1..Len(stack) /\ stack'[i] = stack[i]
                                /\ stack'[i].op \notin {"finalizeList", "dropList"}
  <2>1. \A i \in 1..Len(stack) : stack[i].op \notin {"finalizeList", "dropList"}
    BY <1>1, FrameTells
  <2>2. /\ Len(stack') = Len(stack) /\ Len(stack) \in Nat /\ stack'[Len(stack)] = f
        /\ \A i \in 1..(Len(stack) - 1) : stack'[i] = stack[i]
    BY <1>1, ReplaceIndex, PopIndex
  <2>3. \A i \in 1..Len(stack) : i = Len(stack) \/ i \in 1..(Len(stack) - 1)
    BY <2>2
  <2> QED BY <1>2, <2>1, <2>2, <2>3
<1>5. \A c \in Ccs : /\ target[c] \in nonRootList => owner[c] \in nonRootList
                     /\ owner[c] \in Objects => target[c] \in Objects
  BY <1>1, PlacesAssumption DEF NonRootOK, PlacesOK, TypeOK
<1>6. \A o \in Objects : Gone(o)' <=> Gone(o) \/ o \in nonRootList
  BY <1>1 DEF Gone, Decided
<1>7. \A o \in nonRootList : ~Gone(o)
  BY <1>1 DEF ListsOK
<1>8. ListsOK'
  <2>1. \A o \in pc : o \notin nonRootList /\ o \in Objects /\ ~Gone(o)
    BY DEF MarksMatchLists, TypeOK, ListsOK
  <2> QED BY <1>1, <1>3, <1>6, <2>1 DEF ListsOK
<1>9. GoneOK'
  <2>1. \A o \in Objects : /\ status'[o] = "free" => Pointing(o)' = {} /\ Fields(o)' = {}
                           /\ status'[o] = "dropped" => tracing'[o] = DroppedTc
    BY <1>1 DEF GoneOK, Pointing, Fields
  <2>2. ASSUME NEW c \in Ccs, target'[c] \in Objects, Gone(target[c])'
        PROVE  owner'[c] \in Objects /\ Gone(owner[c])'
    <3>1. PICK t \in Objects : t = target[c] /\ Gone(t)'
      BY <1>1, <2>2
    <3>2. PICK o \in Objects : o = owner[c] /\ (Gone(o) \/ o \in nonRootList)
      BY <1>3, <1>5, <1>6, <3>1 DEF GoneOK
    <3> QED BY <1>1, <1>6, <3>2
  <2>3. ASSUME NEW c \in Ccs, owner[c] \in nonRootList, target[c] \notin nonRootList
        PROVE  ~Gone(target[c])'
    <3>1. PICK t \in Objects : t = target[c]
      BY <1>3, <1>5, <2>3
    <3>2. ~Gone(t)
      BY <1>7, <2>3, <3>1 DEF GoneOK
    <3> QED BY <1>1, <1>6, <2>3, <3>1, <3>2
  <2> QED BY <1>1, <1>5, <2>1, <2>2, <2>3 DEF GoneOK
<1>10. FramesFit'
  <2>1. ASSUME NEW i \in 1..Len(stack'), stack'[i].op = "dropCc"
        PROVE  Dropping(stack[i].obj)'
    <3>1. i \in 1..Len(stack) /\ stack'[i] = stack[i]
      BY <1>4, <2>1
    <3>2. PICK o \in Objects : o = stack[i].obj /\ Dropping(o)
      BY <2>1, <3>1 DEF FramesFit, PlacesOK
    <3>3. ASSUME NEW c \in Ccs, owner[c] = o PROVE ~Gone(target[c])'
      <4>1. PICK t \in Objects : t = target[c]
        BY <1>5, <3>3
      <4>2. ~Gone(t) /\ t \notin nonRootList
        BY <1>5, <3>2, <3>3, <4>1 DEF Dropping, Fields
      <4> QED BY <1>1, <1>6, <4>1, <4>2
    <3>4. Dropping(o)'
      BY <1>1, <3>2, <3>3 DEF Dropping, Pointing, Fields
    <3> QED BY <3>1, <3>2, <3>4
  <2>2. \A i, j \in 1..Len(stack') :
            stack'[i].op = "dropCc" /\ stack'[j].op = "dropCc" /\ stack'[i].obj = stack'[j].obj
                => i = j
    BY <1>4 DEF FramesFit
  <2> QED BY <1>4, <2>1, <2>2 DEF FramesFit
<1>11. PhaseOK'
  <2>1. \A o \in nonRootList : status[o] = "live"
    BY <1>3, <1>7 DEF Gone
  <2> QED BY <1>1, <1>3, <2>1 DEF PhaseOK
<1>12. GlueEmpties' /\ NonRootOK' /\ TracingOK' /\ TracingExact' /\ CounterExact'
  <2>1. CounterExact'
    BY <1>1, CounterStays
  <2> QED BY <1>1, <1>3, <2>1 DEF GlueEmpties, NonRootOK, TracingOK, TracingExact
<1>13. MarksMatchLists'
  BY <1>1 DEF MarksMatchLists
<1> QED BY <1>8, <1>9, <1>10, <1>11, <1>12, <1>13 DEF SafeInv

-----------------------------------------------------------------------------
(* deallocate_list *)

LEMMA DropInnerSafe ==
    ASSUME TypeOK, TypeOK', StackInv, SafeInv, NEW o \in Objects, DropInner(o)
    PROVE  SafeInv'
<1> USE PartsOfInv
<1> DEFINE f == Frame("dropList", o, "none", FALSE)
<1>1. /\ phase = "dropping" /\ TopOp = "collect" /\ o \in work /\ work' = work \ {o}
      /\ stack' = Append(stack, f)
      /\ UNCHANGED <<counter, mark, owner, target, phase>>
      /\ UNCHANGED <<pc, pcSize, rootList, nonRootList, queue, current, todo>>
      /\ \A x \in Objects : tracing'[x] = IF x = o THEN DroppedTc ELSE tracing[x]
      /\ \A x \in Objects : status'[x] = IF x = o THEN "dropped" ELSE status[x]
  BY DEF DropInner, Collector, Push, ccVars, pcVars, listVars, TypeOK
<1>2. f.op = "dropList" /\ f.obj = o
  BY DEF Frame
<1> HIDE DEF f
<1>3. rootList = {} /\ queue = {} /\ current = "none" /\ work \subseteq nonRootList /\ o \in nonRootList
  BY <1>1 DEF PhaseOK
<1>4. FramesKept
  BY <1>1, <1>2, <1>3, CollectorFramesKept
<1>5. ASSUME NEW x \in Objects
      PROVE  /\ Gone(x)' <=> Gone(x)
             /\ status'[x] = "free" => status[x] = "free"
             /\ status'[x] = "dropped" => tracing'[x] = DroppedTc
             /\ x \notin nonRootList /\ status[x] = "dropped" => status'[x] = "dropped"
             /\ x \in pc \/ x = current => ~Gone(x)
  BY <1>1, <1>3, PlacesAssumption DEF Gone, Decided, GoneOK, ListsOK
<1>6. GoneOK' /\ ListsOK' /\ FramesFit'
  BY <1>1, <1>3, <1>4, <1>5, GoneKept
<1>7. PhaseOK'
  BY <1>1, <1>3 DEF PhaseOK, TypeOK
<1>8. GlueEmpties'
  <2>1. \A x \in nonRootList \ work : Fields(x) = {}
    BY <1>1, FrameTells DEF GlueEmpties, ListGlue
  <2>2. ListGlue(o)'
    <3>1. Len(stack) + 1 \in 1..Len(stack') /\ stack'[Len(stack) + 1] = f
      BY <1>1, StackType, PushIndex
    <3> QED BY <1>2, <3>1 DEF ListGlue
  <2> QED BY <1>1, <2>1, <2>2 DEF GlueEmpties, Fields
<1>9. CounterExact'
  <2>1. \A x \in Objects : status'[x] # "free" => status[x] # "free"
    BY <1>1, <1>3 DEF PhaseOK
  <2> QED BY <1>1, <2>1, CounterStays
<1>10. NonRootOK' /\ TracingOK' /\ TracingExact' /\ MarksMatchLists'
  BY <1>1, <1>3 DEF NonRootOK, TracingOK, TracingExact, MarksMatchLists
<1> QED BY <1>6, <1>7, <1>8, <1>9, <1>10 DEF SafeInv

(* Every value of the list has lost its fields, and nothing else pointed to  *)
(* them.                                                                     *)
LEMMA DeallocateListSafe ==
    ASSUME TypeOK, TypeOK', StackInv, SafeInv, DeallocateList
    PROVE  SafeInv'
<1> USE PartsOfInv
<1>1. /\ phase = "dropping" /\ TopOp = "collect" /\ work = {} /\ phase' = "loop"
      /\ UNCHANGED <<owner, target, pc, pcSize, rootList, queue, current, todo, work, stack>>
      /\ nonRootList' = {}
      /\ \A o \in Objects :
            /\ status'[o] = IF o \in nonRootList THEN "free" ELSE status[o]
            /\ counter'[o] = IF o \in nonRootList THEN 0 ELSE counter[o]
            /\ tracing'[o] = IF o \in nonRootList THEN 0 ELSE tracing[o]
            /\ mark'[o] = IF o \in nonRootList THEN "NonMarked" ELSE mark[o]
  BY DEF DeallocateList, Dealloc, Collector, ccVars, pcVars, callVars
<1>2. rootList = {} /\ queue = {} /\ current = "none" /\ nonRootList \subseteq Objects
  BY <1>1 DEF PhaseOK, TypeOK
<1>3. FramesKept
  BY <1>1, CollectorFramesKept
<1>4. \A o \in nonRootList : Fields(o) = {} /\ Pointing(o) = {}
  <2>1. \A o \in nonRootList : Fields(o) = {}
    BY <1>1, FrameTells DEF GlueEmpties, ListGlue
  <2>2. \A c \in Ccs : target[c] \in nonRootList => owner[c] \in nonRootList
    BY <1>1 DEF GoneOK
  <2> QED BY <2>1, <2>2 DEF Fields, Pointing
<1>5. ASSUME NEW o \in Objects
      PROVE  /\ Gone(o)' <=> Gone(o)
             /\ status'[o] = "free" => status[o] = "free" \/ (Pointing(o) = {} /\ Fields(o) = {})
             /\ status'[o] = "dropped" => tracing'[o] = DroppedTc
             /\ o \notin nonRootList /\ status[o] = "dropped" => status'[o] = "dropped"
             /\ o \in pc \/ o = current => ~Gone(o)
  BY <1>1, <1>2, <1>4, PlacesAssumption DEF Gone, Decided, GoneOK, ListsOK
<1>6. GoneOK' /\ ListsOK' /\ FramesFit'
  BY <1>1, <1>2, <1>3, <1>5, GoneKept
<1>7. CounterExact'
  BY <1>1, CounterStays
<1>8. MarksMatchLists'
  BY <1>1, <1>2 DEF MarksMatchLists
<1>9. PhaseOK' /\ GlueEmpties' /\ NonRootOK' /\ TracingOK' /\ TracingExact'
  BY <1>1, <1>2 DEF PhaseOK, GlueEmpties, NonRootOK, TracingOK, TracingExact
<1> QED BY <1>6, <1>7, <1>8, <1>9 DEF SafeInv

(* A panic leaves collect(): what it dropped stays dropped, all else is as it *)
(* was before.                                                               *)
LEMMA UnwindCollectSafe ==
    ASSUME TypeOK, TypeOK', StackInv, SafeInv, UnwindCollect
    PROVE  SafeInv'
<1> USE PartsOfInv
<1>1. /\ TopOp = "collect" /\ TopOp # "main" /\ stack' = Popped /\ phase' = "idle"
      /\ UNCHANGED <<status, counter, owner, target, pc, pcSize>>
      /\ rootList' = {} /\ nonRootList' = {} /\ queue' = {} /\ current' = "none"
      /\ todo' = {} /\ work' = {}
      /\ \A o \in Objects : mark'[o] = IF o \in Listed THEN "NonMarked" ELSE mark[o]
      /\ \A o \in Objects : tracing'[o] = IF phase = "dropping" /\ o \in nonRootList
                                          THEN DroppedTc ELSE tracing[o]
  BY DEF UnwindCollect, ccVars, pcVars
<1>2. FramesKept
  BY <1>1, CollectorFramesKept
<1>3. ASSUME NEW o \in Objects
      PROVE  /\ Gone(o)' <=> Gone(o)
             /\ status'[o] = "dropped" => tracing'[o] = DroppedTc
             /\ o \in pc \/ o = current' => ~Gone(o)
  BY <1>1, PlacesAssumption DEF Gone, Decided, GoneOK, ListsOK
<1>4. GoneOK' /\ ListsOK' /\ FramesFit'
  BY <1>1, <1>2, <1>3, GoneKept
<1>5. CounterExact'
  BY <1>1, CounterStays DEF CounterExact
<1>6. MarksMatchLists'
  <2>1. \A o \in Objects : /\ mark[o] \in {"InList", "InQueue"} => o \in Listed
                           /\ o \in Listed => mark[o] # "PossibleCycles" \/ o = current
    BY DEF MarksMatchLists, Listed
  <2>2. current \in pc => FALSE
    <3>1. phase # "counting" /\ current # "none" => pc = {}
      BY DEF PhaseOK
    <3>2. phase = "counting" /\ current # "none" => current \notin pc
      BY DEF MarksMatchLists, TypeOK
    <3>3. "none" \notin pc
      BY PlacesAssumption DEF TypeOK
    <3> QED BY <3>1, <3>2, <3>3
  <2>3. \A o \in Objects : /\ mark'[o] = "PossibleCycles" <=> o \in pc
                           /\ mark'[o] \notin {"InList", "InQueue"}
    BY <1>1, <2>1, <2>2 DEF MarksMatchLists
  <2>4. pcSize' = Cardinality(pc')
    BY <1>1 DEF MarksMatchLists
  <2> QED BY <1>1, <2>3, <2>4 DEF MarksMatchLists
<1>7. PhaseOK' /\ GlueEmpties' /\ NonRootOK' /\ TracingOK' /\ TracingExact'
  BY <1>1 DEF PhaseOK, GlueEmpties, NonRootOK, TracingOK, TracingExact
<1> QED BY <1>4, <1>5, <1>6, <1>7 DEF SafeInv

-----------------------------------------------------------------------------
(* Every step. *)

LEMMA CollectorSafe ==
    ASSUME TypeOK, TypeOK', StackInv, SafeInv, BufferedIsReset, CollectorStep
    PROVE  SafeInv'
<1>1. CASE NextRound \/ EndCollect
  BY <1>1, NextRoundSafe, EndCollectSafe
<1>2. ASSUME NEW o \in Objects, StartCounting(o) \/ StartRoot(o) \/ FinalizeInner(o) \/ DropInner(o)
      PROVE  SafeInv'
  BY <1>2, StartCountingSafe, StartRootSafe, FinalizeInnerSafe, DropInnerSafe
<1>3. ASSUME NEW c \in Ccs, TraceCounting(c) \/ TraceRoots(c)
      PROVE  SafeInv'
  BY <1>3, TraceCountingSafe, TraceRootsSafe
<1>4. CASE EndCounting \/ EndTraceCounting \/ EndRoot \/ EndTraceRoots
  BY <1>4, EndCountingSafe, EndTraceCountingSafe, EndRootSafe, EndTraceRootsSafe
<1>5. CASE EndFinalizing \/ DeallocateList
  BY <1>5, SwapSafe, DoomSafe, DeallocateListSafe
<1> QED BY <1>1, <1>2, <1>3, <1>4, <1>5 DEF CollectorStep

LEMMA NextSafe ==
    ASSUME TypeOK, TypeOK', StackInv, StackInv', SafeInv, BufferedIsReset, [Next]_vars
    PROVE  SafeInv'
<1>1. CASE UNCHANGED vars
  BY <1>1, SafeStays DEF vars, boxVars, ccVars, pcVars, listVars, loopVars, callVars
<1>2. CASE UserStep
  BY <1>2, UserSafe, CollectCyclesSafe
<1>3. ASSUME NEW c \in Ccs, CcDrop(c) PROVE SafeInv'
  BY <1>3, DropSafe
<1>4. CASE UserReturn \/ EndDropCc \/ EndDropInner
  BY <1>4, ReturnSafe
<1>5. CASE CollectorStep
  BY <1>5, CollectorSafe
<1>6. CASE UnwindStep
  BY <1>6, ReturnSafe, UnwindCollectSafe DEF UnwindStep
<1> QED BY <1>1, <1>2, <1>3, <1>4, <1>5, <1>6 DEF Next

LEMMA InitSafe == Init => SafeInv
<1> SUFFICES ASSUME Init PROVE SafeInv
  OBVIOUS
<1> USE DEF Init
<1>1. \A o \in Objects : o # "none" /\ o # "nowhere"
  BY PlacesAssumption
<1>2. GoneOK
  <2>1. \A c \in Ccs : target[c] \notin Objects
    BY <1>1
  <2>2. \A o \in Objects : status[o] = "free" /\ Pointing(o) = {} /\ Fields(o) = {}
    BY <1>1 DEF Pointing, Fields
  <2> QED BY <2>1, <2>2 DEF GoneOK
<1>3. PhaseOK /\ ListsOK /\ FramesFit
  BY DEF PhaseOK, ListsOK, FramesFit
<1>4. GlueEmpties /\ NonRootOK /\ TracingOK /\ TracingExact
  BY DEF GlueEmpties, NonRootOK, TracingOK, TracingExact
<1>5. CounterExact /\ MarksMatchLists
  BY FS_EmptySet DEF CounterExact, MarksMatchLists
<1> QED BY <1>2, <1>3, <1>4, <1>5 DEF SafeInv

-----------------------------------------------------------------------------
(* The finalizers.  An object whose finalizer runs stays finalized: nobody   *)
(* clears its flag while a finalizer runs, and its memory is not given back. *)

(* The frames up to m stay; the one on top of them is no finalizer, or the   *)
(* same as before, or one that starts.                                       *)
LEMMA FinalizersStep ==
    ASSUME FinalizersOK, NEW m, KeepsBelow(m), Len(stack) \in Nat,
           \A i \in Finalizers : finalized'[stack[i].obj],
           Len(stack') = m + 1 =>
                \/ stack'[m + 1].op \notin {"finalizeCc", "finalizeList"}
                \/ m + 1 \in Finalizers /\ stack'[m + 1].obj = stack[m + 1].obj
                \/ ~finalized[stack'[m + 1].obj] /\ finalized'[stack'[m + 1].obj],
           phase' = "finalizing" /\ ~hasFinalized' =>
                \A o \in nonRootList' \ work' : finalized'[o]
    PROVE  FinalizersOK'
<1> DEFINE f == stack'[m + 1]
<1>1. /\ m \in Nat /\ m <= Len(stack) /\ Len(stack') \in {m, m + 1}
      /\ \A i \in 1..m : stack'[i] = stack[i]
  BY DEF KeepsBelow
<1>2. \A i \in Finalizers' : \/ i \in Finalizers /\ i <= m /\ i # m + 1 /\ stack'[i].obj = stack[i].obj
                             \/ i = m + 1 /\ Len(stack') = m + 1
  BY <1>1 DEF Finalizers
<1>3. m + 1 \in Finalizers' =>
         \/ m + 1 \in Finalizers /\ f.obj = stack[m + 1].obj
         \/ ~finalized[f.obj] /\ finalized'[f.obj]
  <2>1. m + 1 \in Finalizers' => Len(stack') = m + 1 /\ f.op \in {"finalizeCc", "finalizeList"}
    BY <1>1 DEF Finalizers
  <2> QED BY <2>1
<1> HIDE DEF f
<1>4. \A i \in Finalizers' : finalized'[stack'[i].obj]
  BY <1>2, <1>3 DEF f
<1>5. ASSUME NEW i \in Finalizers', i # m + 1, m + 1 \in Finalizers', stack'[i].obj = f.obj
      PROVE  FALSE
  <2>1. i \in Finalizers /\ stack'[i].obj = stack[i].obj
    BY <1>2, <1>5
  <2> QED BY <1>3, <1>5, <2>1 DEF FinalizersOK
<1>6. \A i, j \in Finalizers' : stack'[i].obj = stack'[j].obj => i = j
  <2> SUFFICES ASSUME NEW i \in Finalizers', NEW j \in Finalizers', stack'[i].obj = stack'[j].obj
               PROVE  i = j
    OBVIOUS
  <2>1. CASE i # m + 1 /\ j # m + 1
    BY <1>2, <2>1 DEF FinalizersOK
  <2>2. CASE i = m + 1 \/ j = m + 1
    BY <1>5, <2>2 DEF f
  <2> QED BY <2>1, <2>2
<1> QED BY <1>4, <1>6 DEF FinalizersOK

(* A step that starts no finalizer. *)
LEMMA FinalizersKept ==
    ASSUME TypeOK, StackInv, FinalizersOK, NEW f,
           \/ stack' = stack
           \/ /\ stack' = Append(stack, f) /\ f.op \in {"dropCc", "dropList", "collect"}
              /\ phase' = phase \/ phase = "idle"
           \/ /\ TopOp # "main"
              /\ phase' = phase \/ TopOp = "collect"
              /\ \/ stack' = Popped
                 \/ stack' = Append(Popped, f) /\ f.op = "dropCc"
                 \/ stack' = WithTop(f) /\ f.op = TopOp /\ f.obj = Top.obj,
           \A i \in Finalizers : finalized'[stack[i].obj],
           phase' = "finalizing" /\ ~hasFinalized' =>
                \A o \in nonRootList' \ work' : finalized'[o]
    PROVE  FinalizersOK'
<1>0. CollectFrames /\ Len(stack) \in Nat
  BY StackType DEF StackInv
<1>1. CASE stack' = stack
  BY <1>1 DEF FinalizersOK, Finalizers
<1>2. CASE /\ stack' = Append(stack, f) /\ f.op \in {"dropCc", "dropList", "collect"}
           /\ phase' = phase \/ phase = "idle"
  <2>1. KeepsBelow(Len(stack)) /\ Len(stack') = Len(stack) + 1 /\ stack'[Len(stack) + 1] = f
    BY <1>0, <1>2, KeepsPush
  <2> QED BY <1>0, <1>2, <2>1, FinalizersStep
<1>3. CASE /\ TopOp # "main"
           /\ phase' = phase \/ TopOp = "collect"
           /\ \/ stack' = Popped
              \/ stack' = Append(Popped, f) /\ f.op = "dropCc"
              \/ stack' = WithTop(f) /\ f.op = TopOp /\ f.obj = Top.obj
  <2> DEFINE m == Len(stack) - 1
  <2>0. m \in Nat /\ m + 1 = Len(stack) /\ m + 1 \in 1..Len(stack)
        /\ Top = stack[m + 1] /\ TopOp = stack[m + 1].op
    BY <1>3, PopIndex
  <2>1. CASE stack' = Popped
    <3>1. KeepsBelow(m) /\ Len(stack') = m
      BY <1>0, <1>3, <2>1, KeepsPop
    <3> HIDE DEF m
    <3>2. Len(stack') # m + 1
      BY <2>0, <3>1
    <3> QED BY <1>0, <3>1, <3>2, FinalizersStep
  <2>2. CASE stack' = Append(Popped, f) /\ f.op = "dropCc"
    <3>1. KeepsBelow(m) /\ stack'[m + 1] = f
      BY <1>0, <1>3, <2>2, KeepsReplace
    <3> HIDE DEF m
    <3> QED BY <1>0, <2>2, <3>1, FinalizersStep
  <2>3. CASE stack' = WithTop(f) /\ f.op = TopOp /\ f.obj = Top.obj
    <3>1. KeepsBelow(m) /\ stack'[m + 1] = f
      BY <1>0, <1>3, <2>3, KeepsReplace
    <3> HIDE DEF m
    <3>2. \/ stack'[m + 1].op \notin {"finalizeCc", "finalizeList"}
          \/ m + 1 \in Finalizers /\ stack'[m + 1].obj = stack[m + 1].obj
      BY <2>0, <2>3, <3>1 DEF Finalizers
    <3> QED BY <1>0, <3>1, <3>2, FinalizersStep
  <2> QED BY <1>3, <2>1, <2>2, <2>3
<1> QED BY <1>1, <1>2, <1>3

(* The value whose finalizer runs is not gone. *)
LEMMA FinalizerTells ==
    ASSUME TypeOK, StackInv, SafeInv, NEW i \in Finalizers
    PROVE  /\ stack[i].obj \in Objects /\ ~Gone(stack[i].obj)
           /\ stack[i].op = "finalizeCc" =>
                \E c \in Ccs : owner[c] = "limbo" /\ target[c] = stack[i].obj
           /\ stack[i].op = "finalizeList" => stack[i].obj \in nonRootList /\ phase = "finalizing"
<1> USE PartsOfInv
<1>1. i \in 1..Len(stack) /\ stack[i].op \in {"finalizeCc", "finalizeList"}
  BY DEF Finalizers
<1>2. stack[i].obj \in Objects
  BY <1>1 DEF PlacesOK
<1>3. CASE stack[i].op = "finalizeCc"
  <2>1. stack[i].cc \in Ccs /\ owner[stack[i].cc] = "limbo" /\ target[stack[i].cc] = stack[i].obj
    BY <1>1, <1>3 DEF PlacesOK
  <2>2. ~Gone(stack[i].obj)
    BY <2>1, OutsideTarget
  <2> QED BY <1>2, <1>3, <2>1, <2>2
<1>4. CASE stack[i].op = "finalizeList"
  <2>1. stack[i].obj \in nonRootList /\ phase = "finalizing"
    BY <1>1, <1>4 DEF FramesFit, CollectFrames
  <2> QED BY <1>2, <1>4, <2>1 DEF ListsOK
<1> QED BY <1>1, <1>3, <1>4

(* A flag is cleared only where no finalizer runs, or when the memory of a   *)
(* value that is gone is given back or used again.                           *)
LEMMA FinalizedStays ==
    ASSUME TypeOK, StackInv, SafeInv, FinalizersOK,
           \/ Finalizers = {}
           \/ \A o \in Objects : ~Gone(o) => finalized'[o] = finalized[o] \/ finalized'[o]
    PROVE  \A i \in Finalizers : finalized'[stack[i].obj]
BY FinalizerTells DEF FinalizersOK

LEMMA UserFinalizers ==
    ASSUME TypeOK, StackInv, SafeInv, FinalizersOK, UserStep
    PROVE  FinalizersOK'
<1> USE PartsOfInv
<1> USE DEF boxVars, listVars, loopVars, callVars
<1>1. ASSUME UNCHANGED <<finalized, listVars, loopVars, stack>> PROVE FinalizersOK'
  BY <1>1 DEF FinalizersOK, Finalizers
<1>2. ASSUME TopOp # "collect", UNCHANGED <<listVars, loopVars, stack>>,
             \A i \in Finalizers : finalized'[stack[i].obj]
      PROVE  FinalizersOK'
  BY <1>2, NotCollecting DEF FinalizersOK, Finalizers
<1>3. ASSUME NEW c \in Ccs, NEW o \in Objects, New(c, o) PROVE FinalizersOK'
  <2>1. Gone(o) /\ \A x \in Objects \ {o} : finalized'[x] = finalized[x]
    BY <1>3, GoneTells DEF New, TypeOK
  <2>2. \A i \in Finalizers : finalized'[stack[i].obj]
    BY <2>1, FinalizedStays
  <2> QED BY <1>2, <1>3, <2>2 DEF New, UserRunning
<1>4. ASSUME NEW c \in Ccs, TryUnwrap(c) \/ FinalizeAgain(c) PROVE FinalizersOK'
  <2>1. ~collecting /\ ~finalizing /\ ~dropping
    BY <1>4 DEF TryUnwrap, FinalizeAgain
  <2>2. Finalizers = {}
    BY <2>1, NoFlagNoFrame DEF Finalizers
  <2> QED BY <1>2, <1>4, <2>2 DEF TryUnwrap, FinalizeAgain, UserRunning
<1>5. ASSUME NEW c \in Ccs, NEW o \in Objects, Upgrade(o, c) \/ Store(c, o)
      PROVE  FinalizersOK'
  BY <1>1, <1>5 DEF Upgrade, NewPointer, Store
<1>6. ASSUME NEW c \in Ccs, MarkAlive(c) \/ Take(c) \/ \E d \in Ccs : Clone(c, d)
      PROVE  FinalizersOK'
  BY <1>1, <1>6 DEF Clone, NewPointer, MarkAlive, Take
<1>7. CASE UserPanic \/ TracePanic \/ Catch \/ \E o \in Objects : BorrowCell(o)
  BY <1>1, <1>7 DEF UserPanic, TracePanic, Catch, BorrowCell
<1>8. CASE CollectCycles
  <2>1. phase = "idle" /\ phase' = "loop" /\ finalized' = finalized
    BY <1>8 DEF CollectCycles, FlagsOK, CollectFrames
  <2>2. stack' = Append(stack, Frame("collect", "none", "none", FALSE))
    BY <1>8 DEF CollectCycles, Push
  <2> QED BY <2>1, <2>2, FinalizersKept DEF FinalizersOK, Frame
<1> QED BY <1>3, <1>4, <1>5, <1>6, <1>7, <1>8 DEF UserStep

LEMMA DropFinalizers ==
    ASSUME TypeOK, StackInv, SafeInv, FinalizersOK, NEW c \in Ccs, CcDrop(c)
    PROVE  FinalizersOK'
<1> USE PartsOfInv
<1> USE DEF boxVars, listVars, loopVars, callVars
<1>0. /\ target[c] \in Objects /\ TopOp # "collect" /\ UNCHANGED <<listVars, loopVars>>
      /\ ~(phase' = "finalizing" /\ ~hasFinalized')
  BY DroppableTells, NotCollecting
  DEF CcDrop, DropListed, DropShared, DropFinalize, DropLast, DropValue
<1>1. CASE DropListed(c) \/ DropShared(c)
  BY <1>1 DEF DropListed, DropShared, FinalizersOK, Finalizers
<1>2. CASE DropFinalize(c)
  <2> DEFINE f == Frame("finalizeCc", target[c], c, finalizing)
  <2>1. /\ stack' = Append(stack, f) /\ f.obj = target[c]
        /\ ~finalized[target[c]] /\ finalized'[target[c]]
        /\ \A o \in Objects : finalized'[o] = finalized[o] \/ finalized'[o]
    BY <1>0, <1>2 DEF DropFinalize, Push, Frame, NeedsFinalization, TypeOK
  <2> HIDE DEF f
  <2>2. /\ KeepsBelow(Len(stack)) /\ Len(stack') = Len(stack) + 1 /\ Len(stack) \in Nat
        /\ stack'[Len(stack) + 1] = f
    BY <1>0, <2>1, KeepsPush, StackType
  <2>3. \A i \in Finalizers : finalized'[stack[i].obj]
    BY <2>1, FinalizedStays
  <2> QED BY <1>0, <2>1, <2>2, <2>3, FinalizersStep
<1>3. CASE DropLast(c)
  <2>1. finalized' = finalized /\ stack' = Append(stack, Frame("dropCc", target[c], "none", dropping))
    BY <1>3 DEF DropLast, DropValue
  <2> QED BY <1>0, <2>1, FinalizersKept DEF FinalizersOK, Frame
<1> QED BY <1>1, <1>2, <1>3 DEF CcDrop

LEMMA ReturnFinalizers ==
    ASSUME TypeOK, StackInv, SafeInv, FinalizersOK,
           UserReturn \/ EndDropCc \/ EndDropInner \/ UnwindStep
    PROVE  FinalizersOK'
<1> USE PartsOfInv
<1> USE DEF boxVars, listVars, loopVars, callVars
<1>0. TopOp # "main"
  BY DEF UserReturn, EndFinalizeCc, EndFinalizeList, EndDropCc, EndDropInner, UnwindStep,
      UnwindFinalizer, UnwindDropGlue, UnwindCollect
<1>1. CASE EndFinalizeList \/ EndDropInner \/ UnwindFinalizer
  <2>1. /\ TopOp # "collect" /\ stack' = Popped
        /\ UNCHANGED <<finalized, phase, hasFinalized, nonRootList, work>>
    BY <1>1 DEF EndFinalizeList, EndDropInner, UnwindFinalizer
  <2> QED BY <1>0, <2>1, FinalizersKept DEF FinalizersOK
<1>2. CASE UnwindCollect
  <2>1. TopOp = "collect" /\ stack' = Popped /\ finalized' = finalized /\ phase' = "idle"
    BY <1>2 DEF UnwindCollect
  <2> QED BY <1>0, <2>1, FinalizersKept DEF FinalizersOK
<1>3. CASE UnwindDropGlue
  <2> DEFINE f == [Top EXCEPT !.unwinding = TRUE]
  <2>1. /\ stack' = WithTop(f)
        /\ UNCHANGED <<finalized, phase, hasFinalized, nonRootList, work>>
    BY <1>3 DEF UnwindDropGlue
  <2>2. f.op = TopOp /\ f.obj = Top.obj
    <3>1. Top \in Frames /\ TopOp = Top.op
      BY <1>0, PopIndex, StackType
    <3> QED BY <3>1 DEF Frames
  <2> HIDE DEF f
  <2> QED BY <1>0, <2>1, <2>2, FinalizersKept DEF FinalizersOK
<1>4. CASE EndDropCc
  <2>1. /\ TopOp # "collect" /\ stack' = Popped /\ Top.obj \in Objects /\ Gone(Top.obj)
        /\ UNCHANGED <<phase, hasFinalized, nonRootList, work>>
    BY <1>4, FrameTells, GoneTells DEF EndDropCc, Dropping
  <2>2. \A o \in Objects : ~Gone(o) => finalized'[o] = finalized[o]
    BY <1>4, <2>1 DEF EndDropCc, Dealloc
  <2>3. \A i \in Finalizers : finalized'[stack[i].obj]
    BY <2>2, FinalizedStays
  <2> QED BY <1>0, <2>1, <2>3, FinalizersKept, NotCollecting
<1>5. CASE EndFinalizeCc
  <2>1. /\ TopOp # "collect" /\ UNCHANGED <<finalized, phase, hasFinalized, nonRootList, work>>
        /\ \/ stack' = Popped
           \/ stack' = Append(Popped, Frame("dropCc", target[Top.cc], "none", dropping))
    BY <1>5 DEF EndFinalizeCc, DropValue
  <2> QED BY <1>0, <2>1, FinalizersKept DEF FinalizersOK, Frame
<1> QED BY <1>1, <1>2, <1>3, <1>4, <1>5 DEF UserReturn, UnwindStep

LEMMA CollectorFinalizers ==
    ASSUME TypeOK, StackInv, SafeInv, FinalizersOK, CollectorStep
    PROVE  FinalizersOK'
<1> USE PartsOfInv
<1> USE DEF boxVars, listVars, loopVars, callVars, Collector
<1>0. TopOp = "collect" /\ TopOp # "main" /\ Top.op = TopOp /\ Top \in Frames
  <2>1. TopOp = "collect" /\ TopOp # "main"
    BY DEF CollectorStep, NextRound, EndCollect, StartCounting, StartRoot, FinalizeInner, DropInner,
        TraceCounting, TraceRoots, EndCounting, EndTraceCounting, EndRoot, EndTraceRoots,
        EndFinalizing, DeallocateList
  <2> QED BY <2>1, PopIndex, StackType
<1>1. ASSUME finalized' = finalized, stack' = stack, phase' # "finalizing" PROVE FinalizersOK'
  BY <1>1 DEF FinalizersOK, Finalizers
<1>2. ASSUME NEW b, finalized' = finalized, stack' = WithTop([Top EXCEPT !.saved = b]),
             phase' = "finalizing" => work' = nonRootList'
      PROVE  FinalizersOK'
  <2> DEFINE f == [Top EXCEPT !.saved = b]
  <2>1. f.op = TopOp /\ f.obj = Top.obj /\ stack' = WithTop(f)
    BY <1>0, <1>2 DEF Frames
  <2> HIDE DEF f
  <2> QED BY <1>0, <1>2, <2>1, FinalizersKept DEF FinalizersOK
<1>3. CASE NextRound \/ EndCounting \/ EndTraceCounting \/ EndRoot
  BY <1>1, <1>3 DEF NextRound, EndCounting, EndTraceCounting, EndRoot
<1>4. ASSUME NEW o \in Objects, StartCounting(o) \/ StartRoot(o) PROVE FinalizersOK'
  BY <1>1, <1>4 DEF StartCounting, StartRoot
<1>5. ASSUME NEW c \in Ccs, TraceCounting(c) \/ TraceRoots(c) PROVE FinalizersOK'
  BY <1>1, <1>5 DEF TraceCounting, TraceRoots
<1>6. CASE EndCollect
  <2>1. stack' = Popped /\ finalized' = finalized /\ phase' = "idle"
    BY <1>6 DEF EndCollect
  <2> QED BY <1>0, <2>1, FinalizersKept DEF FinalizersOK
<1>7. CASE EndTraceRoots
  BY <1>1, <1>2, <1>7 DEF EndTraceRoots
<1>8. CASE EndFinalizing
  BY <1>1, <1>2, <1>8 DEF EndFinalizing
<1>9. ASSUME NEW o \in Objects, FinalizeInner(o) PROVE FinalizersOK'
  <2>1. CASE ~NeedsFinalization(o)
    BY <1>9, <2>1 DEF FinalizeInner, NeedsFinalization, FinalizersOK, Finalizers
  <2>2. CASE NeedsFinalization(o)
    <3> DEFINE f == Frame("finalizeList", o, "none", FALSE)
    <3>1. /\ stack' = Append(stack, f) /\ f.obj = o /\ hasFinalized' = TRUE /\ phase' = phase
          /\ ~finalized[o] /\ finalized'[o]
          /\ \A x \in Objects : finalized'[x] = finalized[x] \/ finalized'[x]
      BY <1>9, <2>2 DEF FinalizeInner, Push, Frame, NeedsFinalization, TypeOK
    <3> HIDE DEF f
    <3>2. /\ KeepsBelow(Len(stack)) /\ Len(stack') = Len(stack) + 1 /\ Len(stack) \in Nat
          /\ stack'[Len(stack) + 1] = f
      BY <3>1, KeepsPush, StackType
    <3>3. \A i \in Finalizers : finalized'[stack[i].obj]
      BY <3>1, FinalizedStays
    <3> QED BY <3>1, <3>2, <3>3, FinalizersStep
  <2> QED BY <2>1, <2>2
<1>10. ASSUME NEW o \in Objects, DropInner(o) PROVE FinalizersOK'
  <2>1. /\ stack' = Append(stack, Frame("dropList", o, "none", FALSE))
        /\ UNCHANGED <<finalized, phase>> /\ phase = "dropping"
    BY <1>10 DEF DropInner, Push
  <2> QED BY <2>1, FinalizersKept DEF FinalizersOK, Frame
<1>11. CASE DeallocateList
  <2>1. phase = "dropping" /\ phase' = "loop" /\ stack' = stack
    BY <1>11 DEF DeallocateList
  <2>2. \A o \in Objects : ~Gone(o) => finalized'[o] = finalized[o]
    BY <1>11, <2>1 DEF DeallocateList, Dealloc, Gone, Decided
  <2>3. \A i \in Finalizers : finalized'[stack[i].obj]
    BY <2>2, FinalizedStays
  <2> QED BY <2>1, <2>3, FinalizersKept
<1> QED
  BY <1>3, <1>4, <1>5, <1>6, <1>7, <1>8, <1>9, <1>10, <1>11 DEF CollectorStep

LEMMA NextFinalizers ==
    ASSUME TypeOK, StackInv, SafeInv, FinalizersOK, [Next]_vars
    PROVE  FinalizersOK'
<1>1. CASE UNCHANGED vars
  BY <1>1 DEF vars, boxVars, listVars, loopVars, callVars, FinalizersOK, Finalizers
<1>2. CASE Next
  BY <1>2, UserFinalizers, DropFinalizers, ReturnFinalizers, CollectorFinalizers DEF Next
<1> QED BY <1>1, <1>2

LEMMA InitFinalizers == Init => FinalizersOK
BY DEF Init, FinalizersOK, Finalizers

-----------------------------------------------------------------------------
(* The buffered objects are reset, unless a Trace implementation panics. *)

(* Between the first and the last step of tracing nothing unwinds, so the    *)
(* tracing counters of the objects that are still buffered are not left      *)
(* behind.                                                                   *)
ResetInv == BufferedIsReset /\ (phase \in {"loop", "counting", "roots"} => ~panicking)

LEMMA ResetKept ==
    ASSUME ResetInv, phase # "counting",
           \A o \in pc' : tracing'[o] = 0 \/ (o \in pc /\ tracing'[o] = tracing[o]),
           phase' \in {"loop", "counting", "roots"} => ~panicking'
    PROVE  ResetInv'
BY DEF ResetInv, BufferedIsReset

LEMMA ResetBuffer ==
    ASSUME TypeOK, NEW o \in Objects,
           AddToList(o) \/ (RemoveFromList(o) /\ tracing' = tracing)
    PROVE  \A x \in pc' : tracing'[x] = 0 \/ (x \in pc /\ tracing'[x] = tracing[x])
BY DEF AddToList, RemoveFromList, TypeOK

(* The steps of the program and of Cc::drop, and those in which it returns.  *)
LEMMA ProgramResets ==
    ASSUME TypeOK, StackInv, SafeInv, ResetInv, TopOp # "collect",
           \/ UNCHANGED phase \/ CollectCycles,
           \A o \in pc' : tracing'[o] = 0 \/ (o \in pc /\ tracing'[o] = tracing[o])
    PROVE  ResetInv'
<1>1. phase \notin {"loop", "counting", "roots"}
  BY NotCollecting
<1>2. CollectCycles => ~panicking'
  BY DEF CollectCycles, UserRunning
<1> QED BY <1>1, <1>2, ResetKept

LEMMA UserResets ==
    ASSUME TypeOK, TypeOK', StackInv, SafeInv, ResetInv, "TracePanic" \notin UserOps, UserStep
    PROVE  ResetInv'
<1> USE PartsOfInv
<1> USE DEF boxVars, ccVars, pcVars, listVars, flagVars, loopVars, callVars
<1>0. TopOp # "collect"
  BY DEF UserStep, New, Upgrade, Store, BorrowCell, Clone, MarkAlive, Take, TryUnwrap,
      FinalizeAgain, CollectCycles, UserPanic, TracePanic, Catch, UserRunning
<1>1. ASSUME NEW c \in Ccs, NEW o \in Objects, New(c, o) PROVE ResetInv'
  <2>1. Gone(o) /\ o \notin pc /\ pc' = pc /\ phase' = phase
    BY <1>1, GoneTells DEF New, ListsOK
  <2>2. \A x \in pc' : tracing'[x] = tracing[x]
    BY <1>1, <2>1 DEF New, TypeOK
  <2> QED BY <1>0, <2>1, <2>2, ProgramResets
<1>2. ASSUME NEW d \in Ccs, NEW o \in Objects, NewPointer(d, o) PROVE ResetInv'
  BY <1>0, <1>2, ResetBuffer, ProgramResets DEF NewPointer
<1>3. ASSUME NEW c \in Ccs, NEW o \in Objects, Upgrade(o, c) PROVE ResetInv'
  BY <1>2, <1>3 DEF Upgrade
<1>4. ASSUME NEW c \in Ccs, NEW d \in Ccs, Clone(c, d) PROVE ResetInv'
  BY <1>2, <1>4, UsableTells DEF Clone
<1>5. ASSUME NEW c \in Ccs, MarkAlive(c) PROVE ResetInv'
  BY <1>0, <1>5, UsableTells, ResetBuffer, ProgramResets DEF MarkAlive
<1>6. ASSUME NEW c \in Ccs, TryUnwrap(c) PROVE ResetInv'
  <2>1. \A o \in Objects : tracing'[o] = 0 \/ tracing'[o] = tracing[o]
    BY <1>6 DEF TryUnwrap, Dealloc
  <2>2. pc' \subseteq pc /\ pc \subseteq Objects /\ phase' = phase
    BY <1>6 DEF TryUnwrap, RemoveFromList, TypeOK
  <2> QED BY <1>0, <2>1, <2>2, ProgramResets
<1>7. ASSUME NEW c \in Ccs, NEW o \in Objects, Store(c, o) PROVE ResetInv'
  BY <1>0, <1>7, ProgramResets DEF Store
<1>8. ASSUME NEW c \in Ccs, Take(c) \/ FinalizeAgain(c) PROVE ResetInv'
  BY <1>0, <1>8, ProgramResets DEF Take, FinalizeAgain
<1>9. ASSUME NEW o \in Objects, BorrowCell(o) PROVE ResetInv'
  BY <1>0, <1>9, ProgramResets DEF BorrowCell
<1>10. CASE CollectCycles \/ UserPanic \/ TracePanic \/ Catch
  BY <1>0, <1>10, ProgramResets DEF CollectCycles, UserPanic, TracePanic, Catch
<1> QED
  BY <1>1, <1>3, <1>4, <1>5, <1>6, <1>7, <1>8, <1>9, <1>10 DEF UserStep

(* A value whose drop glue starts is not buffered. *)
LEMMA DropValueResets ==
    ASSUME TypeOK, TypeOK', MarksMatchLists, NEW c \in Ccs, target[c] \in Objects,
           NEW below, DropValue(c, below)
    PROVE  /\ phase' = phase
           /\ \A x \in pc' : x \in pc /\ tracing'[x] = tracing[x]
<1>1. PICK t \in Objects : t = target[c]
  OBVIOUS
<1>2. /\ RemoveFromList(t) /\ phase' = phase
      /\ \A x \in Objects \ {t} : tracing'[x] = tracing[x]
  BY <1>1 DEF DropValue, loopVars, TypeOK
<1>3. t \notin pc' /\ pc' \subseteq pc /\ pc \subseteq Objects
  <2>1. pc \subseteq Objects /\ (t \in pc => mark[t] = "PossibleCycles")
    BY DEF MarksMatchLists, TypeOK
  <2>2. IF mark[t] = "PossibleCycles" THEN pc' = pc \ {t} ELSE pc' = pc
    BY <1>2 DEF RemoveFromList
  <2> QED BY <2>1, <2>2
<1> QED BY <1>2, <1>3

LEMMA DropResets ==
    ASSUME TypeOK, TypeOK', StackInv, SafeInv, ResetInv, NEW c \in Ccs, CcDrop(c)
    PROVE  ResetInv'
<1> USE DEF boxVars, pcVars, loopVars
<1>0. TopOp # "collect" /\ target[c] \in Objects
  BY DroppableTells DEF CcDrop, DropListed, DropShared, DropFinalize, DropLast
<1>1. CASE DropListed(c) \/ DropFinalize(c)
  BY <1>0, <1>1, ProgramResets DEF DropListed, DropFinalize
<1>2. CASE DropShared(c)
  BY <1>0, <1>2, ResetBuffer, ProgramResets DEF DropShared, HandlePossibleCycle
<1>3. CASE DropLast(c)
  BY <1>0, <1>3, PartsOfInv, DropValueResets, ProgramResets DEF DropLast
<1> QED BY <1>1, <1>2, <1>3 DEF CcDrop

LEMMA ReturnResets ==
    ASSUME TypeOK, TypeOK', StackInv, SafeInv, ResetInv,
           \/ UserReturn \/ EndDropCc \/ EndDropInner
           \/ UnwindFinalizer \/ UnwindDropGlue
    PROVE  ResetInv'
<1> USE DEF boxVars, pcVars, loopVars
<1>0. TopOp # "collect"
  BY DEF UserReturn, EndFinalizeCc, EndFinalizeList, EndDropCc, EndDropInner,
      UnwindFinalizer, UnwindDropGlue
<1>1. CASE EndFinalizeList \/ EndDropInner \/ UnwindFinalizer \/ UnwindDropGlue
  BY <1>0, <1>1, ProgramResets
  DEF EndFinalizeList, EndDropInner, UnwindFinalizer, UnwindDropGlue
<1>2. CASE EndDropCc
  <2>1. \A o \in Objects : tracing'[o] = 0 \/ tracing'[o] = tracing[o]
    BY <1>2 DEF EndDropCc, Dealloc
  <2>2. pc' = pc /\ pc \subseteq Objects /\ phase' = phase
    BY <1>2 DEF EndDropCc, TypeOK
  <2> QED BY <1>0, <2>1, <2>2, ProgramResets
<1>3. CASE EndFinalizeCc
  <2>1. Top.cc \in Ccs /\ target[Top.cc] \in Objects
    BY <1>3, FrameTells DEF EndFinalizeCc
  <2>2. CASE counter[Top.obj] # 1
    <3>1. AddToList(target[Top.cc]) /\ phase' = phase
      BY <1>3, <2>2 DEF EndFinalizeCc, HandlePossibleCycle
    <3> QED BY <1>0, <2>1, <3>1, ResetBuffer, ProgramResets
  <2>3. CASE counter[Top.obj] = 1
    <3>1. DropValue(Top.cc, Popped)
      BY <1>3, <2>3 DEF EndFinalizeCc
    <3> QED BY <1>0, <2>1, <3>1, PartsOfInv, DropValueResets, ProgramResets
  <2> QED BY <2>2, <2>3
<1> QED BY <1>0, <1>1, <1>2, <1>3 DEF UserReturn

LEMMA CollectorResets ==
    ASSUME TypeOK, TypeOK', StackInv, SafeInv, ResetInv, CollectorStep
    PROVE  ResetInv'
<1> USE PartsOfInv
<1> USE DEF boxVars, pcVars, callVars, Collector
<1>1. CASE EndCollect \/ EndRoot \/ EndTraceRoots
  BY <1>1, ResetKept DEF EndCollect, EndRoot, EndTraceRoots
<1>2. CASE NextRound \/ EndCounting \/ \E o \in Objects : StartCounting(o)
  BY <1>2 DEF NextRound, EndCounting, StartCounting, ResetInv, BufferedIsReset
<1>3. CASE \E c \in Ccs : TraceCounting(c)
  BY <1>3 DEF TraceCounting, ResetInv, BufferedIsReset
<1>4. CASE EndTraceCounting
  BY <1>4 DEF EndTraceCounting, ResetInv, BufferedIsReset
<1>5. ASSUME NEW o \in Objects, StartRoot(o) \/ FinalizeInner(o) PROVE ResetInv'
  <2>1. UNCHANGED <<pc, tracing, phase, panicking>> /\ phase # "counting"
    BY <1>5 DEF StartRoot, FinalizeInner
  <2> QED BY <2>1, ResetKept DEF ResetInv
<1>6. ASSUME NEW c \in Ccs, TraceRoots(c) PROVE ResetInv'
  BY <1>6, ResetKept DEF TraceRoots
<1>7. CASE EndFinalizing
  <2>1. phase = "finalizing" /\ ~panicking /\ ~panicking'
    BY <1>7 DEF EndFinalizing
  <2>2. \A o \in pc' : tracing'[o] = 0 \/ (o \in pc /\ tracing'[o] = tracing[o])
    BY <1>7 DEF EndFinalizing, SwapAndAppend, TypeOK
  <2> QED BY <2>1, <2>2, ResetKept
<1>8. ASSUME NEW o \in Objects, DropInner(o) PROVE ResetInv'
  <2>1. phase = "dropping" /\ phase' = phase /\ pc' = pc /\ pc \subseteq Objects /\ o \notin pc
    BY <1>8 DEF DropInner, PhaseOK, ListsOK, Gone, Decided, TypeOK
  <2>2. \A x \in pc : tracing'[x] = tracing[x]
    BY <1>8, <2>1 DEF DropInner, TypeOK
  <2> QED BY <2>1, <2>2, ResetKept
<1>9. CASE DeallocateList
  <2>1. phase = "dropping" /\ pc' = pc /\ pc \subseteq Objects /\ ~panicking'
    BY <1>9 DEF DeallocateList, TypeOK
  <2>2. \A o \in Objects : tracing'[o] = 0 \/ tracing'[o] = tracing[o]
    BY <1>9 DEF DeallocateList, Dealloc
  <2> QED BY <2>1, <2>2, ResetKept
<1> QED BY <1>1, <1>2, <1>3, <1>4, <1>5, <1>6, <1>7, <1>8, <1>9 DEF CollectorStep

LEMMA NextResets ==
    ASSUME TypeOK, TypeOK', StackInv, SafeInv, ResetInv, "TracePanic" \notin UserOps, [Next]_vars
    PROVE  ResetInv'
<1>1. CASE UNCHANGED vars
  BY <1>1 DEF vars, boxVars, pcVars, loopVars, callVars, ResetInv, BufferedIsReset
<1>2. CASE UserStep
  BY <1>2, UserResets
<1>3. ASSUME NEW c \in Ccs, CcDrop(c) PROVE ResetInv'
  BY <1>3, DropResets
<1>4. CASE UserReturn \/ EndDropCc \/ EndDropInner
  BY <1>4, ReturnResets
<1>5. CASE CollectorStep
  BY <1>5, CollectorResets
<1>6. CASE UnwindCollect
  <2>1. panicking /\ TopOp = "collect" /\ pc' = pc /\ phase' = "idle"
    BY <1>6 DEF UnwindCollect, pcVars
  <2>2. phase \notin {"loop", "counting", "roots"}
    BY <2>1 DEF ResetInv
  <2>3. \A o \in pc : tracing'[o] = tracing[o]
    <3>1. \A o \in pc : o \in Objects /\ ~(phase = "dropping" /\ o \in nonRootList)
      BY PartsOfInv DEF ListsOK, Gone, Decided, TypeOK
    <3> QED BY <1>6, <3>1 DEF UnwindCollect
  <2> QED BY <2>1, <2>2, <2>3, ResetKept
<1>7. CASE UnwindFinalizer \/ UnwindDropGlue
  BY <1>7, ReturnResets
<1> QED BY <1>1, <1>2, <1>3, <1>4, <1>5, <1>6, <1>7 DEF Next, UnwindStep

-----------------------------------------------------------------------------
(* A collection advances.  Who is in which list and the marks say that an    *)
(* object the collector meets was not met before; code of the program does   *)
(* not touch the state of the collection.                                    *)

LEMMA OthersAdvance ==
    ASSUME TypeOK, StackInv, SafeInv, TopOp # "collect", UNCHANGED loopVars
    PROVE  Forward
<1>1. phase \in {"idle", "finalizing", "dropping"}
  BY NotCollecting
<1>2. UNCHANGED <<round, phase, Unreached, Waiting, current, todo>>
  BY <1>1 DEF loopVars, Unreached, Waiting
<1> QED BY <1>2 DEF Forward

LEMMA UserAdvances ==
    ASSUME TypeOK, StackInv, SafeInv, UserStep
    PROVE  Forward
<1>1. CASE CollectCycles
  <2>1. phase = "idle"
    BY <1>1, PartsOfInv DEF CollectCycles, FlagsOK, CollectFrames
  <2> QED BY <2>1 DEF Forward
<1>2. CASE TracePanic
  <2>1. panicking' /\ UNCHANGED <<mark, pc, rootList, nonRootList, queue, loopVars>>
    BY <1>2 DEF TracePanic, boxVars, pcVars, listVars
  <2>2. UNCHANGED <<round, phase, Unreached, Waiting, current, todo>>
    BY <2>1 DEF loopVars, Unreached, Waiting
  <2> QED BY <2>1, <2>2 DEF Forward
<1>3. ASSUME NEW c \in Ccs, NEW o \in Objects, New(c, o) \/ Upgrade(o, c) \/ Store(c, o)
      PROVE  Forward
  <2>1. TopOp # "collect" /\ UNCHANGED loopVars
    BY <1>3 DEF New, Upgrade, Store, NewPointer, UserRunning
  <2> QED BY <2>1, OthersAdvance
<1>4. ASSUME NEW c \in Ccs, NEW d \in Ccs, Clone(c, d) PROVE Forward
  BY <1>4, OthersAdvance DEF Clone, NewPointer, UserRunning
<1>5. CASE UserPanic \/ Catch
  BY <1>5, OthersAdvance DEF UserPanic, Catch, UserRunning
<1>6. ASSUME NEW o \in Objects, BorrowCell(o) PROVE Forward
  BY <1>6, OthersAdvance DEF BorrowCell, UserRunning
<1>7. ASSUME NEW c \in Ccs, MarkAlive(c) \/ Take(c) \/ TryUnwrap(c) \/ FinalizeAgain(c)
      PROVE  Forward
  <2>1. TopOp # "collect" /\ UNCHANGED loopVars
    BY <1>7 DEF MarkAlive, Take, TryUnwrap, FinalizeAgain, UserRunning
  <2> QED BY <2>1, OthersAdvance
<1> QED BY <1>1, <1>2, <1>3, <1>4, <1>5, <1>6, <1>7 DEF UserStep

LEMMA ReturnAdvances ==
    ASSUME TypeOK, StackInv, SafeInv,
           \/ \E c \in Ccs : CcDrop(c)
           \/ UserReturn \/ EndDropCc \/ EndDropInner \/ UnwindStep
    PROVE  Forward
<1>1. ASSUME NEW c \in Ccs, CcDrop(c) PROVE Forward
  <2>1. TopOp # "collect"
    BY <1>1 DEF CcDrop, DropListed, DropShared, DropFinalize, DropLast, Droppable, UserRunning
  <2>2. UNCHANGED loopVars
    BY <1>1 DEF CcDrop, DropListed, DropShared, DropFinalize, DropLast, DropValue
  <2> QED BY <2>1, <2>2, OthersAdvance
<1>2. CASE UserReturn \/ EndDropCc \/ EndDropInner
  <2>1. TopOp # "collect" /\ UNCHANGED loopVars
    BY <1>2 DEF UserReturn, EndFinalizeCc, EndFinalizeList, DropValue, EndDropCc, EndDropInner
  <2> QED BY <2>1, OthersAdvance
<1>3. CASE UnwindFinalizer \/ UnwindDropGlue
  BY <1>3, OthersAdvance DEF UnwindFinalizer, UnwindDropGlue
<1>4. CASE UnwindCollect
  BY <1>4 DEF UnwindCollect, Forward
<1> QED BY <1>1, <1>2, <1>3, <1>4 DEF UnwindStep

LEMMA CountingAdvances ==
    ASSUME TypeOK, StackInv, SafeInv,
           \/ \E o \in Objects : StartCounting(o)
           \/ \E c \in Ccs : TraceCounting(c)
           \/ EndCounting
    PROVE  Forward
<1>0. /\ mark \in [Objects -> Marks] /\ pc \subseteq Objects /\ queue \subseteq Objects
      /\ \A o \in Objects : /\ o \in pc => mark[o] = "PossibleCycles"
                            /\ o \in queue => mark[o] = "InQueue"
  BY PartsOfInv DEF MarksMatchLists, TypeOK
<1>1. phase = "counting" /\ UNCHANGED <<round, phase>>
  BY DEF StartCounting, TraceCounting, EndCounting, Collector
<1>2. /\ Unreached = {o \in Objects : mark[o] = "NonMarked"}
      /\ Unreached' = {o \in Objects : mark'[o] = "NonMarked"}
      /\ Waiting = {o \in Objects : o \in pc \cup queue}
      /\ Waiting' = {o \in Objects : o \in pc' \cup queue'}
  BY <1>1 DEF Unreached, Waiting
<1>3. ASSUME NEW o \in Objects, StartCounting(o) PROVE Advances
  <2>1. mark[o] # "NonMarked" /\ \A x \in Objects \ {o} : mark'[x] = mark[x]
    BY <1>0, <1>3 DEF StartCounting
  <2>2. mark'[o] = "InQueue"
    BY <1>0, <1>3 DEF StartCounting
  <2>3. Unreached' = Unreached
    BY <1>2, <2>1, <2>2
  <2>4. /\ o \in pc \cup queue /\ o \notin pc' \cup queue'
        /\ pc' \subseteq pc /\ queue' \subseteq queue
    BY <1>0, <1>3 DEF StartCounting, pcVars
  <2>5. Waiting' \subseteq Waiting /\ Waiting' # Waiting
    BY <1>2, <2>4
  <2> QED BY <1>1, <2>3, <2>5 DEF Advances
<1>4. ASSUME NEW c \in Ccs, TraceCounting(c) PROVE Advances
  <2>1. todo' \subseteq todo /\ todo' # todo /\ UNCHANGED <<current, pc>>
    BY <1>4 DEF TraceCounting, pcVars
  <2>2. PICK t \in Objects : t = target[c]
    <3>1. current \in Objects /\ owner[c] = current
      BY <1>4, PartsOfInv DEF TraceCounting, PlacesOK
    <3> QED BY <3>1, PartsOfInv, PlacesAssumption DEF PlacesOK, TypeOK
  <2>3. CASE CountListed(t) \/ CountBuffered(t)
    <3>1. UNCHANGED <<mark, queue>>
      BY <2>3 DEF CountListed, CountBuffered, listVars
    <3> QED BY <1>1, <1>2, <2>1, <3>1 DEF Advances
  <2>4. CASE CountNew(t)
    <3>1. /\ mark[t] = "NonMarked" /\ mark'[t] = "InQueue"
          /\ \A x \in Objects \ {t} : mark'[x] = mark[x]
      BY <1>0, <2>4 DEF CountNew
    <3>2. Unreached' \subseteq Unreached /\ t \in Unreached /\ t \notin Unreached'
      BY <1>2, <3>1
    <3> QED BY <1>1, <3>2 DEF Advances
  <2> QED BY <1>4, <2>2, <2>3, <2>4 DEF TraceCounting
<1>5. CASE EndCounting
  <2>1. current # "none" /\ current \in Objects /\ mark[current] = "InQueue"
    BY <1>1, <1>5, PartsOfInv DEF EndCounting, MarksMatchLists, TypeOK
  <2>2. /\ mark'[current] = "InList" /\ \A x \in Objects \ {current} : mark'[x] = mark[x]
        /\ UNCHANGED <<pc, queue>> /\ current' = "none"
    BY <1>0, <1>5, <2>1 DEF EndCounting, pcVars
  <2>3. Unreached' = Unreached /\ Waiting' = Waiting
    BY <1>2, <2>1, <2>2
  <2> QED BY <1>1, <2>1, <2>2, <2>3 DEF Advances, Forward
<1> QED BY <1>3, <1>4, <1>5 DEF Forward

LEMMA RootsAdvance ==
    ASSUME TypeOK, StackInv, SafeInv,
           \/ \E o \in Objects : StartRoot(o)
           \/ \E c \in Ccs : TraceRoots(c)
           \/ EndRoot
    PROVE  Forward
<1>0. /\ rootList \subseteq Objects /\ nonRootList \subseteq Objects /\ queue \subseteq Objects
      /\ \A o \in Objects : /\ mark[o] = "InList" <=> o \in rootList \cup nonRootList
                            /\ o \in queue => mark[o] = "InQueue"
  BY PartsOfInv DEF MarksMatchLists, TypeOK
<1>1. phase = "roots" /\ UNCHANGED <<round, phase>>
  BY DEF StartRoot, TraceRoots, EndRoot, Collector
<1>2. /\ Unreached = {o \in Objects : o \in nonRootList}
      /\ Unreached' = {o \in Objects : o \in nonRootList'}
      /\ Waiting = {o \in Objects : o \in rootList \cup queue}
      /\ Waiting' = {o \in Objects : o \in rootList' \cup queue'}
  BY <1>1 DEF Unreached, Waiting
<1>3. ASSUME NEW o \in Objects, StartRoot(o) PROVE Advances
  <2>1. nonRootList' = nonRootList
    BY <1>3 DEF StartRoot
  <2>2. /\ o \in rootList \cup queue /\ o \notin rootList' \cup queue'
        /\ rootList' \subseteq rootList /\ queue' \subseteq queue
    BY <1>0, <1>3 DEF StartRoot
  <2>3. Waiting' \subseteq Waiting /\ Waiting' # Waiting
    BY <1>2, <2>2
  <2> QED BY <1>1, <1>2, <2>1, <2>3 DEF Advances
<1>4. ASSUME NEW c \in Ccs, TraceRoots(c) PROVE Advances
  <2>1. todo' \subseteq todo /\ todo' # todo /\ UNCHANGED <<current, rootList>>
    BY <1>4 DEF TraceRoots
  <2>2. PICK t \in Objects : t = target[c]
    <3>1. current \in Objects /\ owner[c] = current
      BY <1>4, PartsOfInv DEF TraceRoots, PlacesOK
    <3> QED BY <3>1, PartsOfInv, PlacesAssumption DEF PlacesOK, TypeOK
  <2>3. CASE InNonRootList(t)
    <3>1. t \in nonRootList
      BY <1>0, <1>1, <2>3, PartsOfInv DEF InNonRootList, TracingOK
    <3>2. nonRootList' = nonRootList \ {t}
      BY <1>4, <2>2, <2>3 DEF TraceRoots, Requeue
    <3> QED BY <1>0, <1>1, <1>2, <3>1, <3>2 DEF Advances
  <2>4. CASE ~InNonRootList(t)
    <3>1. UNCHANGED <<nonRootList, queue>>
      BY <1>4, <2>2, <2>4 DEF TraceRoots
    <3> QED BY <1>1, <1>2, <2>1, <3>1 DEF Advances
  <2> QED BY <2>3, <2>4
<1>5. CASE EndRoot
  <2>1. current # "none" /\ current' = "none" /\ UNCHANGED <<rootList, nonRootList, queue>>
    BY <1>5 DEF EndRoot, listVars
  <2>2. Unreached' = Unreached /\ Waiting' = Waiting
    BY <1>2, <2>1
  <2> QED BY <1>1, <2>1, <2>2 DEF Advances, Forward
<1> QED BY <1>3, <1>4, <1>5 DEF Forward

LEMMA WorkAdvances ==
    ASSUME TypeOK, NEW o \in Objects, FinalizeInner(o) \/ DropInner(o)
    PROVE  Forward
<1>1. /\ phase \in {"finalizing", "dropping"} /\ UNCHANGED <<round, phase>>
      /\ o \in work /\ work' = work \ {o}
  BY DEF FinalizeInner, DropInner, Collector
<1>2. Unreached' \subseteq Unreached /\ o \in Unreached /\ o \notin Unreached'
  BY <1>1 DEF Unreached
<1> QED BY <1>1, <1>2 DEF Advances, Forward

LEMMA NextAdvances ==
    ASSUME TypeOK, StackInv, SafeInv, Next
    PROVE  Forward
<1>1. CASE NextRound \/ EndCollect
  BY <1>1 DEF NextRound, EndCollect, Forward, Advances
<1>2. CASE EndTraceCounting \/ EndTraceRoots \/ EndFinalizing \/ DeallocateList
  <2>1. round' = round /\ <<phase, phase'>> \in PhaseOrder
    BY <1>2 DEF EndTraceCounting, EndTraceRoots, EndFinalizing, DeallocateList, Collector, PhaseOrder
  <2> QED BY <2>1 DEF Forward, Advances
<1>3. CASE CollectorStep
  BY <1>1, <1>2, <1>3, CountingAdvances, RootsAdvance, WorkAdvances DEF CollectorStep
<1> QED BY <1>3, UserAdvances, ReturnAdvances DEF Next

-----------------------------------------------------------------------------
(* The theorems.  They hold of the executions in which no tracing counter of *)
(* a buffered object is stale: BufferedIsReset is what __collect relies on   *)
(* and what a panic of a Trace implementation breaks (ResetCorrect says that *)
(* nothing else does).                                                       *)

LEMMA SafeTells ==
    ASSUME TypeOK, CollectorInv
    PROVE  /\ CounterExact /\ MarksMatchLists /\ TracingExact
           /\ ListedIsLive /\ DoomedIsUnreachable /\ AccessibleIsLive
<1> USE PartsOfInv DEF CollectorInv
<1>1. CounterExact /\ MarksMatchLists /\ TracingExact
  OBVIOUS
<1>2. ListedIsLive
  BY GoneTells DEF ListedIsLive, ListsOK, PhaseOK, TypeOK
<1>3. DoomedIsUnreachable
  BY DEF DoomedIsUnreachable, GoneOK, NonRootOK
<1>4. AccessibleIsLive
  BY AccessibleTells, GoneTells DEF AccessibleIsLive
<1> QED BY <1>1, <1>2, <1>3, <1>4

LEMMA NextInv ==
    ASSUME TypeOK, CollectorInv, BufferedIsReset, [Next]_vars
    PROVE  TypeOK' /\ CollectorInv'
<1>1. TypeOK'
  BY NextType DEF CollectorInv, StackInv
<1>2. StackInv'
  BY NextPlaces, NextFrames DEF CollectorInv, StackInv
<1>3. SafeInv'
  BY <1>1, <1>2, NextSafe DEF CollectorInv
<1>4. FinalizersOK'
  BY NextFinalizers DEF CollectorInv
<1> QED BY <1>1, <1>2, <1>3, <1>4 DEF CollectorInv

(* The inductive invariant: the call stack fits the collection, the lists    *)
(* hold nothing that is gone, what leads to a value that is gone is gone     *)
(* itself, and the counters tell what has been traced (lib.rs, __collect and *)
(* deallocate_list; cc.rs, drop).                                            *)
THEOREM CollectorInvariant == Spec /\ []BufferedIsReset => [](TypeOK /\ CollectorInv)
<1>1. Init => TypeOK /\ CollectorInv
  BY InitType, InitStack, InitSafe, InitFinalizers DEF CollectorInv
<1>2. TypeOK /\ CollectorInv /\ BufferedIsReset /\ [Next]_vars => (TypeOK /\ CollectorInv)'
  BY NextInv
<1> QED BY <1>1, <1>2, PTL DEF Spec

(* A reference counter is the number of Ccs to the allocation, through       *)
(* nested finalizers, destructors, collections and panics (cc.rs, drop).     *)
THEOREM CounterCorrect == Spec /\ []BufferedIsReset => []CounterExact
<1>1. TypeOK /\ CollectorInv => CounterExact
  BY SafeTells
<1> QED BY <1>1, CollectorInvariant, PTL

(* The mark of an object says in which list it is, and the size field of     *)
(* PossibleCycles is its length (cc.rs, add_to_list and remove_from_list).   *)
THEOREM MarksCorrect == Spec /\ []BufferedIsReset => []MarksMatchLists
<1>1. TypeOK /\ CollectorInv => MarksMatchLists
  BY SafeTells
<1> QED BY <1>1, CollectorInvariant, PTL

(* While trace_counting runs, the tracing counter of an object is the number *)
(* of its Ccs traced so far (cc.rs, CcBox::trace).                           *)
THEOREM TracingCorrect == Spec /\ []BufferedIsReset => []TracingExact
<1>1. TypeOK /\ CollectorInv => TracingExact
  BY SafeTells
<1> QED BY <1>1, CollectorInvariant, PTL

(* No list of the collector keeps a dropped or freed allocation, but         *)
(* non_root_list those it has dropped so far (lib.rs, deallocate_list).      *)
THEOREM ListedCorrect == Spec /\ []BufferedIsReset => []ListedIsLive
<1>1. TypeOK /\ CollectorInv => ListedIsLive
  BY SafeTells
<1> QED BY <1>1, CollectorInvariant, PTL

(* Once the collector decided to drop non_root_list, nobody but its members  *)
(* holds a Cc to a member (lib.rs, __collect).                               *)
THEOREM DoomedCorrect == Spec /\ []BufferedIsReset => []DoomedIsUnreachable
<1>1. TypeOK /\ CollectorInv => DoomedIsUnreachable
  BY SafeTells
<1> QED BY <1>1, CollectorInvariant, PTL

(* What the program can reach was neither dropped nor given back.            *)
THEOREM AccessibleCorrect == Spec /\ []BufferedIsReset => []AccessibleIsLive
<1>1. TypeOK /\ CollectorInv => AccessibleIsLive
  BY SafeTells
<1> QED BY <1>1, CollectorInvariant, PTL

(* A buffered object has the tracing counter 0 when a round starts, unless a *)
(* Trace implementation panicked (lib.rs, trace_counting: "already been      *)
(* reset by add_to_list").                                                   *)
THEOREM ResetCorrect ==
    ASSUME "TracePanic" \notin UserOps
    PROVE  Spec => []BufferedIsReset
<1> DEFINE Inv == TypeOK /\ CollectorInv /\ ResetInv
<1>1. Init => Inv
  BY InitType, InitStack, InitSafe, InitFinalizers DEF Init, CollectorInv, ResetInv, BufferedIsReset
<1>2. Inv /\ [Next]_vars => Inv'
  <2> SUFFICES ASSUME TypeOK, CollectorInv, ResetInv, [Next]_vars PROVE Inv'
    OBVIOUS
  <2>1. TypeOK' /\ CollectorInv'
    BY NextInv DEF ResetInv
  <2>2. ResetInv'
    BY <2>1, NextResets DEF CollectorInv
  <2> QED BY <2>1, <2>2
<1>3. Inv => BufferedIsReset
  BY DEF ResetInv
<1> QED BY <1>1, <1>2, <1>3, PTL DEF Spec

(* A collection only ever goes forward: in a round no object is reached      *)
(* twice by trace_counting or taken out of non_root_list twice by            *)
(* trace_roots, nor finalized or dropped twice, and whatever code of the     *)
(* program a finalizer or destructor runs, it does not set the collection    *)
(* back.  The sets are finite and the rounds bounded, so no collection goes  *)
(* on for ever by itself (lib.rs, collect, __collect).                       *)
THEOREM CollectionProgresses == Spec /\ []BufferedIsReset => CollectionAdvances
<1>1. TypeOK /\ CollectorInv /\ [Next]_vars => [Forward]_vars
  BY NextAdvances DEF CollectorInv
<1> QED BY <1>1, CollectorInvariant, PTL DEF Spec, CollectionAdvances

(* A program whose Trace implementations do not panic is safe, whatever else *)
(* it does or lets panic.                                                    *)
THEOREM ProgramIsSafe ==
    ASSUME "TracePanic" \notin UserOps
    PROVE  Spec => [](CounterExact /\ MarksMatchLists /\ DoomedIsUnreachable /\ AccessibleIsLive)
BY ResetCorrect, CounterCorrect, MarksCorrect, DoomedCorrect, AccessibleCorrect, PTL

(* Nor does such a program make a collection go back.                        *)
THEOREM ProgramProgresses ==
    ASSUME "TracePanic" \notin UserOps
    PROVE  Spec => CollectionAdvances
BY ResetCorrect, CollectionProgresses, PTL
==============================================================================
