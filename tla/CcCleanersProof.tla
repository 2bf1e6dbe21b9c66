--------------------------- MODULE CcCleanersProof ---------------------------
(* The safety properties of CcCleaners, for any number of cleaning actions   *)
(* and any nesting of calls.                                                 *)
EXTENDS CcCleaners, FiniteSetTheorems, SequenceTheorems, TLAPS

-----------------------------------------------------------------------------
(* The inductive invariant *)

One(b) == IF b THEN 1 ELSE 0

(* One clean() at a time borrows the map, and it is the one on the stack. *)
OneClean ==
    /\ borrowed <=> \E i \in 1..Len(stack) : stack[i].op = "clean"
    /\ \A i, j \in 1..Len(stack) : stack[i].op = "clean" /\ stack[j].op = "clean" => i = j

(* While register() runs for the first time, its Cleaner cannot go away. *)
RegisterHoldsCleaner ==
    \A i \in 1..Len(stack) : stack[i].op = "register" => cleaner /\ stack[i].act \in Actions

(* The Ccs of the map are that of the Cleaner and that of clean(). *)
HoldersOfMap ==
    /\ cleaner => map \in {"none", "live"}
    /\ borrowed => map = "live"
    /\ strong = IF map = "live" THEN One(borrowed) + One(cleaner) ELSE 0
    /\ map = "live" => borrowed \/ cleaner

(* Nothing is registered in a map that does not exist, and the drop glue of   *)
(* the map runs only when the last Cc of it was dropped.                      *)
NothingWithoutMap ==
    /\ map = "none" => \A a \in Actions : slot[a] = "unregistered"
    /\ \A i \in 1..Len(stack) : stack[i].op = "dropMap" => map \notin {"none", "live"}

Inv == TypeOK /\ RunOnce /\ OneClean /\ RegisterHoldsCleaner /\ HoldersOfMap /\ NothingWithoutMap

-----------------------------------------------------------------------------
(* The call stack and its counts *)

LEMMA FrameType ==
    ASSUME NEW op \in Ops, NEW a \in Actions \cup {"none"}, NEW u \in BOOLEAN
    PROVE  /\ Frame(op, a, u) \in Frames
           /\ Frame(op, a, u).op = op /\ Frame(op, a, u).act = a /\ Frame(op, a, u).unwinding = u
BY DEF Frame, Frames

LEMMA PushTells ==
    ASSUME NEW s \in Seq(Frames), NEW f \in Frames
    PROVE  /\ Append(s, f) \in Seq(Frames) /\ Len(s) \in Nat
           /\ Len(Append(s, f)) = Len(s) + 1 /\ Append(s, f)[Len(s) + 1] = f
           /\ \A i \in 1..Len(s) : Append(s, f)[i] = s[i]
OBVIOUS

LEMMA PopTells ==
    ASSUME NEW s \in Seq(Frames), s # <<>>
    PROVE  /\ SubSeq(s, 1, Len(s) - 1) \in Seq(Frames) /\ s[Len(s)] \in Frames
           /\ Len(s) \in Nat \ {0} /\ Len(SubSeq(s, 1, Len(s) - 1)) = Len(s) - 1
           /\ \A i \in 1..(Len(s) - 1) : SubSeq(s, 1, Len(s) - 1)[i] = s[i]
<1>1. SubSeq(s, 1, Len(s) - 1) \in Seq(Frames) /\ s[Len(s)] \in Frames
  OBVIOUS
<1>2. Len(s) \in Nat \ {0}
  OBVIOUS
<1> DEFINE n == Len(s) - 1
<1>3. n \in Int /\ n >= 0 /\ \A i \in 1..n : s[i] \in Frames
  BY <1>2
<1>4. /\ Len(SubSeq(s, 1, n)) = IF 1 <= n THEN n - 1 + 1 ELSE 0
      /\ \A i \in 1..(n - 1 + 1) : SubSeq(s, 1, n)[i] = s[1 + i - 1]
  <2> HIDE DEF n
  <2> QED BY <1>3, SubSeqProperties
<1>5. Len(SubSeq(s, 1, n)) = n /\ \A i \in 1..n : SubSeq(s, 1, n)[i] = s[i]
  <2> HIDE DEF n
  <2>1. (IF 1 <= n THEN n - 1 + 1 ELSE 0) = n /\ n - 1 + 1 = n
    BY <1>3
  <2>2. ASSUME NEW i \in 1..n PROVE SubSeq(s, 1, n)[i] = s[i]
    <3>1. i \in Int /\ 1 + i - 1 = i
      BY <1>3
    <3> QED BY <1>4, <2>1, <3>1
  <2> QED BY <1>4, <2>1, <2>2
<1> QED BY <1>1, <1>2, <1>5

LEMMA RestTells ==
    ASSUME stack \in Seq(Frames), TopOp # "main"
    PROVE  /\ Rest \in Seq(Frames) /\ Top \in Frames /\ TopOp = Top.op
           /\ Len(stack) \in Nat \ {0} /\ Len(Rest) = Len(stack) - 1 /\ Top = stack[Len(stack)]
           /\ \A i \in 1..Len(Rest) : Rest[i] = stack[i]
<1>1. stack # <<>> /\ TopOp = Top.op
  BY DEF TopOp
<1> QED BY <1>1, PopTells DEF Rest, Front, Top

(* Borrowing the map is one clean() on the stack. *)
LEMMA CountTells ==
    ASSUME stack \in Seq(Frames)
    PROVE  /\ OneClean => Count("clean") = One(borrowed)
           /\ Count("register") = 0 =>
                \A i \in 1..Len(stack) : stack[i].op # "register"
<1>1. DOMAIN stack = 1..Len(stack) /\ Len(stack) \in Nat
  OBVIOUS
<1>2. ASSUME NEW op PROVE IsFiniteSet({i \in DOMAIN stack : stack[i].op = op})
  <2>1. IsFiniteSet(1..Len(stack))
    BY <1>1, FS_Interval
  <2> QED BY <1>1, <2>1, FS_Subset
<1>3. ASSUME OneClean PROVE Count("clean") = One(borrowed)
  <2> DEFINE S == {i \in DOMAIN stack : stack[i].op = "clean"}
  <2>1. CASE borrowed
    <3>1. PICK i \in 1..Len(stack) : stack[i].op = "clean"
      BY <1>3, <2>1 DEF OneClean
    <3>2. S = {i}
      BY <1>1, <1>3, <3>1 DEF OneClean
    <3> QED BY <2>1, <3>2, FS_Singleton DEF Count, One
  <2>2. CASE ~borrowed
    <3>1. S = {}
      BY <1>1, <1>3, <2>2 DEF OneClean
    <3> QED BY <2>2, <3>1, FS_EmptySet DEF Count, One
  <2> QED BY <2>1, <2>2
<1>4. ASSUME Count("register") = 0, NEW i \in 1..Len(stack) PROVE stack[i].op # "register"
  <2>1. {j \in DOMAIN stack : stack[j].op = "register"} = {}
    BY <1>2, <1>4, FS_EmptySet DEF Count
  <2> QED BY <1>1, <2>1
<1> QED BY <1>3, <1>4

-----------------------------------------------------------------------------
(* The steps *)

(* The lowest n frames stay, but for what they tell about unwinding. *)
Kept(n) ==
    /\ stack' \in Seq(Frames) /\ n \in Nat /\ n <= Len(stack) /\ n <= Len(stack')
    /\ \A i \in 1..n : stack'[i].op = stack[i].op /\ stack'[i].act = stack[i].act

LEMMA StackChanges ==
    ASSUME stack \in Seq(Frames), NEW f \in Frames
    PROVE  /\ stack' = stack => Kept(Len(stack)) /\ Len(stack') = Len(stack)
           /\ stack' = Append(stack, f) =>
                Kept(Len(stack)) /\ Len(stack') = Len(stack) + 1 /\ stack'[Len(stack) + 1] = f
           /\ TopOp # "main" /\ stack' = Rest => Kept(Len(stack) - 1) /\ Len(stack') = Len(stack) - 1
           /\ TopOp # "main" /\ stack' = Append(Rest, f) =>
                Kept(Len(stack) - 1) /\ Len(stack') = Len(stack) /\ stack'[Len(stack)] = f
<1>1. Len(stack) \in Nat
  OBVIOUS
<1>2. stack' = stack => Kept(Len(stack)) /\ Len(stack') = Len(stack)
  <2> SUFFICES ASSUME stack' = stack PROVE Kept(Len(stack))
    OBVIOUS
  <2>1. Len(stack') = Len(stack) /\ stack' \in Seq(Frames) /\ Len(stack) <= Len(stack)
    BY <1>1
  <2>2. \A i \in 1..Len(stack) : stack'[i] = stack[i]
    OBVIOUS
  <2> QED BY <1>1, <2>1, <2>2 DEF Kept
<1>3. stack' = Append(stack, f) =>
          Kept(Len(stack)) /\ Len(stack') = Len(stack) + 1 /\ stack'[Len(stack) + 1] = f
  <2> SUFFICES ASSUME stack' = Append(stack, f)
               PROVE  Kept(Len(stack)) /\ Len(stack') = Len(stack) + 1 /\ stack'[Len(stack) + 1] = f
    OBVIOUS
  <2>1. /\ stack' \in Seq(Frames) /\ Len(stack') = Len(stack) + 1 /\ stack'[Len(stack) + 1] = f
        /\ \A i \in 1..Len(stack) : stack'[i] = stack[i]
    BY PushTells
  <2>2. Len(stack) <= Len(stack) /\ Len(stack) <= Len(stack')
    BY <1>1, <2>1
  <2> QED BY <1>1, <2>1, <2>2 DEF Kept
<1>4. ASSUME TopOp # "main", stack' = Rest
      PROVE  Kept(Len(stack) - 1) /\ Len(stack') = Len(stack) - 1
  BY <1>1, <1>4, RestTells DEF Kept
<1>5. ASSUME TopOp # "main", stack' = Append(Rest, f)
      PROVE  Kept(Len(stack) - 1) /\ Len(stack') = Len(stack) /\ stack'[Len(stack)] = f
  <2>1. /\ stack' \in Seq(Frames) /\ Len(stack') = Len(Rest) + 1 /\ stack'[Len(Rest) + 1] = f
        /\ \A i \in 1..Len(Rest) : stack'[i] = Rest[i]
    BY <1>5, RestTells, PushTells
  <2> QED BY <1>1, <1>5, <2>1, RestTells DEF Kept
<1> QED BY <1>2, <1>3, <1>4, <1>5

(* The frames above the lowest n are not those of a clean(), before and after. *)
LEMMA OneCleanStays ==
    ASSUME stack \in Seq(Frames), OneClean, NEW n, Kept(n), borrowed' = borrowed,
           \A i \in 1..Len(stack) : i > n => stack[i].op # "clean",
           \A i \in 1..Len(stack') : i > n => stack'[i].op # "clean"
    PROVE  OneClean'
<1>1. Len(stack) \in Nat /\ Len(stack') \in Nat /\ n \in Nat
  BY DEF Kept
<1>2. \A i \in 1..Len(stack') : stack'[i].op = "clean" => i \in 1..Len(stack) /\ stack[i].op = "clean"
  BY <1>1 DEF Kept
<1>3. \A i \in 1..Len(stack) : stack[i].op = "clean" => i \in 1..Len(stack') /\ stack'[i].op = "clean"
  BY <1>1 DEF Kept
<1> QED BY <1>2, <1>3 DEF OneClean

LEMMA RegisterStays ==
    ASSUME stack \in Seq(Frames), RegisterHoldsCleaner, NEW n, Kept(n),
           cleaner => cleaner',
           \A i \in 1..Len(stack') : i > n => (stack'[i].op = "register" => cleaner' /\ stack'[i].act \in Actions)
    PROVE  RegisterHoldsCleaner'
<1>1. Len(stack) \in Nat /\ Len(stack') \in Nat /\ n \in Nat
  BY DEF Kept
<1>2. \A i \in 1..n : i \in 1..Len(stack) /\ i \in 1..Len(stack')
  BY <1>1 DEF Kept
<1>3. \A i \in 1..Len(stack') : i \in 1..n \/ i > n
  BY <1>1
<1> QED BY <1>2, <1>3 DEF RegisterHoldsCleaner, Kept

LEMMA NothingStays ==
    ASSUME stack \in Seq(Frames), NothingWithoutMap, NEW n, Kept(n),
           map' = "none" => map = "none" /\ slot' = slot,
           map' \in {"none", "live"} => map \in {"none", "live"},
           \A i \in 1..Len(stack') : i > n => (stack'[i].op = "dropMap" => map' \notin {"none", "live"})
    PROVE  NothingWithoutMap'
<1>1. Len(stack) \in Nat /\ Len(stack') \in Nat /\ n \in Nat
  BY DEF Kept
<1>2. \A i \in 1..n : i \in 1..Len(stack) /\ i \in 1..Len(stack')
  BY <1>1 DEF Kept
<1>3. \A i \in 1..Len(stack') : i \in 1..n \/ i > n
  BY <1>1
<1> QED BY <1>2, <1>3 DEF NothingWithoutMap, Kept

(* An action runs. *)
LEMMA RunKeeps ==
    ASSUME TypeOK, RunOnce, NEW a \in Actions, slot[a] = "registered", NEW below, Run(a, below)
    PROVE  /\ RunOnce'
           /\ slot' \in [Actions -> {"unregistered", "registered", "removed"}]
           /\ runs' \in [Actions -> 0..1]
BY DEF TypeOK, RunOnce, Run

(* A Cc of the map is dropped: that of clean(), or that of the Cleaner. *)
LEMMA DropCcKeeps ==
    ASSUME HoldersOfMap, NEW below, NEW u \in BOOLEAN, map = "live", DropCc(below, u),
           cleaner \in BOOLEAN, borrowed \in BOOLEAN, cleaner' \in BOOLEAN, borrowed' \in BOOLEAN,
           \/ borrowed /\ ~borrowed' /\ cleaner' = cleaner
           \/ cleaner /\ ~cleaner' /\ borrowed' = borrowed
    PROVE  /\ HoldersOfMap' /\ map' \in {"live", "dropping"} /\ strong' \in 0..2
           /\ panicking' \in BOOLEAN
           /\ \/ stack' = below
              \/ stack' = Append(below, Frame("dropMap", "none", u)) /\ map' = "dropping"
<1>1. strong = One(borrowed) + One(cleaner)
  BY DEF HoldersOfMap
<1>2. CASE strong = 1
  <2>1. /\ map' = "dropping" /\ strong' = 0 /\ panicking' = FALSE
        /\ stack' = Append(below, Frame("dropMap", "none", u))
    BY <1>2 DEF DropCc
  <2>2. ~borrowed' /\ ~cleaner'
    BY <1>1, <1>2 DEF One
  <2>3. map' # "live" /\ strong' = IF map' = "live" THEN One(borrowed') + One(cleaner') ELSE 0
    BY <2>1
  <2>4. HoldersOfMap'
    BY <2>2, <2>3 DEF HoldersOfMap
  <2>5. map' \in {"live", "dropping"} /\ strong' \in 0..2
    BY <2>1
  <2>6. panicking' \in BOOLEAN
    BY <2>1, Zenon
  <2> QED BY <2>1, <2>4, <2>5, <2>6
<1>3. CASE strong # 1
  BY <1>1, <1>3 DEF DropCc, HoldersOfMap, One
<1> QED BY <1>2, <1>3

LEMMA CleanEnds ==
    ASSUME Inv, NEW u \in BOOLEAN, TopOp = "clean", borrowed' = FALSE, DropCc(Rest, u),
           UNCHANGED <<cleaner, slotVars>>
    PROVE  Inv'
<1> DEFINE f == Frame("dropMap", "none", u)
<1>1. stack \in Seq(Frames) /\ cleaner \in BOOLEAN /\ borrowed \in BOOLEAN
  BY DEF Inv, TypeOK
<1>2. /\ Len(stack) \in Nat \ {0} /\ stack[Len(stack)].op = "clean" /\ TopOp # "main"
  BY <1>1, RestTells
<1>3. borrowed /\ \A i \in 1..Len(stack) : stack[i].op = "clean" => i = Len(stack)
  BY <1>2 DEF Inv, OneClean
<1>4. /\ HoldersOfMap' /\ map' \in {"live", "dropping"} /\ strong' \in 0..2 /\ panicking' \in BOOLEAN
      /\ stack' = Rest \/ (stack' = Append(Rest, f) /\ map' = "dropping")
      /\ map = "live"
  BY <1>1, <1>3, DropCcKeeps DEF Inv, HoldersOfMap
<1>5. f \in Frames /\ f.op = "dropMap"
  BY FrameType DEF Ops
<1> HIDE DEF f
<1>6. /\ Kept(Len(stack) - 1) /\ Len(stack') \in Nat
      /\ \A i \in 1..Len(stack') : i > Len(stack) - 1 => stack'[i].op = "dropMap" /\ map' = "dropping"
  BY <1>1, <1>2, <1>4, <1>5, StackChanges
<1>7. OneClean'
  <2>1. \A i \in 1..Len(stack') : stack'[i].op # "clean"
    BY <1>2, <1>3, <1>6 DEF Kept
  <2> QED BY <2>1 DEF OneClean
<1>8. RegisterHoldsCleaner' /\ NothingWithoutMap'
  <2>1. RegisterHoldsCleaner'
    BY <1>1, <1>6, RegisterStays DEF Inv
  <2>2. NothingWithoutMap'
    BY <1>1, <1>4, <1>6, NothingStays DEF Inv
  <2> QED BY <2>1, <2>2
<1>9. TypeOK' /\ RunOnce'
  BY <1>4, <1>6 DEF Inv, TypeOK, RunOnce, Kept, slotVars
<1> QED BY <1>4, <1>7, <1>8, <1>9 DEF Inv

LEMMA CleanerEnds ==
    ASSUME Inv, DropCleaner
    PROVE  Inv'
<1> DEFINE f == Frame("dropMap", "none", FALSE)
<1> USE DEF DropCleaner, slotVars
<1>1. stack \in Seq(Frames) /\ cleaner \in BOOLEAN /\ borrowed \in BOOLEAN /\ Len(stack) \in Nat
  BY DEF Inv, TypeOK
<1>2. \A i \in 1..Len(stack) : stack[i].op # "register"
  BY <1>1, CountTells
<1>3. f \in Frames /\ f.op = "dropMap"
  BY FrameType DEF Ops
<1>4. /\ HoldersOfMap' /\ map' \in {map, "live", "dropping"} /\ strong' \in 0..2 /\ panicking' \in BOOLEAN
      /\ map' = "none" => map = "none"
      /\ map' \in {"none", "live"} => map \in {"none", "live"}
      /\ stack' = stack \/ (stack' = Append(stack, f) /\ map' = "dropping")
  <2>1. CASE map = "none"
    BY <2>1 DEF Inv, TypeOK, HoldersOfMap
  <2>2. CASE map # "none"
    <3>1. map = "live"
      BY <2>2 DEF Inv, HoldersOfMap
    <3> QED BY <1>1, <2>2, <3>1, DropCcKeeps DEF Inv
  <2> QED BY <2>1, <2>2
<1> HIDE DEF f
<1>5. /\ Kept(Len(stack)) /\ Len(stack') \in Nat
      /\ \A i \in 1..Len(stack') : i > Len(stack) => stack'[i].op = "dropMap" /\ map' = "dropping"
  BY <1>1, <1>3, <1>4, StackChanges
<1>6. OneClean'
  BY <1>1, <1>5, OneCleanStays DEF Inv
<1>7. RegisterHoldsCleaner'
  <2>1. \A i \in 1..Len(stack') : stack'[i].op # "register"
    BY <1>1, <1>2, <1>5 DEF Kept
  <2> QED BY <2>1 DEF RegisterHoldsCleaner
<1>8. NothingWithoutMap'
  BY <1>1, <1>4, <1>5, NothingStays DEF Inv
<1>9. TypeOK' /\ RunOnce'
  BY <1>4, <1>5 DEF Inv, TypeOK, RunOnce, Kept
<1> QED BY <1>4, <1>6, <1>7, <1>8, <1>9 DEF Inv

LEMMA RegisterKeeps ==
    ASSUME Inv, NEW a \in Actions, Register(a) \/ RegisterFirst(a) \/ Clean(a)
    PROVE  Inv'
<1>1. stack \in Seq(Frames) /\ Len(stack) \in Nat
  BY DEF Inv, TypeOK
<1>2. CASE Register(a)
  <2>1. Kept(Len(stack)) /\ Len(stack') = Len(stack)
    BY <1>1, <1>2, StackChanges, FrameType DEF Register, Ops
  <2>2. UNCHANGED <<cleaner, mapVars, runs, stack, panicking>> /\ map = "live" /\ slot[a] = "unregistered"
    BY <1>2 DEF Register
  <2>3. TypeOK' /\ RunOnce'
    BY <1>2 DEF Inv, TypeOK, RunOnce, Register, mapVars
  <2> QED
    BY <2>2, <2>3 DEF Inv, OneClean, RegisterHoldsCleaner, HoldersOfMap, NothingWithoutMap, mapVars
<1>3. CASE RegisterFirst(a)
  <2> DEFINE f == Frame("register", a, FALSE)
  <2>1. f \in Frames /\ f.op = "register" /\ f.act = a
    <3>1. "register" \in Ops /\ a \in Actions \cup {"none"} /\ FALSE \in BOOLEAN
      BY DEF Ops
    <3> QED BY <3>1, FrameType
  <2>2. UNCHANGED <<cleaner, mapVars, slotVars, panicking>> /\ cleaner /\ stack' = Append(stack, f)
    BY <1>3 DEF RegisterFirst, CleanerUsable
  <2> HIDE DEF f
  <2>3. Kept(Len(stack)) /\ \A i \in 1..Len(stack') : i > Len(stack) => stack'[i] = f
    BY <1>1, <2>1, <2>2, StackChanges
  <2>4. OneClean'
    BY <1>1, <2>1, <2>2, <2>3, OneCleanStays DEF Inv, mapVars
  <2>5. RegisterHoldsCleaner'
    BY <1>1, <2>1, <2>2, <2>3, RegisterStays DEF Inv
  <2>6. NothingWithoutMap'
    BY <1>1, <2>1, <2>2, <2>3, NothingStays DEF Inv, mapVars, slotVars
  <2>7. TypeOK' /\ RunOnce' /\ HoldersOfMap'
    BY <2>2, <2>3 DEF Inv, TypeOK, RunOnce, HoldersOfMap, mapVars, slotVars, Kept
  <2> QED BY <2>4, <2>5, <2>6, <2>7 DEF Inv
<1>4. CASE Clean(a)
  <2> DEFINE f == Frame("clean", a, FALSE)
             g == Frame("action", a, FALSE)
             s == Append(stack, f)
  <2>1. f \in Frames /\ f.op = "clean" /\ g \in Frames /\ g.op = "action"
    <3>1. "clean" \in Ops /\ "action" \in Ops /\ a \in Actions \cup {"none"} /\ FALSE \in BOOLEAN
      BY DEF Ops
    <3> QED BY <3>1, FrameType
  <2>2. /\ UNCHANGED <<cleaner, map, panicking>> /\ map = "live" /\ ~borrowed
        /\ borrowed' = TRUE /\ strong' = strong + 1
        /\ slot[a] = "registered" /\ Run(a, s) /\ stack' = Append(s, g)
    BY <1>4 DEF Clean, Run
  <2> HIDE DEF f, g
  <2>3. /\ s \in Seq(Frames) /\ Len(s) = Len(stack) + 1 /\ s[Len(stack) + 1] = f
        /\ \A i \in 1..Len(stack) : s[i] = stack[i]
    BY <1>1, <2>1, PushTells
  <2> HIDE DEF s
  <2>4. /\ stack' \in Seq(Frames) /\ Len(stack') = Len(s) + 1 /\ stack'[Len(s) + 1] = g
        /\ \A i \in 1..Len(s) : stack'[i] = s[i]
    BY <2>1, <2>2, <2>3, PushTells
  <2>5. /\ Kept(Len(stack)) /\ Len(stack') = Len(stack) + 2
        /\ stack'[Len(stack) + 1] = f /\ stack'[Len(stack) + 2] = g
    BY <1>1, <2>3, <2>4 DEF Kept
  <2>6. \A i \in 1..Len(stack') : i > Len(stack) => i = Len(stack) + 1 \/ i = Len(stack) + 2
    BY <1>1, <2>5
  <2>7. OneClean'
    <3>1. \A i \in 1..Len(stack) : stack[i].op # "clean"
      BY <2>2 DEF Inv, OneClean
    <3>2. \A i \in 1..Len(stack') : stack'[i].op = "clean" <=> i = Len(stack) + 1
      BY <1>1, <2>1, <2>5, <2>6, <3>1 DEF Kept
    <3>3. Len(stack) + 1 \in 1..Len(stack')
      BY <1>1, <2>5
    <3> QED BY <2>2, <3>2, <3>3 DEF OneClean
  <2>8. RegisterHoldsCleaner'
    BY <1>1, <2>1, <2>2, <2>5, <2>6, RegisterStays DEF Inv
  <2>9. NothingWithoutMap'
    BY <1>1, <2>1, <2>2, <2>5, <2>6, NothingStays DEF Inv
  <2>10. TypeOK' /\ RunOnce' /\ HoldersOfMap'
    <3>1. RunOnce' /\ slot' \in [Actions -> {"unregistered", "registered", "removed"}]
                 /\ runs' \in [Actions -> 0..1]
      BY <2>2, RunKeeps DEF Inv
    <3> QED BY <2>2, <2>4, <3>1 DEF Inv, TypeOK, HoldersOfMap, One
  <2> QED BY <2>7, <2>8, <2>9, <2>10 DEF Inv
<1> QED BY <1>2, <1>3, <1>4

(* A frame other than that of clean() ends, without an effect on the map. *)
LEMMA FrameEnds ==
    ASSUME Inv, TopOp \notin {"main", "clean"}, stack' = Rest, panicking' \in BOOLEAN,
           UNCHANGED <<cleaner, strong, borrowed, slotVars>>,
           map' = map \/ (map \notin {"none", "live"} /\ map' \in {"freed", "leaked"})
    PROVE  Inv'
<1>1. stack \in Seq(Frames) /\ Len(stack) \in Nat \ {0} /\ stack[Len(stack)].op = TopOp
  BY RestTells DEF Inv, TypeOK
<1>2. Kept(Len(stack) - 1) /\ Len(stack') = Len(stack) - 1
  BY <1>1, StackChanges, FrameType DEF Ops
<1>3. /\ \A i \in 1..Len(stack) : i > Len(stack) - 1 => stack[i].op # "clean"
      /\ \A i \in 1..Len(stack') : ~(i > Len(stack) - 1)
  BY <1>1, <1>2
<1>4. OneClean'
  BY <1>1, <1>2, <1>3, OneCleanStays DEF Inv
<1>5. RegisterHoldsCleaner'
  BY <1>1, <1>2, <1>3, RegisterStays DEF Inv
<1>6. NothingWithoutMap'
  BY <1>1, <1>2, <1>3, NothingStays DEF Inv, slotVars
<1>7. TypeOK' /\ RunOnce' /\ HoldersOfMap'
  BY <1>2 DEF Inv, TypeOK, RunOnce, HoldersOfMap, slotVars, Kept
<1> QED BY <1>4, <1>5, <1>6, <1>7 DEF Inv

LEMMA OthersKeep ==
    ASSUME Inv,
           RegisterPanic \/ Panic \/ Catch \/ EndRegister \/ UnwindRegister \/ UnwindDropMap
           \/ EndDropMap \/ EndAction \/ UnwindAction \/ \E a \in Actions : DropMapNext(a)
    PROVE  Inv'
<1>1. stack \in Seq(Frames) /\ Len(stack) \in Nat
  BY DEF Inv, TypeOK
<1>2. CASE RegisterPanic \/ Panic \/ Catch
  <2>1. UNCHANGED <<cleaner, mapVars, slotVars, stack>> /\ panicking' \in BOOLEAN
    BY <1>2 DEF RegisterPanic, Panic, Catch
  <2>2. TypeOK' /\ RunOnce'
    BY <2>1 DEF Inv, TypeOK, RunOnce, mapVars, slotVars
  <2> QED
    BY <2>1, <2>2 DEF Inv, OneClean, RegisterHoldsCleaner, HoldersOfMap, NothingWithoutMap, mapVars, slotVars
<1>3. CASE EndRegister
  <2>1. /\ TopOp = "register" /\ map = "none" /\ map' = "live" /\ strong' = 1 /\ stack' = Rest
        /\ slot' = [slot EXCEPT ![Top.act] = "registered"]
        /\ UNCHANGED <<cleaner, borrowed, runs, panicking>>
    BY <1>3 DEF EndRegister, Returns
  <2>2. /\ Len(stack) \in Nat \ {0} /\ Top = stack[Len(stack)] /\ Top.op = "register"
        /\ Kept(Len(stack) - 1) /\ Len(stack') = Len(stack) - 1
    BY <1>1, <2>1, RestTells, StackChanges, FrameType DEF Ops
  <2>3. cleaner /\ Top.act \in Actions /\ ~borrowed /\ slot[Top.act] = "unregistered"
    BY <2>1, <2>2 DEF Inv, RegisterHoldsCleaner, HoldersOfMap, NothingWithoutMap
  <2>4. /\ \A i \in 1..Len(stack) : i > Len(stack) - 1 => stack[i].op # "clean"
        /\ \A i \in 1..Len(stack') : ~(i > Len(stack) - 1)
    BY <2>2
  <2>5. OneClean'
    BY <1>1, <2>1, <2>2, <2>4, OneCleanStays DEF Inv
  <2>6. RegisterHoldsCleaner'
    BY <1>1, <2>1, <2>2, <2>4, RegisterStays DEF Inv
  <2>7. TypeOK' /\ RunOnce'
    BY <2>1, <2>2, <2>3 DEF Inv, TypeOK, RunOnce, Kept
  <2>8. HoldersOfMap'
    BY <2>1, <2>3 DEF HoldersOfMap, One
  <2>9. NothingWithoutMap'
    BY <2>1, <2>2, <2>4 DEF Inv, NothingWithoutMap, Kept
  <2> QED BY <2>5, <2>6, <2>7, <2>8, <2>9 DEF Inv
<1>4. CASE UnwindRegister \/ EndAction \/ UnwindAction
  <2>1. /\ TopOp \notin {"main", "clean"} /\ stack' = Rest
        /\ UNCHANGED <<cleaner, mapVars, slotVars, panicking>>
    BY <1>4 DEF UnwindRegister, EndAction, UnwindAction, Returns, Unwinds
  <2> QED BY <2>1, FrameEnds DEF Inv, TypeOK, mapVars
<1>5. CASE EndDropMap
  <2>1. /\ TopOp = "dropMap" /\ stack' = Rest /\ map' \in {"freed", "leaked"}
        /\ panicking' = Top.unwinding /\ UNCHANGED <<cleaner, strong, borrowed, slotVars>>
    BY <1>5 DEF EndDropMap, Returns
  <2>2. panicking' \in BOOLEAN
    BY <1>1, <2>1, RestTells DEF Frames
  <2>3. map \notin {"none", "live"}
    BY <1>1, <2>1, RestTells DEF Inv, NothingWithoutMap
  <2> QED BY <2>1, <2>2, <2>3, FrameEnds
<1>6. CASE UnwindDropMap
  <2>1. /\ TopOp = "dropMap" /\ stack' = [stack EXCEPT ![Len(stack)].unwinding = TRUE]
        /\ map' = "leaked" /\ panicking' = FALSE /\ UNCHANGED <<cleaner, strong, borrowed, slotVars>>
    BY <1>6 DEF UnwindDropMap, Unwinds
  <2>6. map \notin {"none", "live"} /\ ~cleaner /\ ~borrowed
    BY <1>1, <2>1, RestTells DEF Inv, NothingWithoutMap, HoldersOfMap
  <2>2. Len(stack) \in 1..Len(stack)
    BY <1>1, <2>1, RestTells
  <2>3. /\ stack' \in Seq(Frames) /\ Len(stack') = Len(stack)
        /\ \A i \in 1..Len(stack) : stack'[i].op = stack[i].op /\ stack'[i].act = stack[i].act
    <3> DEFINE n == Len(stack)
               g == [stack[n] EXCEPT !.unwinding = TRUE]
    <3>1. stack[n] \in Frames /\ n \in Nat
      BY <1>1, <2>2
    <3>2. g \in Frames /\ g.op = stack[n].op /\ g.act = stack[n].act
      BY <3>1 DEF Frames
    <3>3. stack' = [stack EXCEPT ![n] = g]
      BY <2>1
    <3> HIDE DEF g
    <3>4. stack' \in Seq(Frames) /\ Len(stack') = n /\ stack'[n] = g
      BY <1>1, <2>2, <3>2, <3>3
    <3>5. \A i \in 1..n : i # n => stack'[i] = stack[i]
      BY <1>1, <3>3
    <3> QED BY <3>2, <3>4, <3>5
  <2>4. TypeOK' /\ RunOnce' /\ HoldersOfMap'
    BY <2>1, <2>3, <2>6 DEF Inv, TypeOK, RunOnce, HoldersOfMap, slotVars
  <2>5. OneClean' /\ RegisterHoldsCleaner' /\ NothingWithoutMap'
    BY <2>1, <2>3, <2>6 DEF Inv, OneClean, RegisterHoldsCleaner, NothingWithoutMap, slotVars
  <2> QED BY <2>4, <2>5 DEF Inv
<1>7. ASSUME NEW a \in Actions, DropMapNext(a) PROVE Inv'
  <2> DEFINE f == Frame("action", a, FALSE)
  <2>1. f \in Frames /\ f.op = "action"
    BY FrameType DEF Ops
  <2>2. /\ UNCHANGED <<cleaner, mapVars, panicking>> /\ slot[a] = "registered"
        /\ Run(a, stack) /\ stack' = Append(stack, f)
    BY <1>7 DEF DropMapNext, Run
  <2> HIDE DEF f
  <2>3. Kept(Len(stack)) /\ \A i \in 1..Len(stack') : i > Len(stack) => stack'[i] = f
    BY <1>1, <2>1, <2>2, StackChanges
  <2>4. OneClean'
    BY <1>1, <2>1, <2>2, <2>3, OneCleanStays DEF Inv, mapVars
  <2>5. RegisterHoldsCleaner'
    BY <1>1, <2>1, <2>2, <2>3, RegisterStays DEF Inv
  <2>6. NothingWithoutMap'
    <3>1. map # "none"
      BY <2>2 DEF Inv, NothingWithoutMap
    <3> QED BY <1>1, <2>1, <2>2, <2>3, <3>1, NothingStays DEF Inv, mapVars
  <2>7. TypeOK' /\ RunOnce'
    <3>1. RunOnce' /\ slot' \in [Actions -> {"unregistered", "registered", "removed"}]
                 /\ runs' \in [Actions -> 0..1]
      BY <2>2, RunKeeps DEF Inv
    <3> QED BY <2>2, <2>3, <3>1 DEF Inv, TypeOK, mapVars, Kept
  <2>8. HoldersOfMap'
    BY <2>2 DEF Inv, HoldersOfMap, mapVars
  <2> QED BY <2>4, <2>5, <2>6, <2>7, <2>8 DEF Inv
<1> QED BY <1>2, <1>3, <1>4, <1>5, <1>6, <1>7

-----------------------------------------------------------------------------
(* The theorems *)

(* The inductive invariant of a Cleaner: at most one clean() borrows the map, *)
(* the strong counter is what the Cleaner and that clean() hold, and actions  *)
(* are in a map that exists (Cleaner::register, Cleanable::clean).            *)
THEOREM CleanersInvariant == Spec => []Inv
<1>1. Init => Inv
  <2> SUFFICES ASSUME Init PROVE Inv
    OBVIOUS
  <2>1. stack = <<>> /\ Len(stack) = 0 /\ stack \in Seq(Frames)
    BY DEF Init
  <2>2. TypeOK /\ RunOnce
    <3>1. /\ slot \in [Actions -> {"unregistered", "registered", "removed"}]
          /\ runs \in [Actions -> 0..1] /\ strong \in 0..2
      BY DEF Init
    <3>2. cleaner \in BOOLEAN /\ borrowed \in BOOLEAN /\ panicking \in BOOLEAN
      BY Zenon DEF Init
    <3>3. RunOnce
      BY DEF Init, RunOnce
    <3> QED BY <2>1, <3>1, <3>2, <3>3 DEF Init, TypeOK
  <2>3. \A i : i \notin 1..Len(stack)
    BY <2>1
  <2>4. OneClean /\ RegisterHoldsCleaner /\ NothingWithoutMap
    BY <2>3 DEF Init, OneClean, RegisterHoldsCleaner, NothingWithoutMap
  <2> QED BY <2>2, <2>4 DEF Init, Inv, HoldersOfMap
<1>2. Inv /\ [Next]_vars => Inv'
  <2> SUFFICES ASSUME Inv, [Next]_vars PROVE Inv'
    OBVIOUS
  <2>1. CASE UNCHANGED vars
    BY <2>1 DEF vars, mapVars, slotVars, Inv, TypeOK, RunOnce, OneClean, RegisterHoldsCleaner,
                HoldersOfMap, NothingWithoutMap
  <2>2. CASE EndClean
    BY <2>2, CleanEnds DEF EndClean, Returns
  <2>3. CASE UnwindClean
    BY <2>3, CleanEnds DEF UnwindClean, Unwinds
  <2> QED
    BY <2>1, <2>2, <2>3, RegisterKeeps, CleanerEnds, OthersKeep DEF Next, Return
<1> QED BY <1>1, <1>2, PTL DEF Spec

(* Every variable has its type: at most two Ccs of the map exist at a time, *)
(* and no cleaning action is run twice.                                     *)
THEOREM CleanersTypes == Spec => []TypeOK
BY CleanersInvariant, PTL DEF Inv

(* A cleaning action is run once, by clean() or with the map, whatever other *)
(* actions do and whichever panics (Drop for CleaningAction).                *)
THEOREM ActionsRunOnce == Spec => []RunOnce
BY CleanersInvariant, PTL DEF Inv

(* The map a clean() borrows is alive until it returns or unwinds, and no     *)
(* other clean() borrows it (Cleanable::clean).                               *)
THEOREM BorrowSafe == Spec => []BorrowIsSafe
<1>1. Inv => BorrowIsSafe
  BY CountTells DEF Inv, TypeOK, BorrowIsSafe, HoldersOfMap, One
<1> QED BY <1>1, CleanersInvariant, PTL

(* The strong counter of the map is the number of its owners, through panics  *)
(* in clean() (the Cc<CleanerMap> of Cleaner, Weak::upgrade in clean).        *)
THEOREM StrongCorrect == Spec => []StrongExact
<1>1. Inv => StrongExact
  BY CountTells DEF Inv, TypeOK, StrongExact, HoldersOfMap, One
<1> QED BY <1>1, CleanersInvariant, PTL
==============================================================================
