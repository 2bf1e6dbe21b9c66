---------------------------- MODULE CcMarkerProof ----------------------------
(* The words of CcMarker implement the fields of CcFields, for words of any  *)
(* width: those of 16 bits that the code has among them.                     *)
EXTENDS CcMarker, TLAPS

-----------------------------------------------------------------------------
(* Words of two parts *)

(* x is c below the bit Unit and b above it. *)
IsWord(x, c, b) == c \in 0..(Unit - 1) /\ b \in 0..3 /\ x = c + b * Unit

LEMMA UnitType == Unit \in Nat /\ Unit >= 4
BY UnitAssumption

LEMMA WordSplits ==
    ASSUME NEW x \in Words
    PROVE  \E c \in 0..(Unit - 1), b \in 0..3 : IsWord(x, c, b)
<1>1. x \in Nat /\ x < 4 * Unit
  BY UnitType DEF Words
<1>2. CASE x < Unit
  <2>1. IsWord(x, x, 0)
    BY <1>1, <1>2, UnitType DEF IsWord
  <2> QED BY <2>1 DEF IsWord
<1>3. CASE Unit <= x /\ x < 2 * Unit
  <2>1. IsWord(x, x - Unit, 1)
    BY <1>1, <1>3, UnitType DEF IsWord
  <2> QED BY <2>1 DEF IsWord
<1>4. CASE 2 * Unit <= x /\ x < 3 * Unit
  <2>1. IsWord(x, x - 2 * Unit, 2)
    BY <1>1, <1>4, UnitType DEF IsWord
  <2> QED BY <2>1 DEF IsWord
<1>5. CASE 3 * Unit <= x
  <2>1. IsWord(x, x - 3 * Unit, 3)
    BY <1>1, <1>5, UnitType DEF IsWord
  <2> QED BY <2>1 DEF IsWord
<1> QED BY <1>1, <1>2, <1>3, <1>4, <1>5, UnitType

(* A quotient and a remainder that fit are those of the division. *)
LEMMA Division ==
    ASSUME NEW m \in Nat, m > 0, NEW r \in 0..(m - 1), NEW q \in 0..3
    PROVE  (r + q * m) % m = r /\ (r + q * m) \div m = q
<1>1. CASE q = 0
  BY <1>1
<1>2. CASE q = 1
  BY <1>2
<1>3. CASE q = 2
  BY <1>3
<1>4. CASE q = 3
  BY <1>4
<1> QED BY <1>1, <1>2, <1>3, <1>4

LEMMA WordTells ==
    ASSUME NEW x, NEW c, NEW b, IsWord(x, c, b)
    PROVE  /\ x \in Words /\ Below(x, Unit) = c /\ Above(x, Unit) = b * Unit
           /\ IsSet(x, Unit) <=> b \in {1, 3}
           /\ IsSet(x, FirstBit) <=> b \in {2, 3}
<1>1. c \in 0..(Unit - 1) /\ b \in 0..3 /\ x = c + b * Unit
  BY DEF IsWord
<1>2. x % Unit = c /\ x \div Unit = b
  BY <1>1, UnitType, Division
<1>3. x \in Words
  BY <1>1, UnitType DEF Words
<1>4. Below(x, Unit) = c /\ Above(x, Unit) = b * Unit
  BY <1>1, <1>2, UnitType DEF Below, Above
<1>5. IsSet(x, Unit) <=> b \in {1, 3}
  BY <1>1, <1>2 DEF IsSet
<1>6. x \div FirstBit = IF b \in {2, 3} THEN 1 ELSE 0
  <2>1. FirstBit \in Nat /\ FirstBit > 0 /\ FirstBit = 2 * Unit
    BY UnitType DEF FirstBit
  <2>2. CASE b \in {2, 3}
    <3>1. c + (b - 2) * Unit \in 0..(FirstBit - 1) /\ x = c + (b - 2) * Unit + 1 * FirstBit
      BY <1>1, <2>1, <2>2, UnitType
    <3> QED BY <2>1, <2>2, <3>1, Division
  <2>3. CASE b \in {0, 1}
    <3>1. x \in 0..(FirstBit - 1) /\ x = x + 0 * FirstBit
      BY <1>1, <2>1, <2>3, UnitType
    <3> QED BY <2>1, <2>3, <3>1, Division
  <2> QED BY <1>1, <2>2, <2>3
<1>7. IsSet(x, FirstBit) <=> b \in {2, 3}
  BY <1>1, <1>6 DEF IsSet
<1> QED BY <1>3, <1>4, <1>5, <1>7

-----------------------------------------------------------------------------
(* What the operations do to a word: each changes one part of it. *)

SameAbove(x, y) ==
    /\ Above(y, Unit) = Above(x, Unit)
    /\ IsSet(y, Unit) <=> IsSet(x, Unit)
    /\ IsSet(y, FirstBit) <=> IsSet(x, FirstBit)

(* The part below Unit becomes d. *)
LEMMA ChangeBelow ==
    ASSUME NEW x \in Words, NEW d \in 0..(Unit - 1), NEW y, y = x - Below(x, Unit) + d
    PROVE  y \in Words /\ Below(y, Unit) = d /\ SameAbove(x, y)
<1>1. PICK c \in 0..(Unit - 1), b \in 0..3 : IsWord(x, c, b)
  BY WordSplits
<1>2. IsWord(y, d, b)
  <2>1. Below(x, Unit) = c /\ x = c + b * Unit /\ b * Unit \in Nat
    <3>1. Below(x, Unit) = c
      BY <1>1, WordTells
    <3>2. x = c + b * Unit
      BY <1>1 DEF IsWord
    <3>3. b * Unit \in Nat
      BY UnitType
    <3> QED BY <3>1, <3>2, <3>3
  <2>2. y = d + b * Unit
    BY <2>1, UnitType
  <2> QED BY <2>2 DEF IsWord
<1> QED BY <1>1, <1>2, WordTells DEF SameAbove

(* The part above Unit becomes b. *)
LEMMA ChangeAbove ==
    ASSUME NEW x \in Words, NEW b \in 0..3, NEW y, y = Below(x, Unit) + b * Unit
    PROVE  /\ y \in Words /\ Below(y, Unit) = Below(x, Unit) /\ Above(y, Unit) = b * Unit
           /\ IsSet(y, Unit) <=> b \in {1, 3}
           /\ IsSet(y, FirstBit) <=> b \in {2, 3}
<1>1. PICK c \in 0..(Unit - 1), a \in 0..3 : IsWord(x, c, a)
  BY WordSplits
<1>2. IsWord(y, c, b) /\ Below(x, Unit) = c
  BY <1>1, WordTells DEF IsWord
<1> QED BY <1>2, WordTells

(* The bit Unit, or FirstBit, becomes v. *)
LEMMA ChangeUnit ==
    ASSUME NEW x \in Words, NEW v \in BOOLEAN, NEW y, y = SetBit(x, Unit, v)
    PROVE  /\ y \in Words /\ Below(y, Unit) = Below(x, Unit)
           /\ IsSet(y, Unit) <=> v
           /\ IsSet(y, FirstBit) <=> IsSet(x, FirstBit)
<1>1. PICK c \in 0..(Unit - 1), b \in 0..3 : IsWord(x, c, b)
  BY WordSplits
<1>2. Below(x, Unit) = c /\ (IsSet(x, Unit) <=> b \in {1, 3}) /\ (IsSet(x, FirstBit) <=> b \in {2, 3})
  BY <1>1, WordTells
<1>3. CASE v = IsSet(x, Unit)
  BY <1>3 DEF SetBit
<1>4. CASE v /\ ~IsSet(x, Unit)
  <2>1. IsWord(y, c, b + 1) /\ b \in {0, 2}
    <3>1. b \in {0, 2}
      BY <1>2, <1>4
    <3>2. y = x + Unit
      BY <1>4 DEF SetBit
    <3> QED BY <1>1, <3>1, <3>2, UnitType DEF IsWord
  <2>2. b + 1 \in {1, 3} /\ (b + 1 \in {2, 3} <=> b \in {2, 3})
    BY <2>1
  <2> QED BY <1>2, <1>4, <2>1, <2>2, WordTells
<1>5. CASE ~v /\ IsSet(x, Unit)
  <2>1. IsWord(y, c, b - 1) /\ b \in {1, 3}
    BY <1>1, <1>2, <1>5, UnitType DEF IsWord, SetBit
  <2>2. b - 1 \notin {1, 3} /\ (b - 1 \in {2, 3} <=> b \in {2, 3})
    BY <2>1
  <2> QED BY <1>2, <1>5, <2>1, <2>2, WordTells
<1>6. IsSet(x, Unit) \in BOOLEAN
  BY DEF IsSet
<1> QED BY <1>3, <1>4, <1>5, <1>6

LEMMA ChangeFirst ==
    ASSUME NEW x \in Words, NEW v \in BOOLEAN, NEW y, y = SetBit(x, FirstBit, v)
    PROVE  /\ y \in Words /\ Below(y, Unit) = Below(x, Unit)
           /\ IsSet(y, FirstBit) <=> v
           /\ IsSet(y, Unit) <=> IsSet(x, Unit)
<1>1. PICK c \in 0..(Unit - 1), b \in 0..3 : IsWord(x, c, b)
  BY WordSplits
<1>2. Below(x, Unit) = c /\ (IsSet(x, Unit) <=> b \in {1, 3}) /\ (IsSet(x, FirstBit) <=> b \in {2, 3})
  BY <1>1, WordTells
<1>3. CASE v = IsSet(x, FirstBit)
  BY <1>3 DEF SetBit
<1>4. CASE v /\ ~IsSet(x, FirstBit)
  <2>1. IsWord(y, c, b + 2) /\ b \in {0, 1}
    <3>1. b \in {0, 1}
      BY <1>2, <1>4
    <3>2. y = x + 2 * Unit
      BY <1>4 DEF SetBit, FirstBit
    <3> QED BY <1>1, <3>1, <3>2, UnitType DEF IsWord
  <2>2. b + 2 \in {2, 3} /\ (b + 2 \in {1, 3} <=> b \in {1, 3})
    BY <2>1
  <2> QED BY <1>2, <1>4, <2>1, <2>2, WordTells
<1>5. CASE ~v /\ IsSet(x, FirstBit)
  <2>1. IsWord(y, c, b - 2) /\ b \in {2, 3}
    BY <1>1, <1>2, <1>5, UnitType DEF IsWord, SetBit, FirstBit
  <2>2. b - 2 \notin {2, 3} /\ (b - 2 \in {1, 3} <=> b \in {1, 3})
    BY <2>1
  <2> QED BY <1>2, <1>5, <2>1, <2>2, WordTells
<1>6. IsSet(x, FirstBit) \in BOOLEAN
  BY DEF IsSet
<1> QED BY <1>3, <1>4, <1>5, <1>6

(* The weak word has one bit above its counter. *)
IsWeakWord(x, c, b) == c \in 0..WeakMAX /\ b \in 0..1 /\ x = c + b * FirstBit

LEMMA FirstBitType == FirstBit \in Nat /\ FirstBit >= 8 /\ FirstBit = 2 * Unit /\ WeakMAX = FirstBit - 1
BY UnitType DEF FirstBit, WeakMAX

LEMMA WeakSplits ==
    ASSUME NEW x \in Words
    PROVE  \E c \in 0..WeakMAX, b \in 0..1 : IsWeakWord(x, c, b)
<1>1. x \in Nat /\ x < 2 * FirstBit
  BY UnitType, FirstBitType DEF Words
<1>2. CASE x < FirstBit
  <2>1. IsWeakWord(x, x, 0)
    BY <1>1, <1>2, FirstBitType DEF IsWeakWord
  <2> QED BY <2>1 DEF IsWeakWord
<1>3. CASE FirstBit <= x
  <2>1. IsWeakWord(x, x - FirstBit, 1)
    BY <1>1, <1>3, FirstBitType DEF IsWeakWord
  <2> QED BY <2>1 DEF IsWeakWord
<1> QED BY <1>1, <1>2, <1>3, FirstBitType

LEMMA WeakTells ==
    ASSUME NEW x, NEW c, NEW b, IsWeakWord(x, c, b)
    PROVE  x \in Words /\ Below(x, FirstBit) = c /\ (IsSet(x, FirstBit) <=> b = 1)
<1>1. c \in 0..(FirstBit - 1) /\ b \in 0..1 /\ x = c + b * FirstBit
  BY FirstBitType DEF IsWeakWord
<1>2. x % FirstBit = c /\ x \div FirstBit = b
  <2>1. b \in 0..3 /\ FirstBit \in Nat /\ FirstBit > 0
    BY <1>1, FirstBitType
  <2> QED BY <1>1, <2>1, Division
<1>3. x \in Words
  BY <1>1, UnitType, FirstBitType DEF Words
<1> QED BY <1>1, <1>2, <1>3 DEF Below, IsSet

LEMMA ChangeWeakCounter ==
    ASSUME NEW x \in Words, NEW d \in 0..WeakMAX, NEW y, y = x - Below(x, FirstBit) + d
    PROVE  y \in Words /\ Below(y, FirstBit) = d /\ (IsSet(y, FirstBit) <=> IsSet(x, FirstBit))
<1>1. PICK c \in 0..WeakMAX, b \in 0..1 : IsWeakWord(x, c, b)
  BY WeakSplits
<1>2. IsWeakWord(y, d, b)
  <2>1. Below(x, FirstBit) = c /\ x = c + b * FirstBit /\ b * FirstBit \in Nat
    <3>1. Below(x, FirstBit) = c
      BY <1>1, WeakTells
    <3>2. x = c + b * FirstBit
      BY <1>1 DEF IsWeakWord
    <3>3. b * FirstBit \in Nat
      BY FirstBitType
    <3> QED BY <3>1, <3>2, <3>3
  <2>2. y = d + b * FirstBit
    BY <2>1, FirstBitType
  <2> QED BY <2>2 DEF IsWeakWord
<1> QED BY <1>1, <1>2, WeakTells

LEMMA ChangeAccessibleBit ==
    ASSUME NEW x \in Words, NEW v \in BOOLEAN, NEW y, y = SetBit(x, FirstBit, v)
    PROVE  /\ y \in Words /\ Below(y, FirstBit) = Below(x, FirstBit)
           /\ IsSet(y, FirstBit) <=> v
<1>1. PICK c \in 0..WeakMAX, b \in 0..1 : IsWeakWord(x, c, b)
  BY WeakSplits
<1>2. Below(x, FirstBit) = c /\ (IsSet(x, FirstBit) <=> b = 1)
  BY <1>1, WeakTells
<1>3. CASE v = IsSet(x, FirstBit)
  BY <1>3 DEF SetBit
<1>4. CASE v /\ ~IsSet(x, FirstBit)
  <2>1. IsWeakWord(y, c, 1)
    <3>1. b = 0
      BY <1>2, <1>4
    <3>2. y = x + FirstBit
      BY <1>4 DEF SetBit
    <3> QED BY <1>1, <3>1, <3>2, FirstBitType DEF IsWeakWord
  <2> QED BY <1>2, <1>4, <2>1, WeakTells
<1>5. CASE ~v /\ IsSet(x, FirstBit)
  <2>1. IsWeakWord(y, c, 0)
    BY <1>1, <1>2, <1>5, FirstBitType DEF IsWeakWord, SetBit
  <2> QED BY <1>2, <1>5, <2>1, WeakTells
<1>6. IsSet(x, FirstBit) \in BOOLEAN
  BY DEF IsSet
<1> QED BY <1>3, <1>4, <1>5, <1>6

-----------------------------------------------------------------------------
(* The inductive invariant *)

(* The reserved value of the reference counter is never reached. *)
CounterInRange == Counter \in 0..MAX

Inv == TypeOK /\ CounterInRange /\ DroppedIsTold

Limits == CounterMask = Unit - 1 /\ MAX = Unit - 2 /\ WeakMAX = 2 * Unit - 1

LEMMA PartsOfWords ==
    ASSUME TypeOK
    PROVE  /\ Counter \in 0..(Unit - 1) /\ TracingCounter \in 0..(Unit - 1)
           /\ WeakCounter \in 0..WeakMAX /\ Limits
<1>1. ASSUME NEW x \in Words PROVE Below(x, Unit) \in 0..(Unit - 1) /\ Below(x, FirstBit) \in 0..WeakMAX
  BY WordSplits, WordTells, WeakSplits, WeakTells
<1>2. Limits
  BY UnitType DEF Limits, CounterMask, MAX, WeakMAX, FirstBit
<1> QED BY <1>1, <1>2 DEF TypeOK, Counter, TracingCounter, WeakCounter

(* What the fields of a word that does not change are. *)
StrongFields == <<Counter, NeedsFinalization, HasAllocatedForMetadata>>
TracingFields == <<TracingCounter, IsDropped, Mark>>
WeakFields == <<WeakCounter, IsAccessible>>

LEMMA Untouched ==
    /\ counterWord' = counterWord => UNCHANGED StrongFields
    /\ tracingWord' = tracingWord => UNCHANGED TracingFields
    /\ weakWord' = weakWord => UNCHANGED WeakFields
BY DEF StrongFields, TracingFields, WeakFields, Counter, NeedsFinalization, HasAllocatedForMetadata,
       TracingCounter, IsDropped, Mark, IsInPossibleCycles, IsNotMarked, IsInList, IsInListOrQueue,
       IsInQueue, WeakCounter, IsAccessible

-----------------------------------------------------------------------------
(* The operations on the reference counter and the flags beside it *)

LEMMA CounterChanges ==
    ASSUME Inv, NEW d \in 0..MAX, counterWord' = counterWord - Counter + d,
           UNCHANGED <<tracingWord, weakWord, setDropped>>
    PROVE  Inv' /\ Counter' = d /\ UNCHANGED <<NeedsFinalization, HasAllocatedForMetadata>>
<1>1. counterWord \in Words /\ d \in 0..(Unit - 1)
  BY PartsOfWords, UnitType DEF Inv, TypeOK, Limits
<1>2. counterWord' \in Words /\ Below(counterWord', Unit) = d /\ SameAbove(counterWord, counterWord')
  BY <1>1, ChangeBelow DEF Counter
<1>3. Counter' = d /\ NeedsFinalization' = NeedsFinalization
      /\ HasAllocatedForMetadata' = HasAllocatedForMetadata
  BY <1>2 DEF Counter, NeedsFinalization, HasAllocatedForMetadata, SameAbove, IsSet
<1>4. TypeOK'
  BY <1>2 DEF Inv, TypeOK
<1>5. DroppedIsTold'
  BY Untouched DEF Inv, DroppedIsTold, TracingFields
<1> QED BY <1>3, <1>4, <1>5 DEF Inv, CounterInRange

LEMMA FlagsChange ==
    ASSUME Inv, NEW v \in BOOLEAN,
           counterWord' \in {SetBit(counterWord, Unit, v), SetBit(counterWord, FirstBit, v)},
           UNCHANGED <<tracingWord, weakWord, setDropped>>
    PROVE  /\ Inv' /\ Counter' = Counter
           /\ UNCHANGED NeedsFinalization \/ UNCHANGED HasAllocatedForMetadata
<1>1. counterWord \in Words
  BY DEF Inv, TypeOK
<1>2. /\ counterWord' \in Words /\ Below(counterWord', Unit) = Below(counterWord, Unit)
      /\ \/ IsSet(counterWord', FirstBit) <=> IsSet(counterWord, FirstBit)
         \/ IsSet(counterWord', Unit) <=> IsSet(counterWord, Unit)
  BY <1>1, ChangeUnit, ChangeFirst
<1>3. /\ Counter' = Counter
      /\ UNCHANGED NeedsFinalization \/ UNCHANGED HasAllocatedForMetadata
  BY <1>2 DEF Counter, NeedsFinalization, HasAllocatedForMetadata, IsSet
<1>4. TypeOK'
  BY <1>2 DEF Inv, TypeOK
<1>5. DroppedIsTold'
  BY Untouched DEF Inv, DroppedIsTold, TracingFields
<1> QED BY <1>3, <1>4, <1>5 DEF Inv, CounterInRange

-----------------------------------------------------------------------------
(* The operations on the tracing counter and the mark above it *)

LEMMA TracingChanges ==
    ASSUME Inv, NEW d \in 0..(Unit - 1), tracingWord' = tracingWord - TracingCounter + d,
           UNCHANGED <<counterWord, weakWord>>, setDropped' \in BOOLEAN
    PROVE  TypeOK' /\ CounterInRange' /\ TracingCounter' = d /\ UNCHANGED Mark
<1>1. tracingWord \in Words
  BY DEF Inv, TypeOK
<1>2. tracingWord' \in Words /\ Below(tracingWord', Unit) = d /\ SameAbove(tracingWord, tracingWord')
  BY <1>1, ChangeBelow DEF TracingCounter
<1>3. TracingCounter' = d /\ Mark' = Mark
  BY <1>2 DEF TracingCounter, Mark, IsInPossibleCycles, IsNotMarked, IsInList, IsInListOrQueue,
              IsInQueue, SameAbove
<1>4. CounterInRange'
  BY Untouched DEF Inv, CounterInRange, StrongFields
<1>5. TypeOK'
  BY <1>2 DEF Inv, TypeOK
<1> QED BY <1>3, <1>4, <1>5

LEMMA MarkChanges ==
    ASSUME Inv, NEW m \in DOMAIN MarkBits, SetMark(m)
    PROVE  Inv' /\ Mark' = m /\ UNCHANGED <<TracingCounter, IsDropped>>
<1>1. /\ tracingWord \in Words /\ UNCHANGED <<counterWord, weakWord, setDropped>>
      /\ m \in {"NonMarked", "PossibleCycles", "InList", "InQueue"}
      /\ MarkBits["NonMarked"] = 0 /\ MarkBits["PossibleCycles"] = Unit
      /\ MarkBits["InList"] = 2 * Unit /\ MarkBits["InQueue"] = 3 * Unit
  BY DEF Inv, TypeOK, SetMark, MarkBits
<1> DEFINE b == IF m = "NonMarked" THEN 0 ELSE IF m = "PossibleCycles" THEN 1
                ELSE IF m = "InList" THEN 2 ELSE 3
<1>2. b \in 0..3 /\ MarkBits[m] = b * Unit
  BY <1>1, UnitType
<1>3. tracingWord' = Below(tracingWord, Unit) + b * Unit
  BY <1>2 DEF SetMark
<1>4. /\ tracingWord' \in Words /\ Below(tracingWord', Unit) = Below(tracingWord, Unit)
      /\ Above(tracingWord', Unit) = b * Unit
      /\ IsSet(tracingWord', FirstBit) <=> b \in {2, 3}
  <2> HIDE DEF b
  <2> QED BY <1>1, <1>2, <1>3, ChangeAbove
<1>5. Mark' = m
  <2>1. /\ b = 0 <=> m = "NonMarked"
        /\ b = 1 <=> m = "PossibleCycles"
        /\ b = 2 <=> m = "InList"
        /\ b = 3 <=> m = "InQueue"
    BY <1>1
  <2> HIDE DEF b
  <2>2. /\ b * Unit = Unit <=> b = 1
        /\ b * Unit = 2 * Unit <=> b = 2
        /\ b * Unit = 3 * Unit <=> b = 3
    BY <1>2, UnitType
  <2> QED
    BY <1>1, <1>2, <1>4, <2>1, <2>2
       DEF Mark, IsInPossibleCycles, IsNotMarked, IsInList, IsInListOrQueue, IsInQueue
<1>6. TracingCounter' = TracingCounter /\ IsDropped' = IsDropped
  BY <1>4 DEF TracingCounter, IsDropped
<1>7. TypeOK' /\ DroppedIsTold'
  BY <1>1, <1>4, <1>6 DEF Inv, TypeOK, DroppedIsTold
<1> QED BY <1>1, <1>5, <1>6, <1>7, Untouched DEF Inv, CounterInRange, StrongFields

-----------------------------------------------------------------------------
(* The operations on the weak word *)

LEMMA WeakChanges ==
    ASSUME Inv, UNCHANGED <<tracingWord, counterWord, setDropped>>, weakWord' \in Words
    PROVE  Inv'
<1>1. TypeOK'
  BY DEF Inv, TypeOK
<1> QED
  BY <1>1, Untouched DEF Inv, CounterInRange, DroppedIsTold, StrongFields, TracingFields

-----------------------------------------------------------------------------
(* Each operation is one on a field. *)

LEMMA StrongStep ==
    ASSUME Inv,
           \/ IncrementCounter \/ DecrementCounter \/ SetAllocatedForMetadata
           \/ \E v \in BOOLEAN : SetFinalized(v)
    PROVE  Inv' /\ Fields!FieldNext
<1>0. /\ UNCHANGED TracingFields /\ UNCHANGED WeakFields
  BY Untouched DEF IncrementCounter, DecrementCounter, SetAllocatedForMetadata, SetFinalized
<1>1. Fields!tracingVars' = Fields!tracingVars /\ Fields!weakVars' = Fields!weakVars
  BY <1>0 DEF Fields!tracingVars, Fields!weakVars, TracingFields, WeakFields
<1>2. CASE IncrementCounter \/ DecrementCounter
  <2> DEFINE d == IF IncrementCounter THEN Counter + 1 ELSE Counter - 1
  <2>1. Counter \in 0..MAX /\ counterWord \in Nat /\ MAX \in Nat
    BY PartsOfWords, UnitType DEF Inv, TypeOK, CounterInRange, Limits, Words
  <2>2. d \in 0..MAX /\ counterWord' = counterWord - Counter + d
        /\ UNCHANGED <<tracingWord, weakWord, setDropped>>
    BY <1>2, <2>1 DEF IncrementCounter, DecrementCounter
  <2>3. d \in Fields!Steps(Counter, MAX)
    BY <1>2, <2>1, <2>2 DEF Fields!Steps
  <2>4. Inv' /\ Counter' = d /\ UNCHANGED <<NeedsFinalization, HasAllocatedForMetadata>>
    <3> HIDE DEF d
    <3> QED BY <2>2, CounterChanges
  <2>5. Fields!ChangeCounter
    BY <1>1, <2>3, <2>4 DEF Fields!ChangeCounter
  <2> QED BY <2>4, <2>5 DEF Fields!FieldNext
<1>3. CASE SetAllocatedForMetadata \/ \E v \in BOOLEAN : SetFinalized(v)
  <2>1. PICK v \in BOOLEAN :
          /\ counterWord' \in {SetBit(counterWord, Unit, v), SetBit(counterWord, FirstBit, v)}
          /\ UNCHANGED <<tracingWord, weakWord, setDropped>>
    BY <1>3 DEF SetAllocatedForMetadata, SetFinalized
  <2>2. /\ Inv' /\ Counter' = Counter
        /\ UNCHANGED NeedsFinalization \/ UNCHANGED HasAllocatedForMetadata
    BY <2>1, FlagsChange
  <2>3. NeedsFinalization' \in BOOLEAN /\ HasAllocatedForMetadata' \in BOOLEAN
    BY DEF NeedsFinalization, HasAllocatedForMetadata, IsSet
  <2>4. Fields!ChangeFinalized \/ Fields!ChangeMetadata
    BY <1>1, <2>2, <2>3 DEF Fields!ChangeFinalized, Fields!ChangeMetadata
  <2> QED BY <2>2, <2>4 DEF Fields!FieldNext
<1> QED BY <1>2, <1>3

LEMMA TracingStep ==
    ASSUME Inv,
           \/ IncrementTracingCounter \/ ResetTracingCounter \/ SetDropped
           \/ \E m \in DOMAIN MarkBits : SetMark(m)
    PROVE  Inv' /\ Fields!FieldNext
<1>0. UNCHANGED StrongFields /\ UNCHANGED WeakFields
  BY Untouched DEF IncrementTracingCounter, ResetTracingCounter, SetDropped, SetMark
<1>1. Fields!strongVars' = Fields!strongVars /\ Fields!weakVars' = Fields!weakVars
  BY <1>0 DEF Fields!strongVars, Fields!weakVars, StrongFields, WeakFields
<1>2. /\ TracingCounter \in 0..(Unit - 1) /\ tracingWord \in Nat
      /\ CounterMask = Unit - 1 /\ MAX = Unit - 2
  BY PartsOfWords, UnitType DEF Inv, TypeOK, Limits, Words
<1>3. CASE IncrementTracingCounter \/ ResetTracingCounter
  <2> DEFINE d == IF IncrementTracingCounter THEN TracingCounter + 1 ELSE 0
  <2>1. /\ ~IsDropped /\ UNCHANGED <<counterWord, weakWord, setDropped>>
        /\ IncrementTracingCounter => TracingCounter # MAX
    BY <1>3 DEF IncrementTracingCounter, ResetTracingCounter
  <2>2. TracingCounter # Unit - 1
    BY <1>2, <2>1 DEF IsDropped
  <2>3. d \in 0..MAX /\ d # Unit - 1 /\ d \in 0..(Unit - 1)
    BY <1>2, <2>1, <2>2, UnitType
  <2>4. tracingWord' = tracingWord - TracingCounter + d
    BY <1>2, <1>3 DEF IncrementTracingCounter, ResetTracingCounter, Above, TracingCounter
  <2>5. d \in Fields!Steps(TracingCounter, MAX) \cup {0}
    BY <1>2, <2>3 DEF Fields!Steps
  <2> HIDE DEF d
  <2>6. setDropped' \in BOOLEAN /\ setDropped' = setDropped
    BY <2>1 DEF Inv, TypeOK
  <2>7. TypeOK' /\ CounterInRange' /\ TracingCounter' = d /\ UNCHANGED Mark
    BY <2>1, <2>3, <2>4, <2>6, TracingChanges
  <2>8. ~IsDropped'
    BY <1>2, <2>3, <2>7 DEF IsDropped, CounterMask
  <2>9. Inv'
    BY <2>1, <2>6, <2>7, <2>8 DEF Inv, DroppedIsTold
  <2>10. Fields!ChangeTracing
    BY <1>1, <2>1, <2>5, <2>7, <2>8 DEF Fields!ChangeTracing, IsDropped
  <2> QED BY <2>9, <2>10 DEF Fields!FieldNext
<1>4. CASE SetDropped
  <2>1. tracingWord' = tracingWord - TracingCounter + (Unit - 1)
    BY <1>2, <1>4, UnitType DEF SetDropped, SetAllBelow, Above, TracingCounter
  <2>2. UNCHANGED <<counterWord, weakWord>> /\ setDropped' = TRUE /\ setDropped' \in BOOLEAN
    BY <1>4 DEF SetDropped
  <2>3. TypeOK' /\ CounterInRange' /\ TracingCounter' = Unit - 1 /\ UNCHANGED Mark
    BY <2>1, <2>2, UnitType, TracingChanges
  <2>4. IsDropped'
    BY <1>2, <2>3 DEF IsDropped, CounterMask
  <2>5. Inv'
    BY <2>2, <2>3, <2>4 DEF Inv, DroppedIsTold
  <2>6. Fields!Drop
    BY <1>1, <2>3, <2>4 DEF Fields!Drop, IsDropped
  <2> QED BY <2>5, <2>6 DEF Fields!FieldNext
<1>5. ASSUME NEW m \in DOMAIN MarkBits, SetMark(m) PROVE Inv' /\ Fields!FieldNext
  <2>1. Inv' /\ Mark' = m /\ UNCHANGED <<TracingCounter, IsDropped>>
    BY <1>5, MarkChanges
  <2>2. m \in Fields!MarkNames
    BY DEF Fields!MarkNames, MarkBits
  <2>3. Fields!ChangeMark
    BY <1>1, <2>1, <2>2 DEF Fields!ChangeMark
  <2> QED BY <2>1, <2>3 DEF Fields!FieldNext
<1> QED BY <1>3, <1>4, <1>5

LEMMA WeakStep ==
    ASSUME Inv,
           \/ WeakIncrementCounter \/ WeakDecrementCounter
           \/ \E v \in BOOLEAN : SetAccessible(v)
    PROVE  Inv' /\ Fields!FieldNext
<1>0. UNCHANGED <<tracingWord, counterWord, setDropped>>
  BY DEF WeakIncrementCounter, WeakDecrementCounter, SetAccessible
<1>1. Fields!strongVars' = Fields!strongVars /\ Fields!tracingVars' = Fields!tracingVars
  BY <1>0, Untouched DEF Fields!strongVars, Fields!tracingVars, StrongFields, TracingFields
<1>2. WeakCounter \in 0..WeakMAX /\ weakWord \in Words /\ weakWord \in Nat /\ WeakMAX \in Nat
  BY PartsOfWords, UnitType DEF Inv, TypeOK, Limits, Words
<1>3. CASE WeakIncrementCounter \/ WeakDecrementCounter
  <2> DEFINE d == IF WeakIncrementCounter THEN WeakCounter + 1 ELSE WeakCounter - 1
  <2>1. d \in 0..WeakMAX /\ weakWord' = weakWord - WeakCounter + d
    BY <1>2, <1>3 DEF WeakIncrementCounter, WeakDecrementCounter
  <2>2. d \in Fields!Steps(WeakCounter, WeakMAX)
    BY <1>2, <1>3, <2>1 DEF Fields!Steps
  <2> HIDE DEF d
  <2>3. /\ weakWord' \in Words /\ Below(weakWord', FirstBit) = d
        /\ IsSet(weakWord', FirstBit) <=> IsSet(weakWord, FirstBit)
    BY <1>2, <2>1, ChangeWeakCounter DEF WeakCounter
  <2>4. Inv'
    BY <1>0, <2>3, WeakChanges
  <2>5. Fields!ChangeWeak
    BY <1>1, <2>2, <2>3 DEF Fields!ChangeWeak, WeakCounter, IsAccessible, IsSet
  <2> QED BY <2>4, <2>5 DEF Fields!FieldNext
<1>4. ASSUME NEW v \in BOOLEAN, SetAccessible(v) PROVE Inv' /\ Fields!FieldNext
  <2>1. weakWord' \in Words /\ Below(weakWord', FirstBit) = Below(weakWord, FirstBit)
    BY <1>2, <1>4, ChangeAccessibleBit DEF SetAccessible
  <2>2. Inv'
    BY <1>0, <2>1, WeakChanges
  <2>3. Fields!ChangeAccessible
    BY <1>1, <2>1 DEF Fields!ChangeAccessible, WeakCounter, IsAccessible, IsSet
  <2> QED BY <2>2, <2>3 DEF Fields!FieldNext
<1> QED BY <1>3, <1>4

LEMMA NextStep ==
    ASSUME Inv, [Next]_vars
    PROVE  Inv' /\ [Fields!FieldNext]_Fields!fieldVars
<1>1. CASE UNCHANGED vars
  <2>1. Inv'
    BY <1>1, Untouched DEF vars, words, Inv, TypeOK, CounterInRange, DroppedIsTold, StrongFields, TracingFields
  <2>2. UNCHANGED Fields!fieldVars
    BY <1>1, Untouched DEF vars, words, Fields!fieldVars, Fields!strongVars, Fields!tracingVars,
                           Fields!weakVars, StrongFields, TracingFields, WeakFields
  <2> QED BY <2>1, <2>2
<1> QED BY <1>1, StrongStep, TracingStep, WeakStep DEF Next

-----------------------------------------------------------------------------
(* The theorems *)

LEMMA InitStep ==
    ASSUME Init
    PROVE  Inv /\ Fields!FieldInit
<1>1. IsWord(tracingWord, 1, 0)
  BY UnitType DEF Init, IsWord
<1>2. PICK b \in 0..1 : IsWord(counterWord, 1, b)
  BY UnitType DEF Init, IsWord
<1>3. PICK a \in 0..1 : IsWeakWord(weakWord, 0, a)
  BY FirstBitType DEF Init, IsWeakWord
<1>4. /\ TracingCounter = 1 /\ Counter = 1 /\ WeakCounter = 0 /\ ~HasAllocatedForMetadata
      /\ tracingWord \in Words /\ counterWord \in Words /\ weakWord \in Words
  BY <1>1, <1>2, <1>3, WordTells, WeakTells
     DEF TracingCounter, Counter, WeakCounter, HasAllocatedForMetadata
<1>5. Mark = "NonMarked"
  <2>1. Above(tracingWord, Unit) = 0 * Unit /\ ~IsSet(tracingWord, FirstBit)
    BY <1>1, WordTells
  <2>2. Above(tracingWord, Unit) # Unit
    BY <2>1, UnitType
  <2> QED BY <2>1, <2>2 DEF Mark, IsInPossibleCycles, IsNotMarked
<1>6. ~IsDropped /\ setDropped = FALSE
  BY <1>4, UnitType DEF Init, IsDropped, CounterMask
<1>7. Inv
  <2>1. TypeOK
    BY <1>4, <1>6 DEF TypeOK
  <2>2. CounterInRange
    BY <1>4, UnitType DEF CounterInRange, MAX, CounterMask
  <2>3. DroppedIsTold
    BY <1>6 DEF DroppedIsTold
  <2> QED BY <2>1, <2>2, <2>3 DEF Inv
<1>8. Fields!FieldInit
  BY <1>4, <1>5, <1>6 DEF Fields!FieldInit, NeedsFinalization, IsAccessible, IsSet
<1> QED BY <1>7, <1>8

(* The inductive invariant: words keep their width, the reference counter     *)
(* never reaches the reserved value, and the tracing counter has it only when *)
(* the value was dropped (CounterMarker, WeakCounterMarker).                  *)
THEOREM WordsInvariant == Spec => []Inv
BY InitStep, NextStep, PTL DEF Spec

(* Nothing is carried out of a word or borrowed from its upper bits. *)
THEOREM WordsTypes == Spec => []TypeOK
BY WordsInvariant, PTL DEF Inv

(* A box looks dropped exactly when set_dropped was called: no counting,      *)
(* resetting or marking yields the reserved value (CounterMarker::is_dropped).*)
THEOREM DroppedCorrect == Spec => []DroppedIsTold
BY WordsInvariant, PTL DEF Inv

(* The words implement independent fields with the limits MAX: every          *)
(* operation of CounterMarker and WeakCounterMarker changes one field and     *)
(* none that shares the word with it, at any width of the words.              *)
THEOREM WordsImplementFields == Spec => FieldsAreIndependent
<1>1. Init => Fields!FieldInit
  BY InitStep
<1>2. Inv /\ [Next]_vars => [Fields!FieldNext]_Fields!fieldVars
  BY NextStep
<1> QED BY <1>1, <1>2, WordsInvariant, PTL DEF Spec, FieldsAreIndependent, Fields!FieldSpec
==============================================================================
