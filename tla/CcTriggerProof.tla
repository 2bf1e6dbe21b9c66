---------------------------- MODULE CcTriggerProof ----------------------------
(* Config::adjust leaves a threshold that suits what is allocated, for any   *)
(* default, percentages, width of usize and number of bytes.                 *)
EXTENDS CcTrigger, FiniteSetTheorems, WellFoundedInduction, TLAPS

-----------------------------------------------------------------------------
(* The shifts *)

LEMMA ShiftsType ==
    ASSUME NEW x \in Nat
    PROVE  /\ ShiftLeft(x) \in Nat /\ ShiftRight(x) \in Nat
           /\ ShiftLeft(x) <= 2 * x /\ ShiftRight(ShiftLeft(x)) <= x
           /\ 2 * x < Modulus => ShiftLeft(x) = 2 * x
<1>1. Modulus \in Nat /\ Modulus > 0
  BY ConstantsAssumption
<1>2. ASSUME NEW y \in Nat, NEW m \in Nat, m > 0
      PROVE  y % m \in Nat /\ y % m <= y /\ (y < m => y % m = y)
  BY <1>2
<1>3. ASSUME NEW y \in Nat PROVE y \div 2 \in Nat /\ 2 * (y \div 2) <= y
  BY <1>3
<1> QED BY <1>1, <1>2, <1>3 DEF ShiftLeft, ShiftRight

-----------------------------------------------------------------------------
(* The inductive invariant *)

Numbers ==
    /\ bytesThreshold \in Nat /\ allocated \in Nat
    /\ settled \in Nat
    /\ phase \in Phases

(* The case that adjust is in stays the right one while it loops. *)
RightCase ==
    /\ phase = "raising" => allocated >= bytesThreshold
    /\ phase = "lowering" => allocated < bytesThreshold

(* Between two collections the threshold is above what was allocated then. *)
SettledUnder ==
    phase \in {"program", "collecting"} /\ settled # NotSettled => settled < bytesThreshold

Inv == Numbers /\ RightCase /\ SettledUnder

-----------------------------------------------------------------------------
(* The steps *)

(* One of the loops of adjust ends, or goes on. *)
LEMMA RaiseStep ==
    ASSUME Inv, Raise
    PROVE  /\ Inv'
           /\ EndsAdjust => AdjustedOK(bytesThreshold', allocated)
<1> DEFINE new == ShiftLeft(bytesThreshold)
<1>1. /\ new \in Nat /\ ShiftRight(new) <= bytesThreshold /\ ShiftRight(new) \in Nat
      /\ bytesThreshold \in Nat /\ allocated \in Nat /\ allocated >= bytesThreshold
      /\ phase = "raising"
  BY ShiftsType DEF Inv, Numbers, RightCase, Raise
<1> HIDE DEF new
<1>2. CASE allocated < new
  <2>1. /\ bytesThreshold' = new /\ settled' = allocated /\ phase' = "program"
        /\ allocated' \in {allocated, allocated + 1}
    BY <1>2 DEF Raise, EndAdjust, Resume, new
  <2>2. Inv'
    BY <1>1, <1>2, <2>1 DEF Inv, Numbers, RightCase, SettledUnder, Phases
  <2>3. AdjustedOK(new, allocated)
    BY <1>1, <1>2 DEF AdjustedOK
  <2> QED BY <2>1, <2>2, <2>3
<1>3. CASE ~(allocated < new)
  <2>1. bytesThreshold' = new /\ UNCHANGED <<allocated, phase, creating, settled>>
    BY <1>3 DEF Raise, ContinueAdjust, new
  <2> QED
    BY <1>1, <1>3, <2>1 DEF Inv, Numbers, RightCase, SettledUnder, EndsAdjust
<1> QED BY <1>2, <1>3

LEMMA LowerStep ==
    ASSUME Inv, Lower
    PROVE  /\ Inv'
           /\ EndsAdjust => AdjustedOK(bytesThreshold', allocated)
<1> DEFINE new == ShiftRight(bytesThreshold)
<1>1. /\ new \in Nat /\ bytesThreshold \in Nat /\ allocated \in Nat /\ allocated < bytesThreshold
      /\ phase = "lowering" /\ Default \in Nat
  BY ShiftsType, ConstantsAssumption DEF Inv, Numbers, RightCase, Lower
<1> HIDE DEF new
<1>2. CASE ~Underused(allocated, bytesThreshold) \/ allocated >= new
  <2>1. /\ bytesThreshold' = bytesThreshold /\ settled' = allocated /\ phase' = "program"
        /\ allocated' \in {allocated, allocated + 1}
    BY <1>2 DEF Lower, EndAdjust, Resume, new
  <2>2. Inv'
    BY <1>1, <2>1 DEF Inv, Numbers, RightCase, SettledUnder, Phases
  <2>3. AdjustedOK(bytesThreshold, allocated)
    BY <1>1, <1>2 DEF AdjustedOK, new
  <2> QED BY <2>1, <2>2, <2>3
<1>3. CASE Underused(allocated, bytesThreshold) /\ allocated < new /\ new <= Default
  <2>1. /\ bytesThreshold' = Default /\ settled' = allocated /\ phase' = "program"
        /\ allocated' \in {allocated, allocated + 1}
    BY <1>1, <1>3 DEF Lower, EndAdjust, Resume, new
  <2>2. allocated < Default
    BY <1>1, <1>3
  <2>3. Inv'
    BY <1>1, <2>1, <2>2 DEF Inv, Numbers, RightCase, SettledUnder, Phases
  <2>4. AdjustedOK(Default, allocated)
    BY <2>2 DEF AdjustedOK
  <2> QED BY <2>1, <2>3, <2>4
<1>4. CASE Underused(allocated, bytesThreshold) /\ allocated < new /\ ~(new <= Default)
  <2>1. bytesThreshold' = new /\ UNCHANGED <<allocated, phase, creating, settled>>
    BY <1>1, <1>4 DEF Lower, ContinueAdjust, new
  <2> QED
    BY <1>1, <1>4, <2>1 DEF Inv, Numbers, RightCase, SettledUnder, EndsAdjust
<1> QED BY <1>1, <1>2, <1>3, <1>4

LEMMA AdjustStarts ==
    ASSUME Inv, StartAdjust
    PROVE  Inv' /\ ~EndsAdjust
<1>1. allocated \in Nat /\ bytesThreshold \in Nat /\ phase = "collecting"
  BY DEF Inv, Numbers, StartAdjust
<1>2. CASE allocated >= bytesThreshold
  BY <1>1, <1>2 DEF StartAdjust, Inv, Numbers, RightCase, SettledUnder, EndsAdjust, Phases
<1>3. CASE ~(allocated >= bytesThreshold) /\ bytesThreshold * percent = 0
  <2>1. /\ bytesThreshold' = bytesThreshold /\ settled' = allocated /\ phase' = "program"
        /\ allocated' \in {allocated, allocated + 1}
    BY <1>3 DEF StartAdjust, EndAdjust, Resume
  <2> QED BY <1>1, <1>3, <2>1 DEF Inv, Numbers, RightCase, SettledUnder, EndsAdjust, Phases
<1>4. CASE ~(allocated >= bytesThreshold) /\ bytesThreshold * percent # 0
  BY <1>1, <1>4 DEF StartAdjust, Inv, Numbers, RightCase, SettledUnder, EndsAdjust, Phases
<1> QED BY <1>2, <1>3, <1>4

(* What is not adjust does not touch the threshold, and the program and the *)
(* collection allocate outside of it.                                       *)
LEMMA OutsideAdjust ==
    ASSUME Inv,
           \/ EnterConfig \/ LeaveConfig \/ Configure \/ New \/ Free \/ Buffer
           \/ TriggerCollection \/ CollectCycles \/ EndBorrowed \/ CollectPanic
    PROVE  Inv' /\ ~EndsAdjust
<1>1. /\ bytesThreshold' = bytesThreshold /\ settled' = settled
      /\ \/ phase' = phase /\ (allocated' = allocated \/ phase \in {"program", "collecting"})
         \/ phase \in {"program", "collecting"} /\ phase' \in {"program", "collecting"}
  BY DEF EnterConfig, LeaveConfig, Configure, New, Free, Buffer, TriggerCollection, CollectCycles,
         EndBorrowed, CollectPanic, StartCollection, Resume, configVars
<1>2. allocated' \in Nat
  <2>1. allocated \in Nat
    BY DEF Inv, Numbers
  <2>2. allocated' \in {allocated, allocated + 1} \/ (allocated > 0 /\ allocated' = allocated - 1)
    BY DEF EnterConfig, LeaveConfig, Configure, New, RecordAllocation, Free, Buffer, TriggerCollection,
           CollectCycles, EndBorrowed, CollectPanic, StartCollection, Resume
  <2> QED BY <2>1, <2>2
<1> QED BY <1>1, <1>2 DEF Inv, Numbers, RightCase, SettledUnder, EndsAdjust, Phases

LEMMA NextInv ==
    ASSUME Inv, [Next]_vars
    PROVE  Inv' /\ (EndsAdjust => AdjustedOK(bytesThreshold', allocated))
<1>1. CASE UNCHANGED vars
  BY <1>1 DEF vars, configVars, Inv, Numbers, RightCase, SettledUnder, EndsAdjust
<1> QED BY <1>1, RaiseStep, LowerStep, AdjustStarts, OutsideAdjust DEF Next

-----------------------------------------------------------------------------
(* The theorems *)

(* Each loop of adjust keeps to its case, and outside of adjust the threshold *)
(* is above what was allocated when it was adjusted last (Config::adjust).    *)
THEOREM TriggerInvariant == Spec => []Inv
<1>1. Init => Inv
  BY ConstantsAssumption DEF Init, Inv, Numbers, RightCase, SettledUnder, NotSettled, Phases
<1> QED BY <1>1, NextInv, PTL DEF Spec

(* When adjust returns, the threshold is above what is allocated, and it is   *)
(* the default or could not be halved, whatever the width of usize: a shift   *)
(* that loses the highest bit makes adjust go on, not end wrong.              *)
THEOREM AdjustCorrect == Spec => AdjustSettles
<1>1. Inv /\ [Next]_vars => [EndsAdjust => AdjustedOK(bytesThreshold', allocated)]_vars
  BY NextInv
<1> QED BY <1>1, TriggerInvariant, PTL DEF Spec, AdjustSettles

(* Collections that Cc::new starts because of the bytes allocated happen only *)
(* after the program allocated more than the last adjust saw: collections     *)
(* that free nothing do not follow each other (ShouldCollect, Config::adjust).*)
THEOREM GrowthCorrect == Spec => GrowthBetweenCollections
<1>1. Inv /\ [Next]_vars => [StartedByBytes /\ settled # NotSettled => allocated > settled]_vars
  <2> SUFFICES ASSUME Inv, [Next]_vars, StartedByBytes, settled # NotSettled
               PROVE  allocated > settled
    OBVIOUS
  <2>1. settled < bytesThreshold /\ settled \in Nat /\ bytesThreshold \in Nat /\ allocated \in Nat
    BY DEF Inv, Numbers, SettledUnder, StartedByBytes
  <2>2. TriggerCollection
    BY DEF StartedByBytes, Next, vars, EnterConfig, LeaveConfig, Configure, New, Free, Buffer,
           CollectCycles, EndBorrowed, CollectPanic, StartCollection, StartAdjust, Raise, Lower, Resume
  <2>3. allocated > bytesThreshold
    BY <2>2 DEF TriggerCollection, ShouldCollect, StartedByBytes
  <2> QED BY <2>1, <2>3
<1> QED BY <1>1, TriggerInvariant, PTL DEF Spec, GrowthBetweenCollections

-----------------------------------------------------------------------------
(* The threshold does not fall under its default. *)

(* MaxBytes bounds what is allocated, the block Cc::new collects for included. *)
Bounded ==
    /\ phase = "program" => ~creating
    /\ allocated <= MaxBytes
    /\ creating => allocated < MaxBytes

Floor == bytesThreshold >= Default

LEMMA NextBounded ==
    ASSUME Inv, Bounded, [Next]_vars
    PROVE  Bounded'
<1>1. allocated \in Nat /\ MaxBytes \in Nat
  BY ConstantsAssumption DEF Inv, Numbers
<1>2. ASSUME Resume(allocated) PROVE Bounded'
  BY <1>1, <1>2 DEF Resume, Bounded
<1>3. ASSUME UNCHANGED <<allocated, creating>>, phase' = "program" => phase = "program"
      PROVE  Bounded'
  BY <1>3 DEF Bounded
<1>4. CASE UNCHANGED vars \/ EnterConfig \/ LeaveConfig \/ Configure \/ Buffer
  BY <1>3, <1>4 DEF vars, configVars, EnterConfig, LeaveConfig, Configure, Buffer
<1>5. CASE New \/ Free
  BY <1>1, <1>5 DEF New, Free, RecordAllocation, Room, Bounded
<1>6. CASE TriggerCollection \/ CollectCycles
  BY <1>1, <1>6 DEF TriggerCollection, CollectCycles, StartCollection, Room, Bounded
<1>7. CASE CollectPanic
  BY <1>1, <1>7 DEF CollectPanic, Bounded
<1>8. CASE EndBorrowed
  BY <1>2, <1>8 DEF EndBorrowed
<1>9. CASE StartAdjust \/ Raise \/ Lower
  BY <1>2, <1>3, <1>9 DEF StartAdjust, Raise, Lower, EndAdjust, ContinueAdjust
<1> QED BY <1>4, <1>5, <1>6, <1>7, <1>8, <1>9 DEF Next

LEMMA NextFloor ==
    ASSUME 2 * MaxBytes < Modulus, Inv, Bounded, Floor, [Next]_vars
    PROVE  Floor'
<1>1. /\ allocated \in Nat /\ bytesThreshold \in Nat /\ Default \in Nat /\ MaxBytes \in Nat
      /\ Modulus \in Nat /\ allocated <= MaxBytes
  BY ConstantsAssumption DEF Inv, Numbers, Bounded
<1>2. CASE Raise
  <2>1. bytesThreshold <= allocated
    BY <1>1, <1>2 DEF Raise, Inv, RightCase
  <2>2. ShiftLeft(bytesThreshold) = 2 * bytesThreshold
    BY <1>1, <2>1, ShiftsType
  <2>3. bytesThreshold' = ShiftLeft(bytesThreshold)
    BY <1>2 DEF Raise, EndAdjust, ContinueAdjust
  <2> QED BY <1>1, <2>2, <2>3 DEF Floor
<1>3. CASE Lower
  BY <1>1, <1>3, ShiftsType DEF Lower, EndAdjust, ContinueAdjust, Floor
<1>4. CASE ~Raise /\ ~Lower
  <2>1. bytesThreshold' = bytesThreshold
    BY <1>4 DEF Next, vars, configVars, EnterConfig, LeaveConfig, Configure, New, Free, Buffer,
                TriggerCollection, CollectCycles, EndBorrowed, CollectPanic, StartCollection,
                StartAdjust, EndAdjust
  <2> QED BY <2>1 DEF Floor
<1> QED BY <1>2, <1>3, <1>4

(* The threshold is never under DEFAULT_BYTES_THRESHOLD, however often adjust *)
(* halves it, if less than half of the address space is allocated, so that    *)
(* doubling it does not lose the highest bit (Config::adjust).                *)
THEOREM ThresholdFloor ==
    ASSUME 2 * MaxBytes < Modulus
    PROVE  Spec => []Floor
<1>1. Init => Bounded /\ Floor
  BY ConstantsAssumption DEF Init, Bounded, Floor
<1>2. Inv /\ Bounded /\ Floor /\ [Next]_vars => Bounded' /\ Floor'
  BY NextBounded, NextFloor
<1> QED BY <1>1, <1>2, TriggerInvariant, PTL DEF Spec

-----------------------------------------------------------------------------
(* The threshold is the default doubled some times.                           *)

(* Induction over numbers, from the well-foundedness of strict inclusion. *)
LEMMA LeastNumber ==
    ASSUME NEW T \in SUBSET Nat, T # {}
    PROVE  \E n \in T : \A m \in T : ~(m < n)
<1> DEFINE W == {1..n : n \in T}
<1>1. W \subseteq FiniteSubsetsOf(Nat) /\ W # {}
  <2>1. \A n \in T : 1..n \subseteq Nat /\ IsFiniteSet(1..n)
    BY FS_Interval
  <2> QED BY <2>1 DEF FiniteSubsetsOf
<1>2. \E x \in W : \A y \in W : ~(<<y, x>> \in StrictSubsetOrdering(Nat))
  BY <1>1, FS_StrictSubsetOrderingWellFounded, WFMin
<1>3. PICK n \in T : \A m \in T : ~(<<1..m, 1..n>> \in StrictSubsetOrdering(Nat))
  BY <1>2
<1>4. ASSUME NEW m \in T, m < n PROVE FALSE
  <2>1. 1..m \subseteq 1..n /\ n \in 1..n /\ n \notin 1..m /\ 1..m \subseteq Nat /\ 1..n \subseteq Nat
    BY <1>4
  <2>2. <<1..m, 1..n>> \in StrictSubsetOrdering(Nat)
    BY <2>1 DEF StrictSubsetOrdering
  <2> QED BY <2>2, <1>3
<1> QED BY <1>4

LEMMA Induction ==
    ASSUME NEW S, 0 \in S, \A n \in Nat : n \in S => n + 1 \in S
    PROVE  \A n \in Nat : n \in S
<1> SUFFICES ASSUME Nat \ S # {} PROVE FALSE
  OBVIOUS
<1>1. PICK n \in Nat \ S : \A m \in Nat \ S : ~(m < n)
  BY LeastNumber
<1> QED BY <1>1, n - 1 \in Nat, n # 0

Doubles(f, n) == f = [k \in 0..n |-> IF k = 0 THEN Default ELSE 2 * f[k - 1]]

LEMMA DoublesExist ==
    ASSUME NEW n \in Nat
    PROVE  \E f : Doubles(f, n)
<1> DEFINE S == {k \in Nat : \E f : Doubles(f, k)}
<1>1. 0 \in S
  <2> DEFINE f == [k \in 0..0 |-> Default]
  <2>1. Doubles(f, 0)
    BY DEF Doubles
  <2> QED BY <2>1
<1>2. ASSUME NEW k \in Nat, k \in S PROVE k + 1 \in S
  <2>1. PICK f : Doubles(f, k)
    BY <1>2
  <2> DEFINE h == [j \in 0..(k + 1) |-> IF j = k + 1 THEN 2 * f[k] ELSE f[j]]
  <2>2. f[0] = Default /\ \A j \in 0..k : j # 0 => f[j] = 2 * f[j - 1]
    BY <2>1 DEF Doubles
  <2>3. h = [j \in 0..(k + 1) |-> h[j]] /\ h[k + 1] = 2 * f[k] /\ \A j \in 0..k : h[j] = f[j]
    OBVIOUS
  <2> HIDE DEF h
  <2>4. h[0] = Default /\ \A j \in 0..(k + 1) : j # 0 => h[j] = 2 * h[j - 1]
    <3>1. ASSUME NEW j \in 0..(k + 1), j # 0 PROVE h[j] = 2 * h[j - 1]
      <4>1. j - 1 \in 0..k /\ (j \in 0..k \/ (j = k + 1 /\ j - 1 = k))
        BY <3>1
      <4>2. h[j - 1] = f[j - 1]
        BY <2>3, <4>1
      <4> QED BY <2>2, <2>3, <3>1, <4>1, <4>2
    <3>2. h[0] = f[0]
      BY <2>3, 0 \in 0..k
    <3> QED BY <2>2, <3>1, <3>2
  <2>5. Doubles(h, k + 1)
    BY <2>3, <2>4 DEF Doubles
  <2> QED BY <2>5
<1>3. \A k \in Nat : k \in S
  <2> HIDE DEF S
  <2>1. \A k \in Nat : k \in S => k + 1 \in S
    BY <1>2
  <2> QED BY <1>1, <2>1, Induction
<1> QED BY <1>3

(* Doubling grows: after k times the default exceeds k. *)
LEMMA DoubledTells ==
    /\ MaxBytes \in Nat /\ Default \in Nat
    /\ Doubled[0] = Default
    /\ \A k \in 0..MaxBytes : Doubled[k] \in Nat /\ Doubled[k] > k
    /\ \A k \in 0..MaxBytes : k # 0 => Doubled[k] = 2 * Doubled[k - 1]
<1>1. MaxBytes \in Nat /\ Default \in Nat /\ Default > 0
  BY ConstantsAssumption
<1>2. Doubles(Doubled, MaxBytes)
  <2>1. \E f : Doubles(f, MaxBytes)
    BY <1>1, DoublesExist
  <2> QED BY <2>1 DEF Doubled, Doubles
<1>3. /\ Doubled[0] = Default
      /\ \A k \in 0..MaxBytes : k # 0 => Doubled[k] = 2 * Doubled[k - 1]
  BY <1>1, <1>2 DEF Doubles
<1> DEFINE S == {k \in Nat : k <= MaxBytes => Doubled[k] \in Nat /\ Doubled[k] > k}
<1>4. 0 \in S
  BY <1>1, <1>3
<1>5. ASSUME NEW k \in Nat, k \in S PROVE k + 1 \in S
  <2> SUFFICES ASSUME k + 1 <= MaxBytes PROVE Doubled[k + 1] \in Nat /\ Doubled[k + 1] > k + 1
    OBVIOUS
  <2>1. Doubled[k] \in Nat /\ Doubled[k] > k
    BY <1>1, <1>5
  <2>2. Doubled[k + 1] = 2 * Doubled[k]
    BY <1>1, <1>3, (k + 1) - 1 = k, k + 1 \in 0..MaxBytes
  <2> QED BY <2>1, <2>2
<1>6. \A k \in Nat : k \in S
  <2> HIDE DEF S
  <2>1. \A k \in Nat : k \in S => k + 1 \in S
    BY <1>5
  <2> QED BY <1>4, <2>1, Induction
<1> QED BY <1>1, <1>3, <1>6

LEMMA NextThreshold ==
    ASSUME 2 * MaxBytes < Modulus, Inv, Bounded, bytesThreshold \in Thresholds, [Next]_vars
    PROVE  bytesThreshold' \in Thresholds
<1>1. PICK k \in 0..MaxBytes : bytesThreshold = Doubled[k]
  BY DEF Thresholds
<1>2. /\ allocated \in Nat /\ bytesThreshold \in Nat /\ MaxBytes \in Nat /\ Modulus \in Nat
      /\ allocated <= MaxBytes /\ bytesThreshold > k /\ k \in Nat
  BY <1>1, ConstantsAssumption, DoubledTells DEF Inv, Numbers, Bounded
<1>3. CASE Raise
  <2>1. bytesThreshold <= allocated
    BY <1>2, <1>3 DEF Raise, Inv, RightCase
  <2>2. ShiftLeft(bytesThreshold) = 2 * bytesThreshold
    BY <1>2, <2>1, ShiftsType
  <2>3. k + 1 \in 0..MaxBytes /\ (k + 1) - 1 = k /\ k + 1 # 0
    BY <1>2, <2>1
  <2>4. bytesThreshold' = Doubled[k + 1]
    BY <1>1, <1>3, <2>2, <2>3, DoubledTells DEF Raise, EndAdjust, ContinueAdjust
  <2> QED BY <2>3, <2>4 DEF Thresholds
<1>4. CASE Lower
  <2>1. CASE bytesThreshold' = bytesThreshold
    BY <2>1
  <2>2. CASE bytesThreshold' = Default
    BY <1>2, <2>2, DoubledTells DEF Thresholds
  <2>3. CASE bytesThreshold' = ShiftRight(bytesThreshold) /\ ShiftRight(bytesThreshold) > Default
    <3>1. k # 0
      BY <1>1, <1>2, <2>3, DoubledTells DEF ShiftRight
    <3>2. k - 1 \in 0..MaxBytes /\ bytesThreshold = 2 * Doubled[k - 1] /\ Doubled[k - 1] \in Nat
      BY <1>1, <1>2, <3>1, DoubledTells
    <3>3. ShiftRight(bytesThreshold) = Doubled[k - 1]
      BY <3>2 DEF ShiftRight
    <3> QED BY <2>3, <3>2, <3>3 DEF Thresholds
  <2>4. ShiftRight(bytesThreshold) \in Nat /\ Default \in Nat
    BY <1>2, ShiftsType, DoubledTells
  <2> QED BY <1>4, <2>1, <2>2, <2>3, <2>4 DEF Lower, EndAdjust, ContinueAdjust
<1>5. CASE ~Raise /\ ~Lower
  BY <1>5 DEF Next, vars, configVars, EnterConfig, LeaveConfig, Configure, New, Free, Buffer,
              TriggerCollection, CollectCycles, EndBorrowed, CollectPanic, StartCollection,
              StartAdjust, EndAdjust
<1> QED BY <1>3, <1>4, <1>5

LEMMA NextTypes ==
    ASSUME TypeOK, Bounded, Bounded', bytesThreshold' \in Thresholds, Numbers', [Next]_vars
    PROVE  TypeOK'
<1>1. allocated' \in 0..MaxBytes
  BY ConstantsAssumption DEF Numbers, Bounded
<1>2. /\ percent' \in Percents /\ bufferedThreshold' \in Limits \cup {0}
      /\ autoCollect' \in BOOLEAN /\ borrowed' \in BOOLEAN
  BY DEF TypeOK, Next, vars, configVars, EnterConfig, LeaveConfig, Configure, New, Free, Buffer,
         TriggerCollection, CollectCycles, EndBorrowed, CollectPanic, StartCollection,
         StartAdjust, Raise, Lower
<1>3. buffered' \in 0..MaxBuffered
  BY DEF TypeOK, Next, vars, configVars, EnterConfig, LeaveConfig, Configure, New, Free, Buffer,
         TriggerCollection, CollectCycles, EndBorrowed, CollectPanic, StartCollection,
         StartAdjust, Raise, Lower
<1>4. creating' \in BOOLEAN
  BY DEF TypeOK, Next, vars, configVars, EnterConfig, LeaveConfig, Configure, New, Free, Buffer,
         TriggerCollection, CollectCycles, EndBorrowed, CollectPanic, StartCollection,
         StartAdjust, Raise, Lower, EndAdjust, ContinueAdjust, Resume
<1>5. settled' \in 0..MaxBytes \cup {NotSettled}
  BY DEF TypeOK, Next, vars, configVars, EnterConfig, LeaveConfig, Configure, New, Free, Buffer,
         TriggerCollection, CollectCycles, EndBorrowed, CollectPanic, StartCollection,
         StartAdjust, Raise, Lower, EndAdjust, ContinueAdjust
<1> QED BY <1>1, <1>2, <1>3, <1>4, <1>5 DEF TypeOK, Numbers

(* Every variable has its type; the threshold is DEFAULT_BYTES_THRESHOLD       *)
(* doubled some times, in whatever order adjust doubled and halved it, if less *)
(* than half of the address space is allocated (Config::adjust).               *)
THEOREM TriggerTypes ==
    ASSUME 2 * MaxBytes < Modulus
    PROVE  Spec => []TypeOK
<1>1. Init => TypeOK /\ Bounded
  <2>1. MaxBytes \in Nat /\ MaxBuffered \in Nat /\ 0 \in 0..MaxBytes /\ 0 \in 0..MaxBuffered
    BY ConstantsAssumption, DoubledTells
  <2>2. Default \in Thresholds
    BY <2>1, DoubledTells DEF Thresholds
  <2>3. Init => autoCollect \in BOOLEAN /\ borrowed \in BOOLEAN /\ creating \in BOOLEAN
    BY DEF Init
  <2>4. Init => Bounded
    BY <2>1 DEF Init, Bounded
  <2>5. Init => /\ bytesThreshold \in Thresholds /\ percent \in Percents
                /\ bufferedThreshold \in Limits \cup {0}
                /\ allocated \in 0..MaxBytes /\ buffered \in 0..MaxBuffered
                /\ phase \in Phases /\ settled \in 0..MaxBytes \cup {NotSettled}
    BY <2>1, <2>2 DEF Init, Phases
  <2> QED BY <2>3, <2>4, <2>5 DEF TypeOK
<1>2. Inv /\ Inv' /\ Bounded /\ TypeOK /\ [Next]_vars => Bounded' /\ TypeOK'
  <2> SUFFICES ASSUME Inv, Inv', Bounded, TypeOK, [Next]_vars PROVE Bounded' /\ TypeOK'
    OBVIOUS
  <2>1. Bounded'
    BY NextBounded
  <2>2. bytesThreshold' \in Thresholds
    BY NextThreshold DEF TypeOK
  <2> QED BY <2>1, <2>2, NextTypes DEF Inv
<1> QED BY <1>1, <1>2, TriggerInvariant, PTL DEF Spec
==============================================================================
