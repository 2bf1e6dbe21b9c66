------------------------------ MODULE CcTrigger ------------------------------
(***************************************************************************)
(* When collections start by themselves: Config (config.rs), the bytes      *)
(* State counts (state.rs), and trigger_collection and collect_cycles        *)
(* (lib.rs).  The loops of Config::adjust are steps of their own: the first  *)
(* one need not end.  What a collection does is CcCollector's; here it frees *)
(* and, by finalizers, allocates any number of blocks.                       *)
(*                                                                           *)
(* The code computes adjustment_percent in f64; here percent is a number of  *)
(* Scale-ths and the product is exact.                                       *)
(***************************************************************************)
EXTENDS Naturals

CONSTANTS
    Modulus,      \* 2^(bits of usize)
    Default,      \* DEFAULT_BYTES_THRESHOLD, 100 in the code
    Scale,        \* percents are multiples of 1/Scale
    Percents,     \* the values of adjustment_percent the program sets
    Limits,       \* the values of buffered_threshold the program sets; 0 is None
    MaxBytes,     \* bound: the bytes that can be allocated
    MaxBuffered   \* bound: the objects that can be buffered

ASSUME ConstantsAssumption ==
    /\ Modulus \in Nat /\ Default \in Nat /\ Scale \in Nat \ {0}
    /\ 0 < Default /\ Default < Modulus
    /\ Percents \subseteq 0..Scale       \* set_adjustment_percent asserts it
    /\ Limits \subseteq Nat
    /\ MaxBytes \in 0..(Modulus - 1) /\ MaxBuffered \in Nat

VARIABLES
    bytesThreshold, percent, bufferedThreshold, autoCollect,   \* Config
    borrowed,      \* a closure of the program runs inside config()
    allocated,     \* State::allocated_bytes
    buffered,      \* PossibleCycles::size
    phase,         \* "program", "collecting", "raising" or "lowering"
    creating,      \* whether the collection was started by Cc::new
    settled        \* history: allocated at the end of the last adjust, or NotSettled

configVars == <<bytesThreshold, percent, bufferedThreshold, autoCollect, borrowed>>
vars == <<configVars, allocated, buffered, phase, creating, settled>>

NotSettled == Modulus
Phases == {"program", "collecting", "raising", "lowering"}

-----------------------------------------------------------------------------
(* Config *)

ShiftLeft(x) == (2 * x) % Modulus      \* checked_shl(1): only the shift is checked
ShiftRight(x) == x \div 2

(* allocated <= bytes_threshold * adjustment_percent *)
Underused(a, t) == a * Scale <= t * percent

ShouldCollect ==
    /\ autoCollect
    /\ allocated > bytesThreshold \/ (bufferedThreshold # 0 /\ buffered > bufferedThreshold)

(* The program changes the configuration inside config(), where it may also   *)
(* create Ccs and collect; a finalizer may do so while a collection runs.      *)
EnterConfig ==
    /\ phase = "program" /\ ~borrowed
    /\ borrowed' = TRUE
    /\ UNCHANGED <<bytesThreshold, percent, bufferedThreshold, autoCollect>>
    /\ UNCHANGED <<allocated, buffered, phase, creating, settled>>

LeaveConfig ==
    /\ phase = "program" /\ borrowed
    /\ borrowed' = FALSE
    /\ UNCHANGED <<bytesThreshold, percent, bufferedThreshold, autoCollect>>
    /\ UNCHANGED <<allocated, buffered, phase, creating, settled>>

Configure ==
    /\ \/ phase = "program" /\ borrowed
       \/ phase = "collecting" /\ ~borrowed
    /\ \/ percent' \in Percents /\ UNCHANGED <<bufferedThreshold, autoCollect>>
       \/ bufferedThreshold' \in Limits /\ UNCHANGED <<percent, autoCollect>>
       \/ autoCollect' \in BOOLEAN /\ UNCHANGED <<percent, bufferedThreshold>>
    /\ UNCHANGED <<bytesThreshold, borrowed, allocated, buffered, phase, creating, settled>>

-----------------------------------------------------------------------------
(* Allocation.  One byte stands for one block. *)

(* The bound MaxBytes leaves room for the block a collection was started for. *)
Room == allocated + (IF creating THEN 1 ELSE 0) < MaxBytes

(* cc_alloc *)
RecordAllocation ==
    /\ Room
    /\ allocated' = allocated + 1

(* Cc::new does not start a collection: it runs in a collection already, the  *)
(* configuration is borrowed, or there is no need.                            *)
New ==
    /\ \/ phase = "program" /\ (borrowed \/ ~ShouldCollect)
       \/ phase = "collecting"
    /\ RecordAllocation
    /\ UNCHANGED <<configVars, buffered, phase, creating, settled>>

(* cc_dealloc *)
Free ==
    /\ phase \in {"program", "collecting"}
    /\ allocated > 0
    /\ allocated' = allocated - 1
    /\ UNCHANGED <<configVars, buffered, phase, creating, settled>>

(* add_to_list and remove_from_list; a collection empties and refills the list *)
(* by any number of such steps.                                                *)
Buffer ==
    /\ phase \in {"program", "collecting"}
    /\ buffered' \in {n \in 0..MaxBuffered : n = buffered + 1 \/ n + 1 = buffered}
    /\ UNCHANGED <<configVars, allocated, phase, creating, settled>>

-----------------------------------------------------------------------------
(* Collections *)

StartCollection(new) ==
    /\ phase = "program"
    /\ phase' = "collecting"
    /\ creating' = new
    /\ UNCHANGED <<configVars, allocated, buffered, settled>>

(* Cc::new starts one.  config() fails when the configuration is borrowed. *)
TriggerCollection ==
    /\ ~borrowed /\ ShouldCollect /\ Room
    /\ StartCollection(TRUE)

CollectCycles == StartCollection(FALSE)

(* After Cc::new collected, it allocates. *)
Resume(a) ==
    /\ phase' = "program" /\ creating' = FALSE
    /\ allocated' = IF creating THEN a + 1 ELSE a

(* The collection is over; adjust does nothing if the configuration is borrowed. *)
EndBorrowed ==
    /\ phase = "collecting" /\ borrowed
    /\ Resume(allocated)
    /\ UNCHANGED <<configVars, buffered, settled>>

(* A finalizer or destructor panics: nothing is adjusted or allocated. *)
CollectPanic ==
    /\ phase = "collecting"
    /\ phase' = "program" /\ creating' = FALSE
    /\ UNCHANGED <<configVars, allocated, buffered, settled>>

EndAdjust(t) ==
    /\ bytesThreshold' = t
    /\ settled' = allocated
    /\ Resume(allocated)

ContinueAdjust(t) ==
    /\ bytesThreshold' = t
    /\ UNCHANGED <<allocated, phase, creating, settled>>

(* adjust: which case it is *)
StartAdjust ==
    /\ phase = "collecting" /\ ~borrowed
    /\ IF allocated >= bytesThreshold
       THEN phase' = "raising" /\ UNCHANGED <<bytesThreshold, allocated, creating, settled>>
       ELSE IF bytesThreshold * percent = 0
       THEN EndAdjust(bytesThreshold)
       ELSE phase' = "lowering" /\ UNCHANGED <<bytesThreshold, allocated, creating, settled>>
    /\ UNCHANGED <<percent, bufferedThreshold, autoCollect, borrowed, buffered>>

(* adjust, first case *)
Raise_Fault ==
    /\ phase = "raising"
    /\ LET new == ShiftLeft(bytesThreshold) IN
       IF allocated <= new THEN EndAdjust(new) ELSE ContinueAdjust(new)
    /\ UNCHANGED <<percent, bufferedThreshold, autoCollect, borrowed, buffered>>

Raise ==
    /\ phase = "raising"
    /\ LET new == ShiftLeft(bytesThreshold) IN
       IF allocated < new THEN EndAdjust(new) ELSE ContinueAdjust(new)
    /\ UNCHANGED <<percent, bufferedThreshold, autoCollect, borrowed, buffered>>

(* adjust, second case: an iteration of its loop *)
Lower_Fault ==
    /\ phase = "lowering"
    /\ IF ~Underused(allocated, bytesThreshold) THEN EndAdjust(bytesThreshold)
       ELSE ContinueAdjust(ShiftRight(bytesThreshold))
    /\ UNCHANGED <<percent, bufferedThreshold, autoCollect, borrowed, buffered>>

Lower_FaultFloor ==
    /\ phase = "lowering"
    /\ LET new == ShiftRight(bytesThreshold) IN
       IF ~Underused(allocated, bytesThreshold) \/ allocated >= new
       THEN EndAdjust(bytesThreshold)
       ELSE ContinueAdjust(new)
    /\ UNCHANGED <<percent, bufferedThreshold, autoCollect, borrowed, buffered>>

Lower ==
    /\ phase = "lowering"
    /\ LET new == ShiftRight(bytesThreshold) IN
       IF ~Underused(allocated, bytesThreshold) \/ allocated >= new
       THEN EndAdjust(bytesThreshold)
       ELSE IF new <= Default THEN EndAdjust(Default)
       ELSE ContinueAdjust(new)
    /\ UNCHANGED <<percent, bufferedThreshold, autoCollect, borrowed, buffered>>

-----------------------------------------------------------------------------

(* Config::new and State::new *)
Init ==
    /\ bytesThreshold = Default /\ percent \in Percents
    /\ bufferedThreshold = 0 /\ autoCollect = TRUE /\ borrowed = FALSE
    /\ allocated = 0 /\ buffered = 0
    /\ phase = "program" /\ creating = FALSE /\ settled = NotSettled

Next ==
    \/ EnterConfig \/ LeaveConfig \/ Configure
    \/ New \/ Free \/ Buffer
    \/ TriggerCollection \/ CollectCycles \/ EndBorrowed \/ StartAdjust \/ CollectPanic
    \/ Raise \/ Lower

Spec == Init /\ [][Next]_vars

(* The loops of adjust go on while they can.  Nothing is asked of the program. *)
FairSpec == Spec /\ WF_vars(Raise \/ Lower)

-----------------------------------------------------------------------------

(* adjust never lowers the threshold under its default, however often it is   *)
(* halved, nor changes it to anything but the default doubled some times.     *)
Doubled[k \in 0..MaxBytes] == IF k = 0 THEN Default ELSE 2 * Doubled[k - 1]
Thresholds == {Doubled[k] : k \in 0..MaxBytes}

(* The type of every variable. *)
TypeOK ==
    /\ bytesThreshold \in Thresholds
    /\ percent \in Percents /\ bufferedThreshold \in Limits \cup {0}
    /\ autoCollect \in BOOLEAN /\ borrowed \in BOOLEAN
    /\ allocated \in 0..MaxBytes /\ buffered \in 0..MaxBuffered
    /\ phase \in Phases /\ creating \in BOOLEAN
    /\ settled \in 0..MaxBytes \cup {NotSettled}

(* t is above a, and cannot be halved: it is the default, half of it would not *)
(* be above a, or a exceeds the percentage.                                   *)
AdjustedOK(t, a) ==
    /\ a < t
    /\ \/ t = Default \/ percent = 0
       \/ a >= ShiftRight(t)
       \/ ~Underused(a, t)

EndsAdjust == phase \in {"raising", "lowering"} /\ phase' = "program"

(* adjust leaves a threshold above what is allocated, and not above it by more *)
(* than the configuration asks for (Config::adjust).                          *)
AdjustSettles == [][EndsAdjust => AdjustedOK(bytesThreshold', allocated)]_vars

StartedByBytes ==
    phase = "program" /\ phase' = "collecting" /\ creating'
    /\ ~(bufferedThreshold # 0 /\ buffered > bufferedThreshold)

(* A collection that Cc::new starts because of the bytes allocated is worth    *)
(* it: since the threshold was adjusted last, more was allocated.             *)
GrowthBetweenCollections ==
    [][StartedByBytes /\ settled # NotSettled => allocated > settled]_vars

(* The loops of Config::adjust end; as its documentation says (config.rs:14),  *)
(* a threshold that is too low is doubled until it exceeds what is allocated.  *)
(* It is not so where checked_shl loses bits: the threshold becomes 0, and     *)
(* twice 0 exceeds nothing.                                                    *)
AdjustEnds == phase \in {"raising", "lowering"} ~> phase = "program"

==============================================================================
