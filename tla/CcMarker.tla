------------------------------- MODULE CcMarker -------------------------------
(***************************************************************************)
(* CounterMarker (counter_marker.rs) and WeakCounterMarker                  *)
(* (weak_counter_marker.rs): the words of a CcBox and of its metadata, and   *)
(* the bit operations on them.  The code has words of 16 bits, with counters *)
(* of 14 and 15 bits; every constant in it is computed from the width of the *)
(* word, and so it is here.                                                  *)
(*                                                                           *)
(* The tracing counter with every bit set says that the value was dropped.   *)
(* The operations on it that would not survive this (they debug_assert! the  *)
(* reserved value away) are modelled with that assertion as their guard; that *)
(* the collector respects it is an invariant of CcCollector.                 *)
(***************************************************************************)
EXTENDS Naturals

CONSTANT Unit    \* the bit above the counter, FINALIZED_MASK: 2^14 in the code

ASSUME UnitAssumption == Unit \in Nat /\ Unit >= 4 /\ \E k \in 2..Unit : Unit = 2 ^ k

VARIABLES
    tracingWord,    \* CounterMarker::tracing_counter
    counterWord,    \* CounterMarker::counter
    weakWord,       \* WeakCounterMarker::weak_counter
    setDropped      \* history: whether set_dropped was called

words == <<tracingWord, counterWord, weakWord>>
vars == <<words, setDropped>>

FirstBit == 2 * Unit           \* FIRST_BIT_MASK and ACCESSIBLE_MASK
Words == 0..(4 * Unit - 1)
CounterMask == Unit - 1
MAX == CounterMask - 1
WeakMAX == FirstBit - 1

-----------------------------------------------------------------------------
(* Masking.  Every mask of the code is the bits below one, or one bit. *)

Below(x, bit) == x % bit                    \* x & (bit - 1)
Above(x, bit) == x - Below(x, bit)          \* x & !(bit - 1)
IsSet(x, bit) == (x \div bit) % 2 = 1       \* (x & bit) != 0

(* set_bits for a mask that is a single bit *)
SetBit(x, bit, value) ==
    IF value = IsSet(x, bit) THEN x ELSE IF value THEN x + bit ELSE x - bit

(* set_bits(true) for COUNTER_MASK *)
SetAllBelow(x, bit) == Above(x, bit) + bit - 1

Counter == Below(counterWord, Unit)
TracingCounter == Below(tracingWord, Unit)
WeakCounter == Below(weakWord, FirstBit)

NeedsFinalization == ~IsSet(counterWord, Unit)
HasAllocatedForMetadata == IsSet(counterWord, FirstBit)
IsAccessible == IsSet(weakWord, FirstBit)

IsDropped == TracingCounter = CounterMask

IsNotMarked == ~IsSet(tracingWord, FirstBit)
IsInListOrQueue == IsSet(tracingWord, FirstBit)
IsInPossibleCycles == Above(tracingWord, Unit) = Unit
IsInList == Above(tracingWord, Unit) = 2 * Unit
IsInQueue == Above(tracingWord, Unit) = 3 * Unit

(* The discriminants of the enum Mark *)
MarkBits ==
    [NonMarked |-> 0, PossibleCycles |-> Unit, InList |-> 2 * Unit, InQueue |-> 3 * Unit]

-----------------------------------------------------------------------------
(* The operations.  At a limit they return an error and change nothing. *)

IncrementCounter_Fault ==
    /\ counterWord' = counterWord + 1
    /\ UNCHANGED <<tracingWord, weakWord, setDropped>>

IncrementCounter ==
    /\ Counter # MAX
    /\ counterWord' = counterWord + 1
    /\ UNCHANGED <<tracingWord, weakWord, setDropped>>

DecrementCounter ==
    /\ Counter # 0
    /\ counterWord' = counterWord - 1
    /\ UNCHANGED <<tracingWord, weakWord, setDropped>>

IncrementTracingCounter_Fault ==
    /\ ~IsDropped
    /\ tracingWord' = tracingWord + 1
    /\ UNCHANGED <<counterWord, weakWord, setDropped>>

IncrementTracingCounter ==
    /\ ~IsDropped
    /\ TracingCounter # MAX
    /\ tracingWord' = tracingWord + 1
    /\ UNCHANGED <<counterWord, weakWord, setDropped>>

ResetTracingCounter ==
    /\ ~IsDropped
    /\ tracingWord' = Above(tracingWord, Unit)
    /\ UNCHANGED <<counterWord, weakWord, setDropped>>

SetFinalized(value) ==
    /\ counterWord' = SetBit(counterWord, Unit, value)
    /\ UNCHANGED <<tracingWord, weakWord, setDropped>>

(* set_allocated_for_metadata; the code never clears the bit again. *)
SetAllocatedForMetadata ==
    /\ counterWord' = SetBit(counterWord, FirstBit, TRUE)
    /\ UNCHANGED <<tracingWord, weakWord, setDropped>>

(* set_dropped(true); the code never calls it with false. *)
SetDropped ==
    /\ tracingWord' = SetAllBelow(tracingWord, Unit)
    /\ setDropped' = TRUE
    /\ UNCHANGED <<counterWord, weakWord>>

SetMark(m) ==
    /\ tracingWord' = Below(tracingWord, Unit) + MarkBits[m]
    /\ UNCHANGED <<counterWord, weakWord, setDropped>>

WeakIncrementCounter_Fault ==
    /\ weakWord' = weakWord + 1
    /\ UNCHANGED <<tracingWord, counterWord, setDropped>>

WeakIncrementCounter ==
    /\ WeakCounter # WeakMAX
    /\ weakWord' = weakWord + 1
    /\ UNCHANGED <<tracingWord, counterWord, setDropped>>

WeakDecrementCounter ==
    /\ WeakCounter # 0
    /\ weakWord' = weakWord - 1
    /\ UNCHANGED <<tracingWord, counterWord, setDropped>>

SetAccessible(value) ==
    /\ weakWord' = SetBit(weakWord, FirstBit, value)
    /\ UNCHANGED <<tracingWord, counterWord, setDropped>>

(* new_with_counter_to_one and WeakCounterMarker::new *)
Init ==
    /\ tracingWord = 1
    /\ counterWord \in {1, 1 + Unit}
    /\ weakWord \in {0, FirstBit}
    /\ setDropped = FALSE

Next ==
    \/ IncrementCounter \/ DecrementCounter
    \/ IncrementTracingCounter \/ ResetTracingCounter
    \/ \E value \in BOOLEAN : SetFinalized(value) \/ SetAccessible(value)
    \/ SetAllocatedForMetadata \/ SetDropped
    \/ \E m \in DOMAIN MarkBits : SetMark(m)
    \/ WeakIncrementCounter \/ WeakDecrementCounter

Spec == Init /\ [][Next]_vars

-----------------------------------------------------------------------------
(* What the words encode. *)

(* The words keep their width: nothing is carried out of them, or borrowed. *)
TypeOK ==
    tracingWord \in Words /\ counterWord \in Words /\ weakWord \in Words /\ setDropped \in BOOLEAN

(* The reserved value of the tracing counter is reached by set_dropped only,   *)
(* and nothing but the end of the box takes it back: counting, resetting and   *)
(* marking never make a value look dropped, or a dropped one look alive.       *)
DroppedIsTold == IsDropped <=> setDropped

(* The mark as the predicates tell it, two of which look at one bit only. *)
Mark ==
    IF IsInPossibleCycles THEN "PossibleCycles"
    ELSE IF IsNotMarked THEN "NonMarked"
    ELSE IF IsInList THEN "InList"
    ELSE IF IsInListOrQueue /\ IsInQueue THEN "InQueue"
    ELSE "?"

(* The words implement independent fields: no operation disturbs a field that *)
(* shares the word with the one it changes, and no counter passes its limit.  *)
Fields == INSTANCE CcFields WITH
    MaxCount <- MAX, MaxWeak <- WeakMAX,
    counter <- Counter, finalized <- ~NeedsFinalization,
    hasMetadata <- HasAllocatedForMetadata,
    tracing <- IF IsDropped THEN 0 ELSE TracingCounter,
    mark <- Mark, dropped <- IsDropped,
    weak <- WeakCounter, accessible <- IsAccessible

FieldsAreIndependent == Fields!FieldSpec

==============================================================================
