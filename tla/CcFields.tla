------------------------------- MODULE CcFields -------------------------------
(***************************************************************************)
(* What the two packed counters of rust-cc promise: a set of independent    *)
(* fields, each with a limit of its own.  Every operation changes one field. *)
(* CcMarker implements it with bits of machine words.                        *)
(***************************************************************************)
EXTENDS Naturals

CONSTANTS
    MaxCount,    \* the limit of the reference and the tracing counter
    MaxWeak      \* the limit of the weak counter

VARIABLES
    counter, finalized, hasMetadata,   \* of a CcBox
    tracing, mark, dropped,            \* of a CcBox, during collections
    weak, accessible                   \* of its metadata

strongVars == <<counter, finalized, hasMetadata>>
tracingVars == <<tracing, mark, dropped>>
weakVars == <<weak, accessible>>
fieldVars == <<strongVars, tracingVars, weakVars>>

MarkNames == {"NonMarked", "PossibleCycles", "InList", "InQueue"}

FieldInit ==
    /\ counter = 1 /\ finalized \in BOOLEAN /\ hasMetadata = FALSE
    /\ tracing = 1 /\ mark = "NonMarked" /\ dropped = FALSE
    /\ weak = 0 /\ accessible \in BOOLEAN

Steps(x, max) == {y \in 0..max : y = x + 1 \/ x = y + 1}

ChangeCounter ==
    counter' \in Steps(counter, MaxCount) /\ UNCHANGED <<finalized, hasMetadata, tracingVars, weakVars>>

ChangeFinalized ==
    finalized' \in BOOLEAN /\ UNCHANGED <<counter, hasMetadata, tracingVars, weakVars>>

ChangeMetadata ==
    hasMetadata' \in BOOLEAN /\ UNCHANGED <<counter, finalized, tracingVars, weakVars>>

(* The tracing counter has no value, and does not change, once the box is dropped. *)
ChangeTracing ==
    /\ ~dropped
    /\ tracing' \in Steps(tracing, MaxCount) \cup {0}
    /\ UNCHANGED <<strongVars, mark, dropped, weakVars>>

Drop ==
    dropped' = TRUE /\ tracing' = 0 /\ UNCHANGED <<strongVars, mark, weakVars>>

ChangeMark ==
    mark' \in MarkNames /\ UNCHANGED <<strongVars, tracing, dropped, weakVars>>

ChangeWeak ==
    weak' \in Steps(weak, MaxWeak) /\ UNCHANGED <<strongVars, tracingVars, accessible>>

ChangeAccessible ==
    accessible' \in BOOLEAN /\ UNCHANGED <<strongVars, tracingVars, weak>>

FieldNext ==
    \/ ChangeCounter \/ ChangeFinalized \/ ChangeMetadata
    \/ ChangeTracing \/ Drop \/ ChangeMark
    \/ ChangeWeak \/ ChangeAccessible

FieldSpec == FieldInit /\ [][FieldNext]_fieldVars

==============================================================================
