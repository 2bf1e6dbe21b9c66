SPECIFICATION Spec
CONSTANTS
    Actions = {a1, a2}
    Reentrant = TRUE
INVARIANT NoOtherReference
CHECK_DEADLOCK FALSE
