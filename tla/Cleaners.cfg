SPECIFICATION FairSpec
CONSTANTS
    Actions = {a1, a2, a3}
    Reentrant = FALSE
INVARIANTS
    RunOnce
    BorrowIsSafe
    StrongExact
PROPERTY
    ActionsAreRun
\* The Cleaner can be dropped when every action has run.
CHECK_DEADLOCK FALSE
