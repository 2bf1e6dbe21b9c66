SPECIFICATION Spec
CONSTANTS
    Nodes = {"root", "cell", "vec", "inner", "innerCell", "option", "outer", "a", "b", "x", "w"}
    Root = "root"
    Kind <- MCKind
    Ignored = {"x"}
    Values <- MCValues
    MaxContent = 3
INVARIANTS
    TraceExact
    SameInPhase
    VisitedStays
