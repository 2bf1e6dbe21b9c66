SPECIFICATION Spec
CONSTANTS
    Objects = {o1, o2}
    Metas = {m1, m2, m3}
    Weaks = {w1, w2, w3, w4}
    None = None  Dangling = Dangling
    MaxStrong = 2
    MaxWeak = 3
INVARIANTS
    TypeOK
    WeakCountExact
    MetadataLives
    AccessibleTellsBox
    PtrEqTellsBox
    HeldIsLive
SYMMETRY Symmetry
\* Boxes whose destructor panicked are never given back: all memory can be lost.
CHECK_DEADLOCK FALSE
