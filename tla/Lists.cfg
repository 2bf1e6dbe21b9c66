SPECIFICATION Spec
CONSTANTS
    Objects = {o1, o2, o3, o4}
    None = None
INVARIANTS
    TypeOK
    LinksOK
    MarkTellsList
    ListsDisjoint
PROPERTY
    ListsImplementSequences
SYMMETRY ObjectSymmetry
