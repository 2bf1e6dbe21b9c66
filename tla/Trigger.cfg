SPECIFICATION Spec
CONSTANTS
    Modulus = 64
    Default = 3
    Scale = 10
    Percents = {0, 1, 5, 10}
    Limits = {0, 1}
    MaxBytes = 14
    MaxBuffered = 2
INVARIANTS
    TypeOK
PROPERTIES
    AdjustSettles
    GrowthBetweenCollections
