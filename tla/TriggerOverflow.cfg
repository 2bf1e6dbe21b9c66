SPECIFICATION FairSpec
CONSTANTS
    Modulus = 16
    Default = 3
    Scale = 10
    Percents = {1}
    Limits = {0}
    MaxBytes = 13
    MaxBuffered = 1
PROPERTY AdjustEnds
