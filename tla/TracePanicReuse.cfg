SPECIFICATION Spec
CONSTANTS
    o1 = o1  o2 = o2  o3 = o3
    c1 = c1  c2 = c2  c3 = c3  c4 = c4
    Objects <- TwoObjects
    Ccs <- FourCcs
    Untraced = {}
    MaxCount = 3
    MaxRounds = 2
    UserOps = {"Clone", "TracePanic"}
INVARIANTS
    AccessibleIsLive
