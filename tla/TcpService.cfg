SPECIFICATION Spec
CHECK_DEADLOCK FALSE
CONSTANTS
    Sockets = {s1, s2, s3}
    Null = Null
    NLoops = 2
    GrowNum = 2
    IndexMod = 4
    IidMod = 8
    MaxCalls = 2
    MaxStops = 1
SYMMETRY Symmetry
INVARIANTS
    NoFreshMisdelivery
    NoDanglingSlot
    OpenIsReachable
    SlotsConserved
