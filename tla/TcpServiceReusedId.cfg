SPECIFICATION Spec
CHECK_DEADLOCK FALSE
CONSTANTS
    Sockets = {s1, s2, s3}
    Null = Null
    NLoops = 1
    GrowNum = 2
    IndexMod = 4
    IidMod = 8
    MaxCalls = 1
    MaxStops = 1
INVARIANTS
    NoMisdelivery
