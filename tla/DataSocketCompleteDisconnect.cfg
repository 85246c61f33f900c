SPECIFICATION Spec
CONSTANTS
    Sizes = {1, 3}
    SndBuf = 2
    MaxIovec = 2
    MaxCalls = 3
    CompleteActs = {"disconnect"}
INVARIANTS
    NoFault
