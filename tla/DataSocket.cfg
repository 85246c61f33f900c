SPECIFICATION FairSpec
CONSTANTS
    Sizes = {0, 1, 3}
    SndBuf = 2
    MaxIovec = 2
    MaxCalls = 3
    CompleteActs = {"none", "shutdown"}
INVARIANTS
    NoFault
    CloseIsLast
    SendAccounting
    CompleteOnce
    NoSendStall
PROPERTIES
    SendsComplete
    ClosedIsReported
