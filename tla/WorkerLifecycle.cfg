SPECIFICATION FairSpec
CHECK_DEADLOCK FALSE
CONSTANTS
    Users = {u1, u2}
    NWorkers = 2
    None = None
    CallbackCalls = {"Start1", "Stop1", "LookUp"}
    MaxStarts = 2
INVARIANTS
    NoWorkerOutlivesLoops
    JoinsOnlyStopped
PROPERTIES
    StopReturnsOrIsCalled
