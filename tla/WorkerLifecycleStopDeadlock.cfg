SPECIFICATION FairSpec
CHECK_DEADLOCK FALSE
CONSTANTS
    Users = {u1, u2}
    NWorkers = 2
    None = None
    CallbackCalls = {"LookUp"}
    MaxStarts = 2
PROPERTIES
    CallsReturn
