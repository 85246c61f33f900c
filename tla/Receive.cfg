SPECIFICATION FairSpec
CONSTANTS
    MaxBytes = 5
    InitialSize = 3
    Grow = 1
    mMaxRecvBufferSize = 4
    Delim <- MCDelim
    Streams <- MCStreams
    Scripts <- MCScripts
    Asked <- MCAsked
    Periods = {0, 2}
    MaxCalls = 2
CONSTRAINT Combined
CHECK_DEADLOCK FALSE
INVARIANTS
    BytesInOrder
    NoRecvStall
    ReadBeforeClose
    PromiseSlices
PROPERTIES
    HeartbeatIsFair
    SilenceIsNoticed
    RoundsEnd
