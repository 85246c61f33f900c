\* Whole streams in reads of every size; the session ends with its stream.
CONSTANTS
    HTTP_MAX_HEADER_SIZE = 60
    Base = 2
    Small = 1
    ReadSizes = {1, 2, 3, 7, 20}
    Streams <- MCStreams
SPECIFICATION Spec
CONSTRAINT Separate
CHECK_DEADLOCK FALSE
INVARIANTS
    OneCallPerMessage
    MessagesAsSent
    FramesAsSent
