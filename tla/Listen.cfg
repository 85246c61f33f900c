\* Two users; what they do ends when their calls are used up.
CONSTANTS
    Users = {u1, u2}
    Cb = cb
    Backlog = 1
    MaxCalls = 3
SPECIFICATION Spec
CHECK_DEADLOCK FALSE
INVARIANT
    StoppedIsSilent
PROPERTY
    CallsReturn
