SPECIFICATION FairSpec
CHECK_DEADLOCK FALSE
CONSTANTS
    None = None
    Users = {u1}
    Requests = {r1, r2, r3}
    NFds = 2
    CallbackActs = {"drop", "retry"}
    AskAfterStop = TRUE
INVARIANTS
    NoOtherRequestLost
    CalledOnce
    NoFdLeak
    PolledIsOurs
PROPERTIES
    RequestsAreAnswered
    StopReturns
