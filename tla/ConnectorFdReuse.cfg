SPECIFICATION Spec
CHECK_DEADLOCK FALSE
CONSTANTS
    None = None
    Users = {u1}
    Requests = {r1, r2}
    NFds = 2
    CallbackActs = {"drop", "retry"}
    AskAfterStop = FALSE
INVARIANTS NoRequestLost
