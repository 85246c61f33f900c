SPECIFICATION FairSpec
CONSTANTS
    Threads = {t1, t2}
    None = None
    MaxProcs = 3
    MaxAfter = 2
INVARIANTS
    NoLostWakeup
    WakeupInv
    AfterLoopOrder
PROPERTIES
    ImplementsAsyncQueueSafely
    ImplementsAsyncQueue
    StopIsNoticed
    AfterLoopProcsRun
