SPECIFICATION Spec
CONSTANTS
    w1 = w1
    w2 = w2
    None = None
    Dispatch = dispatch
    Fd = {f1}
    VThread = {v1}
    WThread <- Workers
    MaxConn = 2
    MaxMsg = 2
    TokenOf <- Distinct
INVARIANTS HeaderOwnedOnce PendingIsOutstanding  NoIdleWorker CleanedBeforeNext
CHECK_DEADLOCK FALSE
