SPECIFICATION Spec
CONSTANTS
    v1 = v1
    p1 = p1
    p2 = p2
    p3 = p3
    None = None
    Dispatch = dispatch
    Addr = {p1, p2, p3}
    VThread = {v1}
    MaxEvent = 2
    MaxConn = 2
INVARIANT HeldUntilTimer
SYMMETRY OneThread
CHECK_DEADLOCK FALSE
