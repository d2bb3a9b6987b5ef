SPECIFICATION Spec
CONSTANTS
    v1 = v1
    p1 = p1
    p2 = p2
    f1 = f1
    None = None
    Dispatch = dispatch
    Addr = {p1, p2}
    Fd = {f1}
    VThread = {v1}
    MaxConn = 2
    MaxReq = 1
    MaxRestart = 0
    RadioOff = FALSE
    DebugPort = FALSE
INVARIANT ResponseToOwner
SYMMETRY Sym
CHECK_DEADLOCK FALSE
