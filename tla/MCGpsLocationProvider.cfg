SPECIFICATION Spec
CONSTANTS
    w1 = w1
    w2 = w2
    w3 = w3
    Worker = {w1, w2, w3}
    Handler = handler
    Engine = engine
    Request <- MCRequest
    NoRequest = NoRequest
    Scheduling = FALSE
    MaxCall = 3
SYMMETRY Symmetry
INVARIANTS WakeLockExact BusyIffRunning DownloadNotForgotten 
CHECK_DEADLOCK FALSE
