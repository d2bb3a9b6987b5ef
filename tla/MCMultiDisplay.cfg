SPECIFICATION Spec
CONSTANTS
    tv = tv
    dvi = dvi
    b1 = b1
    b2 = b2
    c1 = c1
    hwc = hwc
    NoMonitor = NoMonitor
    NULL = NULL
    Monitor = {tv, dvi}
    Dvi = {dvi}
    Modes <- MCModes
    Binder = {b1}
    Notifier = {b2}
    Caller = {b1}
    Checker = {c1}
    Mipi = mipi
    NumTry = 1
    Client = {hwc}
    Hwc = hwc
    VideoInfo <- MCVideoInfo
    Free = Free
    MaxCall = 5
CHECK_DEADLOCK FALSE
INVARIANTS   ListenersToldMode
PROPERTIES ThroughLocalMode  
