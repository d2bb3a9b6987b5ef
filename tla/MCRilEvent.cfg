SPECIFICATION FairSpec
CONSTANTS
    wakeup = wakeup
    listen = listen
    commands = commands
    t1 = t1
    t2 = t2
    NoEvent = NoEvent
    Wakeup = wakeup
    FdEvent <- MCFdEvent
    Fd <- MCFd
    Persistent <- MCPersistent
    Timer <- MCTimer
    Delay <- MCDelay
    Thread = {a}
    MaxEvents = 3
    MaxTime = 2
INVARIANTS TypeOK TablesAgree 
PROPERTIES CallsWhatWasArmed NeverEarly InputServed TimerServed
