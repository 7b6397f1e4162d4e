\* A configured and a web timer of one type that overtake a pool of one
\* worker, and three events, of which at most two are requests and two are
\* signals: a START and a STOP and a signal anywhere, or a START and two
\* signals, the second in the handler of the first or after it.  The process
\* may end, or a stop get stuck.
SPECIFICATION Spec
CONSTANTS
    COURSE = COURSE
    BROADCAST_ROOM = BROADCAST_ROOM
    Types = {BROADCAST_ROOM}
    PollStates = {"START", "STOP"}
    ConfEvents <- MCConfEvents
    MaxRequests = 2
    Workers = {w1}
    MaxQueue = 1
    PoolTypes = {BROADCAST_ROOM}
    Throwing = {BROADCAST_ROOM}
    SignalWindows = {"booting", "starting", "configuring", "log", "malloc", "poll",
        "epoll_wait", "callbacks", "swap", "enter", "locked", "full", "functors"}
    MaxSignals = 2
    MaxEvents = 3
    NULL = NULL
INVARIANTS
    TypeOK
    LoopQuitLast
PROPERTIES
    ImplementsControl
    Converges
    StopWhileWaiting
    
CHECK_DEADLOCK FALSE
