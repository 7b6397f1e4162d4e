\* The signal comes before loop() is entered.
SPECIFICATION Spec
CONSTANTS
    COURSE = COURSE
    BROADCAST_ROOM = BROADCAST_ROOM
    Types = {BROADCAST_ROOM}
    PollStates = {"START", "STOP"}
    ConfEvents <- MCConfEvents
    MaxRequests = 1
    Workers = {w1}
    MaxQueue = 1
    PoolTypes = {BROADCAST_ROOM}
    Throwing = {}
    SignalWindows = {"configuring"}
    MaxSignals = 1
    MaxEvents = 2
    NULL = NULL
PROPERTY StopEndsService
CHECK_DEADLOCK FALSE
