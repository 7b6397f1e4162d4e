\* One START is enough.
SPECIFICATION Spec
CONSTANTS
    BROADCAST = BROADCAST
    BROADCAST_ROOM = BROADCAST_ROOM
    Types = {BROADCAST, BROADCAST_ROOM}
    PollStates = {"START", "STOP", "OTHER"}
    ConfEvents <- MCConfEvents
    MaxRequests = 1
    NULL = NULL
INVARIANT ReadyWhenUp
CHECK_DEADLOCK FALSE
