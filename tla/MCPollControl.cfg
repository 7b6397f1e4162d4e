\* Two poll types, one of them also configured; four requests.  A process
\* that has crashed stays where it is.
SPECIFICATION Spec
CONSTANTS
    BROADCAST = BROADCAST
    BROADCAST_ROOM = BROADCAST_ROOM
    Types = {BROADCAST, BROADCAST_ROOM}
    PollStates = {"START", "STOP", "OTHER"}
    ConfEvents <- MCConfEvents
    MaxRequests = 4
    NULL = NULL
INVARIANTS
    TypeOK
    OneTimerPerType
    CancelFindsTimer
    QuietAgreement
    ConfTimersKept
PROPERTIES
    LateFireAtMostOnce
    Converges
    ImplementsService
CHECK_DEADLOCK FALSE
