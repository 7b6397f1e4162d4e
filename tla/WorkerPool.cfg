\* Three workers, a queue of two tasks; stop() interrupts the loop thread
\* anywhere but inside a critical section of the pool.  Without timers to
\* fire, after a stop and after an exception the system may rest.
SPECIFICATION Spec
CONSTANTS
    Workers = {w1, w2, w3}
    Tasks = {BROADCAST, BROADCAST_ROOM}
    Throwing = {BROADCAST_ROOM}
    MaxQueue = 2
    StopWindows = {"idle", "enter", "full"}
    NULL = NULL
INVARIANTS
    TypeOK
    WorkConserving
    BlockedOnlyWhenFull
CHECK_DEADLOCK FALSE
