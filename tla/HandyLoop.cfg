\* Two threads and the loop itself post three tasks to a queue of two; the pipe
\* holds two bytes, which one read takes.  Without calls a loop that has
\* returned may rest, and so may one that has blocked itself.
SPECIFICATION Spec
CONSTANTS
    Tasks = {t1, t2, t3}
    Callers = {c1, c2}
    Capacity = 2
    PipeSize = 2
    ReadSize = 2
    NoTask = NoTask
INVARIANTS
    TypeOK
    NoStrandedTask
    PromiseKept
PROPERTIES
    CallsEnd
CHECK_DEADLOCK FALSE
