\* Three tasks, of either type, on two workers.  It takes three to lose
\* a count, tear curl down and set it up again, and two workers to race for
\* a directory.  Without timers to fire, and after a crash, the system may
\* rest.
SPECIFICATION Spec
CONSTANTS
    Tasks = {t1, t2, t3}
    Workers = {w1, w2}
    LoopThread = loop
    NoTask = NoTask
SYMMETRY Alike
INVARIANTS
    TypeOK
    TaskAliveInPool
    HandlesInitialized
    SomebodyGetsThrough
    LastDropDestroys
CHECK_DEADLOCK FALSE
