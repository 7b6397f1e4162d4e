\* One one-shot and two repeating timers; delays and intervals that meet, and a
\* clock long enough for three rounds.  A loop that has returned may rest.
SPECIFICATION TimersSpec
CONSTANTS
    Once = {o1}
    Repeat = {r1, r2}
    Delays = {0, 1}
    Intervals = {1, 2}
    MaxTime = 3
    NoTimer = NoTimer
INVARIANTS
    TimersOK
    RhythmKept
PROPERTIES
    CancelIsFinal
    NoOversleep
CHECK_DEADLOCK FALSE
