\* Two polls at once; one unit before the planned end, one after it.
SPECIFICATION Spec
CONSTANTS
    Pollers = {p1, p2}
    Start = 2
    PlanEnd = 3
    MaxTime = 5
INVARIANTS
    TypeOK
    VerdictsJustified
PROPERTIES
    VerdictsSettle
