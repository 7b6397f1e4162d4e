\* Two web connections and three requests.  After a spurious wake-up, which POSIX
\* allows, the consumer may run into undefined behaviour; it stops there.
SPECIFICATION Spec
CONSTANTS
    Producers = {web1, web2}
    Consumer = manage
    Params = {p1, p2, p3}
    NULL = NULL
INVARIANTS
    TypeOK
    NoLostWakeup
    NeverPopsEmptyList
PROPERTIES
    ImplementsChannel
CHECK_DEADLOCK FALSE
