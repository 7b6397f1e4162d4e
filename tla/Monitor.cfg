\* Three pids: an old server, a new one and another program; the monitor is
\* restarted once.  Without a monitor the system may rest.
SPECIFICATION Spec
CONSTANTS
    Pids = {p1, p2, p3}
    MaxRestarts = 1
    NoPid = NoPid
INVARIANTS
    TypeOK
    NeverKillsServer
PROPERTIES
    ServiceComesBack
