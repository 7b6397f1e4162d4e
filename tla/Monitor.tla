------------------------------ MODULE Monitor ------------------------------
(***************************************************************************)
(* pollMonitor (Monitor/pollMonitor.cpp): it forks, executes the server in *)
(* the child, waits for it to end, sends SIGTERM to the pid it had, and    *)
(* does the same again.                                                    *)
(*                                                                         *)
(* A pid is the system's to give away again once its process has been      *)
(* waited for.  Other programs come and go, and the monitor itself may be  *)
(* killed and started anew; its server then goes on without it.  Of the    *)
(* server only start-up, the port and the end are kept (PollServer has the *)
(* rest); what was started over the web is not kept anywhere, so that a    *)
(* new server polls what poll.conf says and nothing else.                  *)
(***************************************************************************)
EXTENDS FiniteSets, Naturals

CONSTANTS Pids,        \* process ids
          MaxRestarts, \* bound: restarts of the monitor by its operator
          NoPid

ASSUME PidsAssumption == IsFiniteSet(Pids) /\ NoPid \notin Pids
ASSUME RestartsAssumption == MaxRestarts \in Nat

VARIABLES process,     \* what runs under each pid
          monitor,     \* the monitor's place
          pid,         \* its variable pid
          executable,  \* does child_argv[0] name a program?
          port,        \* the server that listens on the web service's port
          restarts,    \* how often the monitor was started anew
          hit          \* history: what the monitor's SIGTERM has ended

vars == <<process, monitor, pid, executable, port, restarts, hit>>

Servers == {p \in Pids : process[p] = "server"}
MonitorGone == monitor \in {"forkFailed", "killed"}

(* child_argv[0] is copied without its terminating zero into memory that   *)
(* has not been cleared: whether the path ends where it should is the      *)
(* allocator's choice, made once for all the children of a monitor.        *)
Init == /\ process = [p \in Pids |-> "free"]
        /\ monitor = "fork"
        /\ pid = NoPid
        /\ executable \in BOOLEAN
        /\ port = NoPid
        /\ restarts = 0
        /\ hit = {}

-----------------------------------------------------------------------------
(* Seeded faults: a definition whose name ends in "Fault" is a plausible   *)
(* slip in the definition that follows it; it is not part of Next, and     *)
(* PROJECT.json names the property that notices it.                        *)
Fork(p) ==
    /\ monitor = "fork" /\ process[p] = "free"
    /\ process' = [process EXCEPT ![p] = "child"]
    /\ pid' = p
    /\ monitor' = "wait"
    /\ UNCHANGED <<executable, port, restarts, hit>>

(* The monitor gives up for good.                                          *)
ForkFails ==
    /\ monitor = "fork"
    /\ monitor' = "forkFailed"
    /\ UNCHANGED <<process, pid, executable, port, restarts, hit>>

WaitAgainFault ==                      \* while (!WIFSIGNALED(status))
    /\ monitor = "wait" /\ process[pid] = "zombie"
    /\ process' = [process EXCEPT ![pid] = "free"]
    /\ monitor' \in {"wait", "kill"}
    /\ UNCHANGED <<pid, executable, port, restarts, hit>>
WaitFault ==                           \* WNOHANG
    /\ monitor = "wait"
    /\ process' = [process EXCEPT ![pid] = IF @ = "zombie" THEN "free" ELSE @]
    /\ monitor' = "kill"
    /\ UNCHANGED <<pid, executable, port, restarts, hit>>
(* waitpid, whatever has ended the child: a crash, a stop, a failed exec.  *)
Wait ==
    /\ monitor = "wait" /\ process[pid] = "zombie"
    /\ process' = [process EXCEPT ![pid] = "free"]
    /\ monitor' = "kill"
    /\ UNCHANGED <<pid, executable, port, restarts, hit>>

(* kill(pid, SIGTERM): whoever has the pid by now is ended.                *)
Kill ==
    /\ monitor = "kill"
    /\ hit' = hit \cup ({process[pid]} \ {"free", "zombie"})
    /\ process' = [process EXCEPT ![pid] = CASE @ = "other" -> "free"
                                             [] @ \in {"child", "starting", "server"} -> "zombie"
                                             [] OTHER -> @]
    /\ port' = IF port = pid THEN NoPid ELSE port
    /\ monitor' = "fork"
    /\ UNCHANGED <<pid, executable, restarts>>

-----------------------------------------------------------------------------
(* The child and the server.  A process without a parent is reaped by init.*)
Ended(p) == IF p = pid /\ ~MonitorGone THEN "zombie" ELSE "free"

Exec(p) ==
    /\ process[p] = "child"
    /\ process' = [process EXCEPT ![p] = IF executable THEN "starting" ELSE Ended(p)]
    /\ UNCHANGED <<monitor, pid, executable, port, restarts, hit>>

StartUpFault(p) ==                     \* without SO_REUSEADDR
    /\ process[p] = "starting"
    /\ process' = [process EXCEPT ![p] = "server"]
    /\ port' \in (IF port = NoPid THEN {p, NoPid} ELSE {port})
    /\ UNCHANGED <<monitor, pid, executable, restarts, hit>>
(* The server polls the types of poll.conf.  If another has the port it    *)
(* goes on without web service, and never tries again.                     *)
StartUp(p) ==
    /\ process[p] = "starting"
    /\ process' = [process EXCEPT ![p] = "server"]
    /\ port' = IF port = NoPid THEN p ELSE port
    /\ UNCHANGED <<monitor, pid, executable, restarts, hit>>

EndFault(p) ==                         \* the listener outlives the server
    /\ process[p] \in {"starting", "server"}
    /\ process' = [process EXCEPT ![p] = Ended(p)]
    /\ UNCHANGED <<monitor, pid, executable, port, restarts, hit>>
(* A crash at any time, or the end of StopServer.                          *)
End(p) ==
    /\ process[p] \in {"starting", "server"}
    /\ process' = [process EXCEPT ![p] = Ended(p)]
    /\ port' = IF port = p THEN NoPid ELSE port
    /\ UNCHANGED <<monitor, pid, executable, restarts, hit>>

-----------------------------------------------------------------------------
(* The rest of the system.                                                 *)
OtherStarts(p) ==
    /\ process[p] = "free"
    /\ process' = [process EXCEPT ![p] = "other"]
    /\ UNCHANGED <<monitor, pid, executable, port, restarts, hit>>

OtherEnds(p) ==
    /\ process[p] = "other"
    /\ process' = [process EXCEPT ![p] = "free"]
    /\ UNCHANGED <<monitor, pid, executable, port, restarts, hit>>

(* The monitor is killed; a child it has not waited for goes to init.      *)
MonitorKilled ==
    /\ ~MonitorGone
    /\ monitor' = "killed"
    /\ process' = [p \in Pids |-> IF process[p] = "zombie" THEN "free" ELSE process[p]]
    /\ UNCHANGED <<pid, executable, port, restarts, hit>>

(* Its operator starts it again, and leaves a server that runs alone.      *)
MonitorRestarted ==
    /\ MonitorGone /\ restarts < MaxRestarts
    /\ monitor' = "fork"
    /\ pid' = NoPid
    /\ executable' \in BOOLEAN
    /\ restarts' = restarts + 1
    /\ UNCHANGED <<process, port, hit>>

-----------------------------------------------------------------------------
Run == (\E p \in Pids : Fork(p)) \/ ForkFails \/ Wait \/ Kill
Others == \E p \in Pids : OtherStarts(p) \/ OtherEnds(p)

Next == \/ Run
        \/ \E p \in Pids : Exec(p) \/ StartUp(p) \/ End(p)
        \/ Others \/ MonitorKilled \/ MonitorRestarted

(* Processes run.  A server may crash at any time or never, but one that is*)
(* started again and again gets through its start-up.                      *)
Fairness == /\ WF_vars(Run)
            /\ \A p \in Pids : WF_vars(Exec(p) \/ StartUp(p))
            /\ SF_vars(\E p \in Pids : StartUp(p))

Spec == Init /\ [][Next]_vars /\ Fairness

-----------------------------------------------------------------------------
TypeOK ==
    /\ process \in [Pids -> {"free", "other", "child", "starting", "server", "zombie"}]
    /\ monitor \in {"fork", "wait", "kill", "forkFailed", "killed"}
    /\ pid \in Pids \cup {NoPid}
    /\ executable \in BOOLEAN
    /\ port \in Pids \cup {NoPid} /\ (port # NoPid => process[port] = "server")
    /\ restarts \in 0 .. MaxRestarts
    /\ hit \subseteq {"other", "child", "starting", "server"}

(* The SIGTERM that follows waitpid may hit a stranger who was given the   *)
(* pid meanwhile, but never a server or a child about to be one: neither   *)
(* the next child, nor a server left over by an earlier monitor            *)
(* (pollMonitor.cpp:69-78).                                                *)
NeverKillsServer == hit \subseteq {"other"}

(* A server that has died, however it died, is replaced, and so is its web *)
(* service, unless the monitor is gone or its children find no program     *)
(* (pollMonitor.cpp:40-79).  A server that a restarted monitor has started *)
(* beside an old one never gets the port (Http/webserver.cpp:175-190).     *)
ServiceComesBack ==
    /\ []<>(Servers # {} \/ MonitorGone \/ ~executable)
    /\ []<>(port # NoPid \/ MonitorGone \/ ~executable \/ restarts > 0)
=============================================================================
