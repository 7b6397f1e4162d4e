--------------------------- MODULE Monitor_proofs ---------------------------
(***************************************************************************)
(* Proofs about Monitor, for any number of pids and restarts: the SIGTERM  *)
(* that follows waitpid never reaches a server or a child.                 *)
(***************************************************************************)
EXTENDS Monitor, TLAPS

(* What the pid of the monitor stands for: its child until it is waited    *)
(* for, then nothing or a stranger.                                        *)
PidMeans ==
    /\ monitor \in {"wait", "kill"} => pid \in Pids
    /\ monitor = "wait" => process[pid] \in {"child", "starting", "server", "zombie"}
    /\ monitor = "kill" => process[pid] \in {"free", "other"}

Inv == TypeOK /\ PidMeans /\ NeverKillsServer

-----------------------------------------------------------------------------
LEMMA InitInv == Init => Inv
<1> SUFFICES ASSUME Init PROVE Inv
  OBVIOUS
<1>1. process \in [Pids -> {"free", "other", "child", "starting", "server", "zombie"}]
  BY DEF Init
<1>2. restarts \in 0 .. MaxRestarts
  BY RestartsAssumption DEF Init
<1>3. QED
  BY <1>1, <1>2 DEF Init, Inv, TypeOK, PidMeans, NeverKillsServer

LEMMA RunInv == ASSUME Inv, Run PROVE Inv'
<1>1. CASE \E p \in Pids : Fork(p)
  BY <1>1, PidsAssumption DEF Inv, TypeOK, PidMeans, NeverKillsServer, Fork
<1>2. CASE ForkFails
  BY <1>2 DEF Inv, TypeOK, PidMeans, NeverKillsServer, ForkFails
<1>3. CASE Wait
  BY <1>3, PidsAssumption DEF Inv, TypeOK, PidMeans, NeverKillsServer, Wait
<1>4. CASE Kill
  <2>1. pid \in Pids /\ process[pid] \in {"free", "other"}
    BY <1>4 DEF Inv, PidMeans, Kill
  <2>2. process' = [process EXCEPT ![pid] = "free"]
    BY <1>4, <2>1 DEF Inv, TypeOK, Kill
  <2>3. hit' \subseteq {"other"} /\ hit' \subseteq {"other", "child", "starting", "server"}
    BY <1>4, <2>1 DEF Inv, NeverKillsServer, Kill
  <2>4. QED
    BY <1>4, <2>1, <2>2, <2>3 DEF Inv, TypeOK, PidMeans, NeverKillsServer, Kill
<1>5. QED
  BY <1>1, <1>2, <1>3, <1>4 DEF Run

LEMMA ServerInv ==
    ASSUME Inv, NEW p \in Pids, Exec(p) \/ StartUp(p) \/ End(p)
    PROVE  Inv'
<1>1. Ended(p) \in {"free", "zombie"} /\ (monitor = "wait" /\ p = pid => Ended(p) = "zombie")
  BY DEF Ended, MonitorGone
<1>2. CASE Exec(p)
  BY <1>1, <1>2 DEF Inv, TypeOK, PidMeans, NeverKillsServer, Exec
<1>3. CASE StartUp(p)
  BY <1>3 DEF Inv, TypeOK, PidMeans, NeverKillsServer, StartUp
<1>4. CASE End(p)
  BY <1>1, <1>4 DEF Inv, TypeOK, PidMeans, NeverKillsServer, End
<1>5. QED
  BY <1>2, <1>3, <1>4

LEMMA OthersInv == ASSUME Inv, Others PROVE Inv'
  BY DEF Inv, TypeOK, PidMeans, NeverKillsServer, Others, OtherStarts, OtherEnds

LEMMA OperatorInv == ASSUME Inv, MonitorKilled \/ MonitorRestarted PROVE Inv'
<1>1. CASE MonitorKilled
  BY <1>1 DEF Inv, TypeOK, PidMeans, NeverKillsServer, MonitorKilled
<1>2. CASE MonitorRestarted
  BY <1>2, RestartsAssumption
     DEF Inv, TypeOK, PidMeans, NeverKillsServer, MonitorRestarted
<1>3. QED
  BY <1>1, <1>2

LEMMA NextInv == Inv /\ [Next]_vars => Inv'
<1> SUFFICES ASSUME Inv, [Next]_vars PROVE Inv'
  OBVIOUS
<1>1. CASE UNCHANGED vars
  BY <1>1 DEF Inv, vars, TypeOK, PidMeans, NeverKillsServer
<1>2. CASE Next
  BY <1>2, RunInv, ServerInv, OthersInv, OperatorInv DEF Next
<1>3. QED
  BY <1>1, <1>2

LEMMA InvAlways == Spec => []Inv
  BY InitInv, NextInv, PTL DEF Spec

(* Every variable keeps its type, and the port belongs to a server that    *)
(* runs (pollMonitor.cpp:40-79, Http/webserver.cpp:175-190).               *)
THEOREM TypeCorrect == Spec => []TypeOK
<1>1. Inv => TypeOK
  BY DEF Inv
<1>2. QED
  BY InvAlways, <1>1, PTL

(* The SIGTERM sent to a pid that was waited for may end a stranger, never *)
(* a server or a child about to be one (pollMonitor.cpp:69-78).            *)
THEOREM ServersSpared == Spec => []NeverKillsServer
<1>1. Inv => NeverKillsServer
  BY DEF Inv
<1>2. QED
  BY InvAlways, <1>1, PTL

=============================================================================
