----------------------------- MODULE WorkerPool -----------------------------
(***************************************************************************)
(* muduo's ThreadPool as the server uses it (external: headers and a       *)
(* binary library only).  One thread, the event loop's, hands tasks to     *)
(* run() from handleEvent; the workers take and run them; stop() is called *)
(* by the signal handler StopServer, which runs on the loop's own thread   *)
(* and suspends it wherever it happens to be.  A critical section of a     *)
(* worker is one step; one of the caller is not, because the handler can   *)
(* interrupt it.                                                           *)
(***************************************************************************)
EXTENDS Naturals, Sequences, FiniteSets

CONSTANTS Workers,      \* the threads of pool.start
          Tasks,        \* what handleEvent puts into the pool
          Throwing,     \* those of them out of which an exception may come
          MaxQueue,     \* setMaxQueueSize
          StopWindows,  \* where the caller may be when stop() interrupts it
          NULL

ASSUME WorkersAssumption == Workers # {} /\ IsFiniteSet(Workers)
ASSUME MaxQueueAssumption == MaxQueue \in Nat \ {0}
ASSUME NullTaskAssumption == NULL \notin Tasks
ASSUME ThrowingAssumption == Throwing \subseteq Tasks

VARIABLES queue,     \* queue_
          running,   \* running_
          held,      \* does the caller hold mutex_?
          caller,    \* the caller's place in run()
          arg,       \* the task the caller is handing over
          worker,    \* each worker's place in runInThread() and take()
          stop       \* the handler's place in stop()

vars == <<queue, running, held, caller, arg, worker, stop>>

Init == /\ queue = << >>
        /\ running = TRUE
        /\ held = FALSE
        /\ caller = "idle"
        /\ arg = NULL
        /\ worker = [w \in Workers |-> "loop"]
        /\ stop = "none"

Suspended == stop \in {"lock", "join"}
Asleep == {w \in Workers : worker[w] = "asleep"}
Wake(ws) == worker' = [w \in Workers |-> IF w \in ws THEN "take" ELSE worker[w]]

(* Seeded faults: a definition whose name ends in "Fault" is a plausible   *)
(* slip in the definition that follows it; it is not part of Next, and     *)
(* PROJECT.json names the property that notices it.                        *)
IsFullFault == Len(queue) > MaxQueue
IsFull == Len(queue) >= MaxQueue

NotEmptyNotifyFault == Wake(IF queue = << >> /\ Asleep # {}     \* first task only
                            THEN {CHOOSE w \in Asleep : TRUE} ELSE {})
(* Wakes one sleeping worker, if there is one.                             *)
NotEmptyNotify == IF Asleep = {} THEN Wake({}) ELSE \E w \in Asleep : Wake({w})

NotEmptyNotifyAllFault == NotEmptyNotify                         \* only one
NotEmptyNotifyAll == Wake(Asleep)

NotFullNotifyFault == UNCHANGED caller                           \* forgotten
NotFullNotify == caller' = IF caller = "full" THEN "enter" ELSE caller

-----------------------------------------------------------------------------
(* run(task), on the loop thread.                                          *)
RunCall(task) ==
    /\ ~Suspended
    /\ caller = "idle"
    /\ caller' = "enter"
    /\ arg' = task
    /\ UNCHANGED <<queue, running, held, worker, stop>>

(* Also how the wait on notFull_ ends: mutex_ again, then isFull() again.  *)
RunLock ==
    /\ ~Suspended
    /\ caller = "enter"
    /\ held' = TRUE
    /\ caller' = "locked"
    /\ UNCHANGED <<queue, running, arg, worker, stop>>

RunWait ==
    /\ ~Suspended
    /\ caller = "locked"
    /\ IsFull
    /\ held' = FALSE
    /\ caller' = "full"
    /\ UNCHANGED <<queue, running, arg, worker, stop>>

(* running_ is not looked at.                                              *)
RunPush ==
    /\ ~Suspended
    /\ caller = "locked"
    /\ ~IsFull
    /\ queue' = Append(queue, arg)
    /\ NotEmptyNotify
    /\ held' = FALSE
    /\ caller' = "idle"
    /\ arg' = NULL
    /\ UNCHANGED <<running, stop>>

-----------------------------------------------------------------------------
(* runInThread of a worker: while (running_) { task = take(); task(); }    *)
Loop(w) ==
    /\ worker[w] = "loop"
    /\ worker' = [worker EXCEPT ![w] = IF running THEN "take" ELSE "exited"]
    /\ UNCHANGED <<queue, running, held, caller, arg, stop>>

TakeSleep(w) ==
    /\ worker[w] = "take"
    /\ ~held
    /\ queue = << >>
    /\ running
    /\ worker' = [worker EXCEPT ![w] = "asleep"]
    /\ UNCHANGED <<queue, running, held, caller, arg, stop>>

(* A task is taken even after stop(); notFull_ is notified.                *)
TakeTask(w) ==
    /\ worker[w] = "take"
    /\ ~held
    /\ queue # << >>
    /\ queue' = Tail(queue)
    /\ worker' = [worker EXCEPT ![w] = IF Head(queue) \in Throwing THEN "parse" ELSE "work"]
    /\ NotFullNotify
    /\ UNCHANGED <<running, held, arg, stop>>

TakeNothing(w) ==
    /\ worker[w] = "take"
    /\ ~held
    /\ queue = << >>
    /\ ~running
    /\ worker' = [worker EXCEPT ![w] = "loop"]
    /\ UNCHANGED <<queue, running, held, caller, arg, stop>>

(* handleData returns.                                                     *)
TaskDone(w) ==
    /\ worker[w] \in {"work", "parse"}
    /\ worker' = [worker EXCEPT ![w] = "loop"]
    /\ UNCHANGED <<queue, running, held, caller, arg, stop>>

(* An answer that the json library cannot parse throws out of handleData,  *)
(* and runInThread, which catches it, ends the process.                    *)
TaskThrows(w) ==
    /\ worker[w] = "parse"
    /\ worker' = [worker EXCEPT ![w] = "threw"]
    /\ UNCHANGED <<queue, running, held, caller, arg, stop>>

TaskThrew == \E w \in Workers : worker[w] = "threw"

-----------------------------------------------------------------------------
(* stop(), in the signal handler.                                          *)
StopCall ==
    /\ stop = "none"
    /\ caller \in StopWindows
    /\ stop' = "lock"
    /\ UNCHANGED <<queue, running, held, caller, arg, worker>>

(* The handler waits for mutex_ for ever if its own thread holds it.       *)
EndWorkers ==
    /\ ~held
    /\ running' = FALSE
    /\ NotEmptyNotifyAll

StopNotify ==
    /\ stop = "lock"
    /\ EndWorkers
    /\ stop' = "join"
    /\ UNCHANGED <<queue, held, caller, arg>>

WorkersEnded == \A w \in Workers : worker[w] = "exited"

StopJoin ==
    /\ stop = "join"
    /\ WorkersEnded
    /\ stop' = "returned"
    /\ UNCHANGED <<queue, running, held, caller, arg, worker>>

-----------------------------------------------------------------------------
RunStep == RunLock \/ RunWait \/ RunPush
WorkerStep(w) == Loop(w) \/ TakeSleep(w) \/ TakeTask(w) \/ TakeNothing(w) \/ TaskDone(w)
StopStep == StopNotify \/ StopJoin

Step == \/ \E task \in Tasks : RunCall(task)
        \/ RunStep
        \/ \E w \in Workers : WorkerStep(w) \/ TaskThrows(w)
        \/ StopCall
        \/ StopStep

(* TaskThrows is the last step the process takes.                          *)
Next == ~TaskThrew /\ Step

Spec == Init /\ [][Next]_vars

-----------------------------------------------------------------------------
TypeOK ==
    /\ queue \in Seq(Tasks)
    /\ Len(queue) <= MaxQueue
    /\ running \in BOOLEAN
    /\ held \in BOOLEAN
    /\ caller \in {"idle", "enter", "locked", "full"}
    /\ arg \in Tasks \union {NULL}
    /\ worker \in [Workers -> {"loop", "take", "asleep", "work", "parse", "threw", "exited"}]
    /\ stop \in {"none", "lock", "join", "returned"}

(* No worker sleeps while there are more tasks in the queue than workers   *)
(* on their way to take one: the single notify of run() is enough.         *)
OnTheWay == {w \in Workers : worker[w] = "take"}
WorkConserving == Asleep # {} => Cardinality(OnTheWay) >= Len(queue)

(* The loop thread sleeps in run() only while the queue is full: the room  *)
(* a worker makes is never missed.                                         *)
BlockedOnlyWhenFull == caller = "full" => IsFull

=============================================================================
