------------------------- MODULE WorkerPool_proofs -------------------------
(***************************************************************************)
(* Proofs about WorkerPool, for any number of workers, any queue length    *)
(* and wherever stop() may interrupt the caller: the two conditions of the *)
(* queue lose no wake-up.                                                  *)
(***************************************************************************)
EXTENDS WorkerPool, FiniteSetTheorems, TLAPS

States == {"loop", "take", "asleep", "work", "parse", "threw", "exited"}

(* The caller holds mutex_ at one place only, and has a task to hand over. *)
Caller == /\ held <=> caller = "locked"
          /\ caller = "idle" \/ arg \in Tasks

Inv == TypeOK /\ Caller /\ WorkConserving /\ BlockedOnlyWhenFull

-----------------------------------------------------------------------------
LEMMA WaySize == OnTheWay \in SUBSET Workers /\ IsFiniteSet(OnTheWay)
                 /\ Cardinality(OnTheWay) \in Nat
<1>1. OnTheWay \in SUBSET Workers
  BY DEF OnTheWay
<1>2. IsFiniteSet(OnTheWay)
  BY <1>1, WorkersAssumption, FS_Subset
<1>3. QED
  BY <1>1, <1>2, FS_CardinalityType

LEMMA WaySizeNext == OnTheWay' \in SUBSET Workers /\ IsFiniteSet(OnTheWay')
                     /\ Cardinality(OnTheWay') \in Nat
<1>1. OnTheWay' \in SUBSET Workers
  BY DEF OnTheWay
<1>2. IsFiniteSet(OnTheWay')
  BY <1>1, WorkersAssumption, FS_Subset
<1>3. QED
  BY <1>1, <1>2, FS_CardinalityType

LEMMA InitInv == Init => Inv
<1> SUFFICES ASSUME Init PROVE Inv
  OBVIOUS
<1>1. TypeOK
  <2>1. queue \in Seq(Tasks) /\ Len(queue) = 0
    BY DEF Init
  <2>2. worker \in [Workers -> States]
    BY DEF Init, States
  <2>3. Len(queue) <= MaxQueue
    BY <2>1, MaxQueueAssumption
  <2>4. QED
    BY <2>1, <2>2, <2>3 DEF Init, TypeOK, States
<1>2. Asleep = {}
  BY DEF Init, Asleep
<1>3. QED
  BY <1>1, <1>2 DEF Init, Inv, Caller, WorkConserving, BlockedOnlyWhenFull

(* The caller's steps that touch neither the queue nor a worker.           *)
LEMMA CallerInv ==
    ASSUME Inv, (\E t \in Tasks : RunCall(t)) \/ RunLock \/ RunWait
    PROVE  Inv'
<1>1. TypeOK'
  BY DEF Inv, TypeOK, RunCall, RunLock, RunWait
<1>2. Caller'
  BY DEF Inv, Caller, RunCall, RunLock, RunWait
<1>3. WorkConserving'
  BY DEF Inv, WorkConserving, Asleep, OnTheWay, RunCall, RunLock, RunWait
<1>4. BlockedOnlyWhenFull'
  BY DEF Inv, BlockedOnlyWhenFull, IsFull, RunCall, RunLock, RunWait
<1>5. QED
  BY <1>1, <1>2, <1>3, <1>4 DEF Inv

LEMMA PushInv == ASSUME Inv, RunPush PROVE Inv'
<1>1. /\ queue' \in Seq(Tasks) /\ Len(queue') = Len(queue) + 1
      /\ Len(queue') <= MaxQueue /\ Len(queue) \in Nat
  BY MaxQueueAssumption DEF Inv, TypeOK, Caller, RunPush, IsFull
<1>2. worker' \in [Workers -> States]
  BY DEF Inv, TypeOK, RunPush, NotEmptyNotify, Wake, States
<1>3. TypeOK'
  BY <1>1, <1>2 DEF Inv, TypeOK, RunPush, States
<1>4. Caller' /\ BlockedOnlyWhenFull'
  BY DEF RunPush, Caller, BlockedOnlyWhenFull
<1>5. WorkConserving'
  <2>1. CASE Asleep = {}
    <3>1. Asleep' = {}
      BY <2>1 DEF RunPush, NotEmptyNotify, Wake, Asleep
    <3>2. QED
      BY <3>1 DEF WorkConserving
  <2>2. CASE Asleep # {}
    <3>1. PICK w \in Asleep : Wake({w})
      BY <2>2 DEF RunPush, NotEmptyNotify
    <3>2. OnTheWay' = OnTheWay \cup {w} /\ w \notin OnTheWay
      BY <3>1 DEF OnTheWay, Asleep, Wake
    <3>3. Cardinality(OnTheWay') = Cardinality(OnTheWay) + 1
      BY <3>2, WaySize, FS_AddElement
    <3>4. QED
      BY <3>3, <2>2, <1>1, WaySize DEF Inv, WorkConserving
  <2>3. QED
    BY <2>1, <2>2
<1>6. QED
  BY <1>3, <1>4, <1>5 DEF Inv

(* A worker's steps that leave the queue alone.                            *)
LEMMA IdleInv ==
    ASSUME Inv, NEW w \in Workers,
           Loop(w) \/ TakeSleep(w) \/ TakeNothing(w) \/ TaskDone(w) \/ TaskThrows(w)
    PROVE  Inv'
<1>1. TypeOK'
  BY DEF Inv, TypeOK, Loop, TakeSleep, TakeNothing, TaskDone, TaskThrows
<1>2. Caller'
  BY DEF Inv, Caller, Loop, TakeSleep, TakeNothing, TaskDone, TaskThrows
<1>3. BlockedOnlyWhenFull'
  BY DEF Inv, BlockedOnlyWhenFull, IsFull, Loop, TakeSleep, TakeNothing, TaskDone, TaskThrows
<1>4. WorkConserving'
  <2>1. CASE Loop(w) \/ TaskDone(w) \/ TaskThrows(w)
    <3>1. Asleep' = Asleep /\ queue' = queue /\ OnTheWay \subseteq OnTheWay'
      BY <2>1 DEF Inv, TypeOK, Asleep, OnTheWay, Loop, TaskDone, TaskThrows
    <3>2. Cardinality(OnTheWay) <= Cardinality(OnTheWay')
      BY <3>1, WaySizeNext, FS_Subset
    <3>3. Len(queue) \in Nat
      BY DEF Inv, TypeOK
    <3>4. QED
      BY <3>1, <3>2, <3>3, WaySize, WaySizeNext DEF Inv, WorkConserving
  <2>2. CASE TakeSleep(w) \/ TakeNothing(w)
    <3>1. Len(queue') = 0
      BY <2>2 DEF TakeSleep, TakeNothing
    <3>2. QED
      BY <3>1, WaySizeNext DEF WorkConserving
  <2>3. QED
    BY <2>1, <2>2
<1>5. QED
  BY <1>1, <1>2, <1>3, <1>4 DEF Inv

LEMMA TakeInv == ASSUME Inv, NEW w \in Workers, TakeTask(w) PROVE Inv'
<1>1. /\ queue' \in Seq(Tasks) /\ Len(queue') = Len(queue) - 1
      /\ Len(queue) \in Nat \ {0} /\ Len(queue) <= MaxQueue
  BY DEF Inv, TypeOK, TakeTask
<1>2. TypeOK'
  BY <1>1, MaxQueueAssumption DEF Inv, TypeOK, TakeTask, NotFullNotify
<1>3. Caller' /\ BlockedOnlyWhenFull'
  BY DEF Inv, Caller, BlockedOnlyWhenFull, TakeTask, NotFullNotify
<1>4. WorkConserving'
  <2>1. Asleep' = Asleep /\ OnTheWay' = OnTheWay \ {w} /\ w \in OnTheWay
    BY DEF Inv, TypeOK, Asleep, OnTheWay, TakeTask
  <2>2. Cardinality(OnTheWay') = Cardinality(OnTheWay) - 1
    BY <2>1, WaySize, FS_RemoveElement
  <2>3. QED
    BY <2>1, <2>2, <1>1, WaySize DEF Inv, WorkConserving
<1>5. QED
  BY <1>2, <1>3, <1>4 DEF Inv

LEMMA StopInv == ASSUME Inv, StopCall \/ StopStep PROVE Inv'
<1>1. CASE StopCall \/ StopJoin
  <2>1. TypeOK'
    BY <1>1 DEF Inv, TypeOK, StopCall, StopJoin
  <2>2. UNCHANGED <<queue, held, caller, arg, worker>>
    BY <1>1 DEF StopCall, StopJoin
  <2>3. QED
    BY <2>1, <2>2 DEF Inv, Caller, WorkConserving, Asleep, OnTheWay,
                      BlockedOnlyWhenFull, IsFull
<1>2. CASE StopNotify
  <2>1. TypeOK'
    BY <1>2 DEF Inv, TypeOK, StopNotify, EndWorkers, NotEmptyNotifyAll, Wake
  <2>2. Asleep' = {}
    BY <1>2 DEF StopNotify, EndWorkers, NotEmptyNotifyAll, Wake, Asleep
  <2>3. Caller' /\ BlockedOnlyWhenFull'
    BY <1>2 DEF Inv, Caller, BlockedOnlyWhenFull, IsFull, StopNotify, EndWorkers
  <2>4. QED
    BY <2>1, <2>2, <2>3 DEF Inv, WorkConserving
<1>3. QED
  BY <1>1, <1>2 DEF StopStep

(* The process, too, takes these steps, where a stop() is not one of them. *)
LEMMA StepInv == Inv /\ [Step]_vars => Inv'
<1> SUFFICES ASSUME Inv, [Step]_vars PROVE Inv'
  OBVIOUS
<1>1. CASE UNCHANGED vars
  BY <1>1 DEF Inv, vars, TypeOK, Caller, WorkConserving, Asleep, OnTheWay,
              BlockedOnlyWhenFull, IsFull
<1>2. CASE \E t \in Tasks : RunCall(t)
  BY <1>2, CallerInv
<1>3. CASE RunStep
  BY <1>3, CallerInv, PushInv DEF RunStep
<1>4. CASE \E w \in Workers : WorkerStep(w) \/ TaskThrows(w)
  BY <1>4, IdleInv, TakeInv DEF WorkerStep
<1>5. CASE StopCall \/ StopStep
  BY <1>5, StopInv
<1>6. QED
  BY <1>1, <1>2, <1>3, <1>4, <1>5 DEF Step

LEMMA NextInv == Inv /\ [Next]_vars => Inv'
  BY StepInv DEF Next

LEMMA InvAlways == Spec => []Inv
  BY InitInv, NextInv, PTL DEF Spec

(* Every variable keeps its type; the queue never exceeds setMaxQueueSize  *)
(* (pollServer.cpp:69, 82, 310), whenever stop() comes.                    *)
THEOREM TypeCorrect == Spec => []TypeOK
<1>1. Inv => TypeOK
  BY DEF Inv
<1>2. QED
  BY InvAlways, <1>1, PTL

(* While a worker of the pool sleeps, there are at least as many workers   *)
(* on their way to the queue as tasks in it: run() and stop() lose no      *)
(* wake-up (pollServer.cpp:69, 82, 206).                                   *)
THEOREM PoolWorkConserving == Spec => []WorkConserving
<1>1. Inv => WorkConserving
  BY DEF Inv
<1>2. QED
  BY InvAlways, <1>1, PTL

(* The loop thread waits in the pool's run() only while the queue is full. *)
(* The room a worker makes wakes it (pollServer.cpp:69, 82).               *)
THEOREM WaitsOnlyWhenFull == Spec => []BlockedOnlyWhenFull
<1>1. Inv => BlockedOnlyWhenFull
  BY DEF Inv
<1>2. QED
  BY InvAlways, <1>1, PTL

=============================================================================
