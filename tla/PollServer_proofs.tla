-------------------------- MODULE PollServer_proofs --------------------------
(***************************************************************************)
(* Proofs about PollServer: the process, for any number of workers and of  *)
(* signals, any queue and any configuration.                               *)
(*                                                                         *)
(* The proofs of the two components are taken over: ControlProofs and      *)
(* PoolProofs are instances of their proof modules over the variables of   *)
(* the process, and SameControl and SamePool say that the definitions of   *)
(* Control and Pool, as PollServer instantiates them, are the same ones.   *)
(* ControlStep and the lemmas on the pool show that every step of the      *)
(* process, pool.run() within a callback and StopServer on top of the main *)
(* thread included, is one of each component or leaves it alone; so their  *)
(* inductive invariants hold here (ComponentsInv).                         *)
(*                                                                         *)
(* What the process adds (QuitInv) is about the stack of StopServer's      *)
(* calls.  A join comes back at once when the thread was joined before,    *)
(* and a second call runs on top of a first that waits, so that the place  *)
(* of a call alone says nothing of the threads: only the call at the bottom*)
(* of the stack (FirstCall) and what was joined (JoinedGone) do.  DownInv  *)
(* says what the first call may still join, which is why one call alone    *)
(* joins nobody twice, and that a task that threw was the last step.       *)
(***************************************************************************)
EXTENDS PollServer, SequenceTheorems, TLAPS

ControlProofs == INSTANCE PollControl_proofs
PoolProofs == INSTANCE WorkerPool_proofs
    WITH Tasks <- PoolTypes, StopWindows <- {"idle", "enter", "locked", "full"}

LEMMA SameControl ==
    /\ Control!Init <=> ControlProofs!Init
    /\ [Control!Next]_controlVars <=> [ControlProofs!Next]_(ControlProofs!vars)
<1>1. Control!Init <=> ControlProofs!Init
  BY DEF Control!Init, ControlProofs!Init, Control!LoopInit, ControlProofs!LoopInit
<1>2. Control!Request = ControlProofs!Request /\ Control!Cancelled = ControlProofs!Cancelled
  BY DEF Control!Request, ControlProofs!Request, Control!Cancelled, ControlProofs!Cancelled
<1>3. \A r : Control!Accept(r) <=> ControlProofs!Accept(r)
  BY DEF Control!Accept, ControlProofs!Accept, Control!loopVars, ControlProofs!loopVars
<1>4. Control!Manage <=> ControlProofs!Manage
  BY DEF Control!Manage, ControlProofs!Manage, Control!Take, ControlProofs!Take,
         Control!StartPolling, ControlProofs!StartPolling,
         Control!StartWithoutLoop, ControlProofs!StartWithoutLoop,
         Control!StopPolling, ControlProofs!StopPolling,
         Control!IgnoreParam, ControlProofs!IgnoreParam,
         Control!DeleteParam, ControlProofs!DeleteParam,
         Control!Found, ControlProofs!Found, Control!FindList, ControlProofs!FindList,
         Control!PushList, ControlProofs!PushList, Control!PopList, ControlProofs!PopList,
         Control!Cancel, ControlProofs!Cancel, 
         Control!QueueInLoop, ControlProofs!QueueInLoop,
         Control!WebInterval, ControlProofs!WebInterval,
         Control!loopVars, ControlProofs!loopVars
<1>5. Control!Startup <=> ControlProofs!Startup
  BY DEF Control!Startup, ControlProofs!Startup, Control!CreateLoop, ControlProofs!CreateLoop,
         Control!AddPollEvent, ControlProofs!AddPollEvent,
         Control!AddTimerInLoop, ControlProofs!AddTimerInLoop,
         Control!StartLoop, ControlProofs!StartLoop,
         Control!EnterLoop, ControlProofs!EnterLoop,
         Control!loopVars, ControlProofs!loopVars
<1>6. Control!LoopThread <=> ControlProofs!LoopThread
  BY <1>2 DEF Control!LoopThread, ControlProofs!LoopThread, Control!LoopPoll, ControlProofs!LoopPoll,
         Control!Poll, ControlProofs!Poll, Control!HandleEvent, ControlProofs!HandleEvent,
         Control!Callback, ControlProofs!Callback,
         Control!LoopTurn, ControlProofs!LoopTurn,
         Control!TakeFunctors, ControlProofs!TakeFunctors,
         Control!RunFunctor, ControlProofs!RunFunctor,
         Control!FunctorsDone, ControlProofs!FunctorsDone,
         Control!controlVars, ControlProofs!controlVars
<1>7. UNCHANGED controlVars <=> UNCHANGED ControlProofs!vars
  BY DEF controlVars, ControlProofs!vars, ControlProofs!controlVars, ControlProofs!loopVars
<1>8. QED
  BY <1>1, <1>2, <1>3, <1>4, <1>5, <1>6, <1>7
     DEF Control!Next, ControlProofs!Next, Control!Alive, ControlProofs!Alive

LEMMA SamePool ==
    /\ Pool!Init <=> PoolProofs!Init
    /\ \A t : Pool!RunCall(t) <=> PoolProofs!RunCall(t)
    /\ Pool!RunLock <=> PoolProofs!RunLock
    /\ Pool!RunWait <=> PoolProofs!RunWait
    /\ Pool!RunPush <=> PoolProofs!RunPush
    /\ \A w \in Workers : Pool!WorkerStep(w) <=> PoolProofs!WorkerStep(w)
    /\ \A w \in Workers : Pool!TaskThrows(w) <=> PoolProofs!TaskThrows(w)
    /\ Pool!EndWorkers <=> PoolProofs!EndWorkers
<1>1. /\ Pool!Asleep = PoolProofs!Asleep
      /\ Pool!Suspended <=> PoolProofs!Suspended
      /\ Pool!IsFull <=> PoolProofs!IsFull
      /\ \A ws : Pool!Wake(ws) <=> PoolProofs!Wake(ws)
  BY DEF Pool!Asleep, PoolProofs!Asleep, Pool!Suspended, PoolProofs!Suspended,
         Pool!IsFull, PoolProofs!IsFull, Pool!Wake, PoolProofs!Wake
<1>2. Pool!Init <=> PoolProofs!Init
  BY DEF Pool!Init, PoolProofs!Init
<1>3. /\ \A t : Pool!RunCall(t) <=> PoolProofs!RunCall(t)
      /\ Pool!RunLock <=> PoolProofs!RunLock
      /\ Pool!RunWait <=> PoolProofs!RunWait
  BY <1>1 DEF Pool!RunCall, PoolProofs!RunCall, Pool!RunLock, PoolProofs!RunLock,
              Pool!RunWait, PoolProofs!RunWait
<1>4. Pool!RunPush <=> PoolProofs!RunPush
  BY <1>1 DEF Pool!RunPush, PoolProofs!RunPush, Pool!NotEmptyNotify, PoolProofs!NotEmptyNotify
<1>5. \A w \in Workers : Pool!WorkerStep(w) <=> PoolProofs!WorkerStep(w)
  BY DEF Pool!WorkerStep, PoolProofs!WorkerStep, Pool!Loop, PoolProofs!Loop,
         Pool!TakeSleep, PoolProofs!TakeSleep, Pool!TakeTask, PoolProofs!TakeTask,
         Pool!TakeNothing, PoolProofs!TakeNothing, Pool!TaskDone, PoolProofs!TaskDone,
         Pool!NotFullNotify, PoolProofs!NotFullNotify
<1>6. Pool!EndWorkers <=> PoolProofs!EndWorkers
  BY <1>1 DEF Pool!EndWorkers, PoolProofs!EndWorkers,
              Pool!NotEmptyNotifyAll, PoolProofs!NotEmptyNotifyAll
<1>7. \A w \in Workers : Pool!TaskThrows(w) <=> PoolProofs!TaskThrows(w)
  BY DEF Pool!TaskThrows, PoolProofs!TaskThrows
<1>8. QED
  BY <1>2, <1>3, <1>4, <1>5, <1>6, <1>7

-----------------------------------------------------------------------------
(* A process of which the control path has crashed is no more.             *)
CrashEnds == stage = "crashed" => process = "died"

(* Nothing happens in a process that has ended or died.                    *)
LEMMA DeadStays ==
    ASSUME [Next]_vars, process \notin {"booting", "up"}
    PROVE  UNCHANGED vars
  BY DEF Next, WebThread, WebListen, WebBindFails, WebExit, WebAccept,
     ManageThread, ManageTest, ManageTake, ManageTimeout, ManageHandle, ManageDies,
     MainThread, MainRuns, Up, Boot, Configure, StartLoop, LoopPoll, FireTask, FireNothing,
     EnterRun, FireDone, LoopTurn, LoopExit, WorkerThread, TaskThrows, Signal, SignalAgain,
     Handler, Logged, JoinWeb, LogWeb, JoinManage, LogManage, StopPool, JoinPool,
     JoinDies, QuitLoop, LogQuit

(* What a step of the process is for the control path ...                  *)
LEMMA ControlStep ==
    ASSUME CrashEnds, [Next]_vars
    PROVE  [Control!Next]_controlVars /\ CrashEnds'
<1> USE DEF CrashEnds
<1>1. CASE UNCHANGED vars
  BY <1>1 DEF vars, controlVars, mainVars
<1>2. CASE process \notin {"booting", "up"}
  BY <1>1, <1>2, DeadStays
<1>3. CASE Next /\ process \in {"booting", "up"}
  <2>1. Control!Alive
    BY <1>3 DEF Control!Alive
  <2>2. ASSUME NEW r \in Control!Request, WebAccept(r)
        PROVE  Control!Next /\ stage' = stage /\ process' = process
    BY <2>1, <2>2 DEF WebAccept, Control!Next, Control!Accept, mainVars
  <2>3. CASE ManageTake \/ ManageHandle
    <3>1. Control!Manage /\ process' = process
      BY <2>3 DEF ManageTake, ManageHandle, Control!Manage, mainVars
    <3>2. stage' = stage
      BY <2>3 DEF ManageTake, ManageHandle, Control!Take, Control!StartPolling,
                  Control!StopPolling, Control!IgnoreParam
    <3>3. QED
      BY <1>3, <2>1, <3>1, <3>2 DEF Control!Next
  <2>4. CASE ManageDies
    BY <2>1, <2>4 DEF ManageDies, Control!Next, Control!Manage
  <2>5. CASE Configure \/ StartLoop
    <3>1. Control!Startup
      BY <2>5 DEF Configure, StartLoop, Control!Startup
    <3>2. stage' # "crashed"
      BY <2>1, <2>5 DEF Configure, StartLoop, Control!CreateLoop, Control!AddPollEvent,
                        Control!StartLoop, Control!Alive
    <3>3. QED
      BY <2>1, <3>1, <3>2 DEF Control!Next
  <2>6. ASSUME \/ \E due \in SUBSET timers : LoopPoll(due)
               \/ \E t \in expired : FireNothing(t)
               \/ FireDone \/ LoopTurn
        PROVE  Control!Next /\ stage' = stage /\ process' = process
    <3>1. Control!LoopThread
      BY <2>6 DEF LoopPoll, FireNothing, FireDone, LoopTurn, Control!LoopThread,
                  Control!HandleEvent, Control!Callback
    <3>2. stage' = stage /\ process' = process
      BY <2>6 DEF LoopPoll, FireNothing, FireDone, LoopTurn, Control!LoopPoll,
                  Control!HandleEvent, Control!LoopTurn, Control!controlVars, mainVars
    <3>3. QED
      BY <2>1, <3>1, <3>2 DEF Control!Next
  <2>7. ASSUME \/ WebThread \/ ManageTest \/ ManageTimeout \/ Boot
               \/ \E t \in expired : FireTask(t)
               \/ EnterRun \/ LoopExit
               \/ \E w \in Workers : WorkerThread(w) \/ TaskThrows(w)
               \/ Signal \/ SignalAgain \/ Handler
        PROVE  UNCHANGED controlVars
    BY <2>7 DEF WebThread, WebListen, WebBindFails, WebExit, ManageTest, ManageTimeout, Boot,
                FireTask, EnterRun, LoopExit, WorkerThread, TaskThrows, Signal, SignalAgain,
                Handler, JoinWeb, LogWeb, JoinManage, LogManage, StopPool, JoinPool,
                JoinDies, QuitLoop, LogQuit
  <2>8. UNCHANGED controlVars => stage' = stage
    BY DEF controlVars
  <2>9. QED
    BY <1>3, <2>1, <2>2, <2>3, <2>4, <2>5, <2>6, <2>7, <2>8
    DEF Next, ManageThread, MainThread, Control!Alive
<1>4. QED
  BY <1>1, <1>2, <1>3

(* ... and for the pool: one of its own steps, or what StopServer does of  *)
(* stop().                                                                 *)
EndPool == Pool!EndWorkers /\ UNCHANGED <<queue, held, caller, arg, stop>>
PoolNext == \/ \E task \in PoolTypes : Pool!RunCall(task)
            \/ Pool!RunLock \/ Pool!RunWait \/ Pool!RunPush
            \/ \E w \in Workers : Pool!WorkerStep(w)
            \/ EndPool
Throws == \E w \in Workers : TaskThrows(w)

LEMMA PoolStep == [Next]_vars => [PoolNext \/ Throws]_poolVars
<1> SUFFICES ASSUME [Next]_vars PROVE [PoolNext \/ Throws]_poolVars
  OBVIOUS
<1>1. ASSUME UNCHANGED vars PROVE UNCHANGED poolVars
  BY <1>1 DEF vars
<1>2. ASSUME NEW t \in expired, FireTask(t) PROVE PoolNext
  BY <1>2 DEF FireTask, PoolNext
<1>3. ASSUME EnterRun \/ FireDone PROVE PoolNext
  BY <1>3 DEF EnterRun, FireDone, PoolNext
<1>4. ASSUME NEW w \in Workers, WorkerThread(w) PROVE PoolNext
  BY <1>4 DEF WorkerThread, PoolNext
<1>5. ASSUME StopPool PROVE PoolNext
  BY <1>5 DEF StopPool, PoolNext, EndPool
<1>6. ASSUME \/ WebThread \/ ManageThread
             \/ \E r \in Control!Request : WebAccept(r)
             \/ Boot \/ Configure \/ StartLoop
             \/ \E due \in SUBSET timers : LoopPoll(due)
             \/ \E t \in expired : FireNothing(t)
             \/ LoopTurn \/ LoopExit \/ Signal \/ SignalAgain
             \/ JoinWeb \/ LogWeb \/ JoinManage \/ LogManage \/ JoinPool
             \/ JoinDies \/ QuitLoop \/ LogQuit
      PROVE  UNCHANGED poolVars
  BY <1>6 DEF WebThread, WebListen, WebBindFails, WebExit, WebAccept,
     ManageThread, ManageTest, ManageTake, ManageTimeout, ManageHandle, ManageDies,
     Boot, Configure, StartLoop, LoopPoll, FireNothing, LoopTurn, LoopExit,
     Signal, SignalAgain, JoinWeb, LogWeb, JoinManage, LogManage, JoinPool,
     JoinDies, QuitLoop, LogQuit
<1>7. QED
  BY <1>1, <1>2, <1>3, <1>4, <1>5, <1>6 DEF Next, MainThread, Handler, Throws

-----------------------------------------------------------------------------
(* The invariants of the two components hold in the process.               *)
ComponentsInv == ControlProofs!Inv /\ PoolProofs!Inv /\ CrashEnds

LEMMA EndPoolInv == PoolProofs!Inv /\ EndPool => PoolProofs!Inv'
<1> SUFFICES ASSUME PoolProofs!Inv, EndPool PROVE PoolProofs!Inv'
  OBVIOUS
<1>1. /\ running' = FALSE /\ PoolProofs!Wake(PoolProofs!Asleep)
      /\ UNCHANGED <<queue, held, caller, arg, stop>>
  BY SamePool DEF EndPool, PoolProofs!EndWorkers, PoolProofs!NotEmptyNotifyAll
<1>2. PoolProofs!TypeOK'
  BY <1>1 DEF PoolProofs!Inv, PoolProofs!TypeOK, PoolProofs!Wake
<1>3. PoolProofs!Asleep' = {}
  BY <1>1 DEF PoolProofs!Wake, PoolProofs!Asleep
<1>4. QED
  BY <1>1, <1>2, <1>3 DEF PoolProofs!Inv, PoolProofs!Caller, PoolProofs!WorkConserving,
                          PoolProofs!BlockedOnlyWhenFull, PoolProofs!IsFull

LEMMA PoolInvNext == PoolProofs!Inv /\ [Next]_vars => PoolProofs!Inv'
<1>1. [PoolNext \/ Throws]_poolVars /\ ~EndPool => [PoolProofs!Step]_(PoolProofs!vars)
  BY SamePool DEF PoolNext, Throws, TaskThrows, poolVars, PoolProofs!Step, PoolProofs!RunStep,
                  PoolProofs!vars
<1>2. PoolProofs!Inv /\ [PoolProofs!Step]_(PoolProofs!vars) => PoolProofs!Inv'
  BY PoolAssumption, NullAssumption, PoolProofs!StepInv
  DEF IsFiniteSet, PoolProofs!IsFiniteSet
<1>3. QED
  BY <1>1, <1>2, PoolStep, EndPoolInv

LEMMA ControlConstants ==
    /\ {"START", "STOP"} \subseteq PollStates
    /\ ConfEvents \in Seq([type : Types, interval : Nat])
    /\ MaxRequests \in Nat
    /\ NULL \notin ControlProofs!Request
  BY ControlAssumption, NullAssumption DEF Control!Request, ControlProofs!Request

LEMMA ComponentsInit == Init => ComponentsInv
<1>1. ControlProofs!Init => ControlProofs!Inv
  BY ControlConstants, ControlProofs!InitInv
<1>2. PoolProofs!Init => PoolProofs!Inv
  BY PoolAssumption, NullAssumption, PoolProofs!InitInv
  DEF IsFiniteSet, PoolProofs!IsFiniteSet
<1>3. QED
  BY <1>1, <1>2, SameControl, SamePool
  DEF Init, ComponentsInv, CrashEnds, Control!Init

LEMMA ComponentsNext == ComponentsInv /\ [Next]_vars => ComponentsInv'
<1>1. ControlProofs!Inv /\ [ControlProofs!Next]_(ControlProofs!vars) => ControlProofs!Inv'
  BY ControlConstants, ControlProofs!NextInv
<1>2. QED
  BY <1>1, SameControl, ControlStep, PoolInvNext DEF ComponentsInv

-----------------------------------------------------------------------------
(* The types of what the process adds to its components.  At most two calls*)
(* of StopServer are on the stack.                                         *)
Places == {"join_web", "log_web", "join_manage", "log_manage",
           "pool_lock", "pool_join", "quit", "log_quit"}
ProcessOK ==
    /\ process \in {"booting", "up", "ended", "died"}
    /\ web \in {"starting", "running", "exited", "detached"}
    /\ httpSev_flag \in {0, 1}
    /\ manage \in {"test", "pop", "handle", "exited"}
    /\ manageFlag \in BOOLEAN
    /\ firing \in Control!Timer \union {NULL}
    /\ quit \in BOOLEAN
    /\ found \in SignalWindows \union {"none"}
    /\ inLibrary \in {"no", "log", "malloc"}
    /\ eintr \in BOOLEAN
    /\ joined \in SUBSET {"web", "manage", "pool"}
    /\ signals \in 0 .. MaxSignals
StackOK == sig \in Seq(Places) /\ Len(sig) <= signals /\ Len(sig) <= 2

(* What a handler's step makes of the stack.                               *)
LEMMA GotoStack ==
    ASSUME sig \in Seq(Places), Len(sig) <= 2, NEW from \in Places, At(from),
           NEW to \in Places, Goto(to)
    PROVE  /\ sig' \in Seq(Places) /\ Len(sig') = Len(sig)
           /\ sig # << >> /\ sig' # << >>
           /\ Len(sig) = 1 => sig[1] = from /\ sig'[1] = to
           /\ Len(sig) = 2 => sig'[1] = sig[1]
  BY DEF At, Goto

LEMMA OneOrTwo == ASSUME sig \in Seq(Places), Len(sig) <= 2, sig # << >>
                  PROVE  Len(sig) = 1 \/ Len(sig) = 2
<1>1. Len(sig) \in Nat \ {0}
  BY EmptySeq
<1>2. ASSUME NEW l \in Nat \ {0}, l <= 2
      PROVE  l = 1 \/ l = 2
  BY <1>2
<1>3. QED
  BY <1>1, <1>2

LEMMA FrontStack ==
    ASSUME sig \in Seq(Places), Len(sig) <= 2, sig # << >>, sig' = Front(sig)
    PROVE  /\ sig' \in Seq(Places) /\ Len(sig') = Len(sig) - 1
           /\ Len(sig) = 1 => sig' = << >>
           /\ Len(sig) = 2 => sig' # << >> /\ sig'[1] = sig[1]
<1> DEFINE n == Len(sig) - 1
<1>1. Len(sig) \in {1, 2} /\ n \in {0, 1}
  <2>1. Len(sig) = 1 \/ Len(sig) = 2
    BY OneOrTwo
  <2>2. QED
    BY <2>1
<1>2. sig' = SubSeq(sig, 1, n)
  BY DEF Front
<1>3. \A i \in 1 .. n : sig[i] \in Places
  BY <1>1
<1>4. /\ SubSeq(sig, 1, n) \in Seq(Places)
      /\ Len(SubSeq(sig, 1, n)) = (IF 1 <= n THEN n - 1 + 1 ELSE 0)
      /\ \A i \in 1 .. n - 1 + 1 : SubSeq(sig, 1, n)[i] = sig[1 + i - 1]
  BY <1>1, <1>3, SubSeqProperties
<1>5. CASE Len(sig) = 1
  BY <1>2, <1>4, <1>5
<1>6. CASE Len(sig) = 2
  BY <1>2, <1>4, <1>6
<1>7. QED
  BY <1>1, <1>5, <1>6

(* The steps that leave the stack, and what belongs to it, alone.          *)
Elsewhere == \/ UNCHANGED vars \/ WebThread \/ ManageThread \/ MainThread \/ JoinDies
             \/ \E r \in Control!Request : WebAccept(r)
             \/ \E w \in Workers : WorkerThread(w) \/ TaskThrows(w)

LEMMA ElsewhereStack == Elsewhere => UNCHANGED handlerVars
  BY DEF Elsewhere, vars, WebThread, WebListen, WebBindFails, WebExit, WebAccept,
     ManageThread, ManageTest, ManageTake, ManageTimeout, ManageHandle, ManageDies,
     MainThread, Boot, Configure, StartLoop, LoopPoll, FireTask, FireNothing,
     EnterRun, FireDone, LoopTurn, LoopExit, WorkerThread, TaskThrows, JoinDies

(* A call of StopServer goes on to its next statement.                     *)
Advances == JoinWeb \/ LogWeb \/ JoinManage \/ LogManage \/ StopPool \/ JoinPool

LEMMA AdvancesStack ==
    Advances => signals' = signals /\ \E from, to \in Places : At(from) /\ Goto(to)
<1>1. Advances => signals' = signals
  BY DEF Advances, JoinWeb, LogWeb, JoinManage, LogManage, StopPool, JoinPool
<1>2. Advances => \E from, to \in Places : At(from) /\ Goto(to)
  BY Zenon DEF Advances, Logged, JoinWeb, LogWeb, JoinManage, LogManage, StopPool, JoinPool, Places
<1>3. QED
  BY <1>1, <1>2

LEMMA StackNext == ASSUME StackOK, signals \in Nat, [Next]_vars PROVE StackOK'
<1> USE DEF StackOK
<1>1. CASE Signal
  BY <1>1 DEF Signal, Places
<1>2. CASE SignalAgain
  <2>1. "join_web" \in Places /\ Len(sig) = 1 /\ sig' = Append(sig, "join_web")
    BY <1>2 DEF SignalAgain, Places
  <2>2. sig' \in Seq(Places) /\ Len(sig') = 2
    BY <2>1
  <2>3. QED
    BY <1>2, <2>1, <2>2 DEF SignalAgain
<1>3. CASE Advances
  BY <1>3, AdvancesStack, GotoStack
<1>4. CASE QuitLoop
  <2>1. CASE sig' = sig
    BY <1>4, <2>1 DEF QuitLoop
  <2>2. CASE Goto("log_quit")
    BY <1>4, <2>2, GotoStack DEF QuitLoop, Places
  <2>3. QED
    BY <1>4, <2>1, <2>2 DEF QuitLoop
<1>5. CASE LogQuit
  <2>1. sig # << >> /\ sig' = Front(sig) /\ signals' = signals
    BY <1>5 DEF LogQuit, Logged, At
  <2>2. Len(sig') = Len(sig) - 1 /\ sig' \in Seq(Places)
    BY <2>1, FrontStack
  <2>3. ASSUME NEW l \in Nat, l <= signals, l <= 2 PROVE l - 1 <= signals /\ l - 1 <= 2
    BY <2>3
  <2>4. Len(sig) \in Nat
    OBVIOUS
  <2>5. QED
    BY <2>1, <2>2, <2>3, <2>4
<1>6. CASE Elsewhere
  BY <1>6, ElsewhereStack DEF handlerVars
<1>7. QED
  BY <1>1, <1>2, <1>3, <1>4, <1>5, <1>6 DEF Next, Handler, Elsewhere, Advances

LEMMA ProcessNext ==
    ASSUME ProcessOK, StackOK, Control!TypeOK, [Next]_vars
    PROVE  ProcessOK'
<1> USE DEF ProcessOK
<1>1. CASE UNCHANGED vars
  BY <1>1 DEF vars, webVars, manageVars, handlerVars, mainVars
<1>2. CASE WebThread \/ \E r \in Control!Request : WebAccept(r)
  <2>1. /\ UNCHANGED <<manageVars, handlerVars, mainVars>>
        /\ web' \in {web, "running", "detached", "exited"}
        /\ httpSev_flag' \in {httpSev_flag, 0}
    BY <1>2 DEF WebThread, WebListen, WebBindFails, WebExit, WebAccept, webVars
  <2>2. QED
    BY <2>1 DEF manageVars, handlerVars, mainVars
<1>3. CASE ManageThread
  <2>1. /\ UNCHANGED <<webVars, manageFlag, handlerVars, firing, quit, eintr>>
        /\ manage' \in {"test", "pop", "handle", "exited"}
        /\ process' \in {process, "died"}
    BY <1>3 DEF ManageThread, ManageTest, ManageTake, ManageTimeout, ManageHandle, ManageDies,
                manageVars, mainVars
  <2>2. QED
    BY <2>1 DEF webVars, handlerVars
<1>4. CASE \E t \in expired : FireTask(t)
  <2>1. firing' \in Control!Timer
    BY <1>4 DEF FireTask, Control!TypeOK
  <2>2. QED
    BY <1>4, <2>1 DEF FireTask, webVars, manageVars, handlerVars
<1>5. CASE \/ Boot \/ Configure \/ StartLoop
           \/ \E due \in SUBSET timers : LoopPoll(due)
           \/ \E t \in expired : FireNothing(t)
           \/ EnterRun \/ FireDone \/ LoopTurn \/ LoopExit
           \/ \E w \in Workers : WorkerThread(w) \/ TaskThrows(w)
  <2>1. UNCHANGED <<webVars, manageVars, handlerVars>>
    BY <1>5 DEF Boot, Configure, StartLoop, LoopPoll, FireNothing, EnterRun, FireDone, LoopTurn,
                LoopExit, WorkerThread, TaskThrows
  <2>2. /\ process' \in {process, "up", "ended", "died"}
        /\ firing' \in {firing, NULL}
        /\ quit' \in {quit, FALSE} /\ eintr' \in {eintr, FALSE}
    BY <1>5 DEF Boot, Configure, StartLoop, LoopPoll, FireNothing, EnterRun, FireDone, LoopTurn,
                LoopExit, WorkerThread, TaskThrows, mainVars
  <2>3. quit' \in BOOLEAN /\ eintr' \in BOOLEAN
    BY <2>2, Zenon
  <2>4. UNCHANGED <<web, httpSev_flag, manage, manageFlag, joined, signals, found, inLibrary>>
    BY <2>1 DEF webVars, manageVars, handlerVars
  <2>5. process' \in {"booting", "up", "ended", "died"}
    BY <2>2
  <2>6. firing' \in Control!Timer \union {NULL}
    BY <2>2
  <2>7. QED
    BY <2>3, <2>4, <2>5, <2>6
<1>6. CASE Signal
  <2>1. signals' \in 0 .. MaxSignals
    BY <1>6, SignalsAssumption DEF Signal
  <2>2. eintr' \in BOOLEAN
    BY <1>6 DEF Signal
  <2>3. QED
    BY <1>6, <2>1, <2>2 DEF Signal, manageVars
<1>7. CASE SignalAgain
  <2>1. signals' \in 0 .. MaxSignals
    BY <1>7, SignalsAssumption DEF SignalAgain
  <2>2. QED
    BY <1>7, <2>1 DEF SignalAgain, webVars, manageVars, mainVars
<1>8. CASE Advances \/ LogQuit
  <2>1. joined' \in SUBSET {"web", "manage", "pool"}
    BY <1>8 DEF Advances, LogQuit, JoinWeb, LogWeb, JoinManage, LogManage, StopPool, JoinPool, Join
  <2>2. /\ UNCHANGED <<webVars, manage, signals, found, inLibrary, mainVars>>
        /\ manageFlag' \in {manageFlag, FALSE}
    BY <1>8 DEF Advances, LogQuit, JoinWeb, LogWeb, JoinManage, LogManage, StopPool, JoinPool,
                manageVars
  <2>3. manageFlag' \in BOOLEAN
    BY <2>2, Zenon
  <2>4. QED
    BY <2>1, <2>2, <2>3 DEF webVars, mainVars
<1>9. CASE JoinDies \/ QuitLoop
  <2>1. /\ UNCHANGED <<webVars, manageVars, joined, signals, found, inLibrary, firing, eintr>>
        /\ process' \in {process, "died"} /\ quit' \in {quit, TRUE}
    BY <1>9 DEF JoinDies, QuitLoop, handlerVars, mainVars
  <2>2. quit' \in BOOLEAN
    BY <2>1, Zenon
  <2>3. QED
    BY <2>1, <2>2 DEF webVars, manageVars
<1>10. QED
  BY <1>1, <1>2, <1>3, <1>4, <1>5, <1>6, <1>7, <1>8, <1>9
  DEF Next, MainThread, Handler, Advances

LEMMA TypesAgree ==
    /\ ControlProofs!Inv => Control!TypeOK
    /\ PoolProofs!Inv => Pool!TypeOK
<1>1. Control!TypeOK <=> ControlProofs!TypeOK
  BY DEF Control!TypeOK, ControlProofs!TypeOK, Control!Functor, ControlProofs!Functor,
         Control!Timer, ControlProofs!Timer, Control!Request, ControlProofs!Request
<1>2. Pool!TypeOK <=> PoolProofs!TypeOK
  BY DEF Pool!TypeOK, PoolProofs!TypeOK
<1>3. QED
  BY <1>1, <1>2 DEF ControlProofs!Inv, PoolProofs!Inv

-----------------------------------------------------------------------------
(* Who has gone when, in StopServer.  A nested call may leave a join behind*)
(* that the call below it is waiting in, so that the inner call proves     *)
(* nothing when it gets to quit(); but the call at the bottom of the stack *)
(* has really waited at each join it has passed, and only it returns to    *)
(* the main thread.                                                        *)
WebGone == web \in {"exited", "detached"}
JoinedGone == /\ "web" \in joined => web = "exited"
              /\ "manage" \in joined => manage = "exited"
              /\ "pool" \in joined => Pool!WorkersEnded
FirstCall == sig # << >> =>
    /\ sig[1] # "join_web" => WebGone
    /\ sig[1] \in {"log_manage", "pool_lock", "pool_join", "quit", "log_quit"} =>
           manage = "exited"
    /\ sig[1] \in {"quit", "log_quit"} => Pool!WorkersEnded
QuitLast == quit /\ sig = << >> => WebGone /\ manage = "exited" /\ Pool!WorkersEnded

QuitInv == JoinedGone /\ FirstCall /\ QuitLast

(* A thread that has ended stays away.                                     *)
LEMMA GoneForGood ==
    ASSUME Pool!TypeOK, [Next]_vars
    PROVE  /\ WebGone => WebGone'
           /\ web = "exited" => web' = "exited"
           /\ manage = "exited" => manage' = "exited"
           /\ Pool!WorkersEnded => Pool!WorkersEnded'
<1>1. UNCHANGED web \/ (web = "starting" \/ web = "running")
  BY DEF Next, vars, webVars, WebThread, WebListen, WebBindFails, WebExit, WebAccept,
     ManageThread, ManageTest, ManageTake, ManageTimeout, ManageHandle, ManageDies,
     MainThread, Boot, Configure, StartLoop, LoopPoll, FireTask, FireNothing,
     EnterRun, FireDone, LoopTurn, LoopExit, WorkerThread, TaskThrows, Signal,
     SignalAgain, Handler, JoinWeb, LogWeb, JoinManage, LogManage, StopPool, JoinPool,
     JoinDies, QuitLoop, LogQuit
<1>2. UNCHANGED manage \/ manage # "exited"
  BY DEF Next, vars, manageVars, WebThread, WebListen, WebBindFails, WebExit, WebAccept,
     ManageThread, ManageTest, ManageTake, ManageTimeout, ManageHandle, ManageDies,
     MainThread, Boot, Configure, StartLoop, LoopPoll, FireTask, FireNothing,
     EnterRun, FireDone, LoopTurn, LoopExit, WorkerThread, TaskThrows, Signal,
     SignalAgain, Handler, JoinWeb, LogWeb, JoinManage, LogManage, StopPool, JoinPool,
     JoinDies, QuitLoop, LogQuit
<1>3. ASSUME Pool!WorkersEnded PROVE Pool!WorkersEnded'
  <2>1. [PoolNext \/ Throws]_poolVars
    BY PoolStep
  <2>2. Pool!Asleep = {}
    BY <1>3 DEF Pool!Asleep, Pool!WorkersEnded
  <2>3. ASSUME UNCHANGED worker PROVE Pool!WorkersEnded'
    BY <1>3, <2>3 DEF Pool!WorkersEnded
  <2>4. Pool!Wake({}) => Pool!WorkersEnded'
    BY <1>3 DEF Pool!Wake, Pool!WorkersEnded
  <2>5. ~ \E w \in Workers : Pool!WorkerStep(w) \/ TaskThrows(w)
    BY <1>3 DEF Pool!WorkersEnded, Pool!WorkerStep, Pool!Loop, Pool!TakeSleep, Pool!TakeTask,
                Pool!TakeNothing, Pool!TaskDone, TaskThrows, Pool!TaskThrows
  <2>6. QED
    BY <2>1, <2>2, <2>3, <2>4, <2>5
    DEF PoolNext, Throws, poolVars, Pool!RunCall, Pool!RunLock, Pool!RunWait, Pool!RunPush,
        Pool!NotEmptyNotify, EndPool, Pool!EndWorkers, Pool!NotEmptyNotifyAll
<1>4. QED
  BY <1>1, <1>2, <1>3 DEF WebGone

(* What the call at the bottom of the stack has waited for, step by step.  *)
LEMMA FirstCallNext ==
    ASSUME StackOK, Pool!TypeOK, JoinedGone, FirstCall, [Next]_vars
    PROVE  FirstCall'
<1>1. /\ WebGone => WebGone'
      /\ manage = "exited" => manage' = "exited"
      /\ Pool!WorkersEnded => Pool!WorkersEnded'
  BY GoneForGood
<1>2. ASSUME sig' = << >> \/ sig'[1] = "join_web" PROVE FirstCall'
  BY <1>2 DEF FirstCall
<1>3. ASSUME sig # << >>, sig'[1] = sig[1] PROVE FirstCall'
  BY <1>1, <1>3 DEF FirstCall
<1>4. CASE UNCHANGED sig
  BY <1>2, <1>3, <1>4
<1>5. CASE Signal
  BY <1>2, <1>5 DEF Signal
<1>6. CASE SignalAgain
  <2>1. sig \in Seq(Places) /\ "join_web" \in Places /\ Len(sig) = 1
    BY <1>6 DEF SignalAgain, StackOK, Places
  <2>2. sig # << >> /\ sig'[1] = sig[1]
    BY <1>6, <2>1 DEF SignalAgain
  <2>3. QED
    BY <1>3, <2>2
<1>7. ASSUME NEW from \in Places, NEW to \in Places, At(from), Goto(to)
      PROVE  /\ sig # << >> /\ sig' # << >>
             /\ \/ sig'[1] = sig[1]
                \/ Len(sig) = 1 /\ sig[1] = from /\ sig'[1] = to
  <2>1. sig # << >>
    BY <1>7 DEF At
  <2>2. Len(sig) = 1 \/ Len(sig) = 2
    BY <2>1, OneOrTwo DEF StackOK
  <2>3. QED
    BY <1>7, <2>2, GotoStack DEF StackOK
<1> USE DEF Places
<1>8. CASE JoinWeb
  <2>1. CASE Len(sig) = 1 /\ sig[1] = "join_web" /\ sig'[1] = "log_web"
    <3>1. sig # << >>
      BY <1>8 DEF JoinWeb, At
    <3>2. WebGone
      BY <1>8, <2>1 DEF JoinWeb, Join, InterruptedAt, JoinedGone, WebGone
    <3>3. QED
      BY <1>1, <2>1, <3>2 DEF FirstCall
  <2>2. QED
    BY <1>3, <1>7, <1>8, <2>1 DEF JoinWeb
<1>9. CASE LogWeb
  <2>1. CASE Len(sig) = 1 /\ sig[1] = "log_web" /\ sig'[1] = "join_manage"
    <3>1. sig # << >>
      BY <1>9 DEF LogWeb, At, Logged
    <3>2. WebGone
      BY <2>1, <3>1 DEF FirstCall
    <3>3. QED
      BY <1>1, <2>1, <3>2 DEF FirstCall
  <2>2. QED
    BY <1>3, <1>7, <1>9, <2>1 DEF LogWeb, Logged
<1>10. CASE JoinManage
  <2>1. CASE Len(sig) = 1 /\ sig[1] = "join_manage" /\ sig'[1] = "log_manage"
    <3>1. sig # << >>
      BY <1>10 DEF JoinManage, At
    <3>2. WebGone
      BY <2>1, <3>1 DEF FirstCall
    <3>3. manage = "exited"
      BY <1>10, <2>1 DEF JoinManage, Join, InterruptedAt, JoinedGone
    <3>4. QED
      BY <1>1, <2>1, <3>2, <3>3 DEF FirstCall
  <2>2. QED
    BY <1>3, <1>7, <1>10, <2>1 DEF JoinManage
<1>11. CASE LogManage
  <2>1. CASE Len(sig) = 1 /\ sig[1] = "log_manage" /\ sig'[1] = "pool_lock"
    <3>1. sig # << >>
      BY <1>11 DEF LogManage, At, Logged
    <3>2. WebGone /\ manage = "exited"
      BY <2>1, <3>1 DEF FirstCall
    <3>3. QED
      BY <1>1, <2>1, <3>2 DEF FirstCall
  <2>2. QED
    BY <1>3, <1>7, <1>11, <2>1 DEF LogManage, Logged
<1>12. CASE StopPool
  <2>1. CASE Len(sig) = 1 /\ sig[1] = "pool_lock" /\ sig'[1] = "pool_join"
    <3>1. sig # << >>
      BY <1>12 DEF StopPool, At
    <3>2. WebGone /\ manage = "exited"
      BY <2>1, <3>1 DEF FirstCall
    <3>3. QED
      BY <1>1, <2>1, <3>2 DEF FirstCall
  <2>2. QED
    BY <1>3, <1>7, <1>12, <2>1 DEF StopPool
<1>13. CASE JoinPool
  <2>1. CASE Len(sig) = 1 /\ sig[1] = "pool_join" /\ sig'[1] = "quit"
    <3>1. sig # << >>
      BY <1>13 DEF JoinPool, At
    <3>2. WebGone /\ manage = "exited"
      BY <2>1, <3>1 DEF FirstCall
    <3>3. Pool!WorkersEnded
      BY <1>13, <2>1 DEF JoinPool, Join, InterruptedAt, JoinedGone
    <3>4. QED
      BY <1>1, <2>1, <3>2, <3>3 DEF FirstCall
  <2>2. QED
    BY <1>3, <1>7, <1>13, <2>1 DEF JoinPool
<1>14. CASE QuitLoop
  <2>1. CASE Goto("log_quit")
    <3>1. CASE Len(sig) = 1 /\ sig[1] = "quit" /\ sig'[1] = "log_quit"
      <4>1. sig # << >>
        BY <1>14 DEF QuitLoop, At
      <4>2. WebGone /\ manage = "exited" /\ Pool!WorkersEnded
        BY <3>1, <4>1 DEF FirstCall
      <4>3. QED
        BY <1>1, <3>1, <4>2 DEF FirstCall
    <3>2. QED
      BY <1>3, <1>7, <1>14, <2>1, <3>1 DEF QuitLoop
  <2>2. QED
    BY <1>4, <1>14, <2>1 DEF QuitLoop
<1>15. CASE LogQuit
  <2>1. sig # << >> /\ sig' = Front(sig)
    BY <1>15 DEF LogQuit, Logged, At
  <2>2. Len(sig) = 1 \/ Len(sig) = 2
    BY <2>1, OneOrTwo DEF StackOK
  <2>3. sig' = << >> \/ sig'[1] = sig[1]
    BY <2>1, <2>2, FrontStack DEF StackOK
  <2>4. QED
    BY <1>2, <1>3, <2>1, <2>3
<1>16. CASE Elsewhere
  BY <1>4, <1>16, ElsewhereStack DEF handlerVars
<1>17. QED
  BY <1>5, <1>6, <1>8, <1>9, <1>10, <1>11, <1>12, <1>13, <1>14, <1>15, <1>16
  DEF Next, Handler, Elsewhere

LEMMA JoinedNext ==
    ASSUME Pool!TypeOK, JoinedGone, [Next]_vars
    PROVE  JoinedGone'
<1>1. /\ web = "exited" => web' = "exited"
      /\ manage = "exited" => manage' = "exited"
      /\ Pool!WorkersEnded => Pool!WorkersEnded'
  BY GoneForGood
<1>2. CASE JoinWeb \/ JoinManage \/ JoinPool
  <2>1. /\ "web" \in joined' => "web" \in joined \/ web = "exited"
        /\ "manage" \in joined' => "manage" \in joined \/ manage = "exited"
        /\ "pool" \in joined' => "pool" \in joined \/ Pool!WorkersEnded
    BY <1>2 DEF JoinWeb, JoinManage, JoinPool, Join
  <2>2. QED
    BY <1>1, <2>1 DEF JoinedGone
<1>3. CASE ~(JoinWeb \/ JoinManage \/ JoinPool)
  <2>1. joined' = joined
    BY <1>3, ElsewhereStack
    DEF Next, Elsewhere, handlerVars, Signal, SignalAgain, Handler, LogWeb, LogManage, StopPool,
        QuitLoop, LogQuit
  <2>2. QED
    BY <1>1, <2>1 DEF JoinedGone
<1>4. QED
  BY <1>2, <1>3

LEMMA QuitLastNext ==
    ASSUME StackOK, Pool!TypeOK, FirstCall, QuitLast, [Next]_vars
    PROVE  QuitLast'
<1>1. /\ WebGone => WebGone'
      /\ manage = "exited" => manage' = "exited"
      /\ Pool!WorkersEnded => Pool!WorkersEnded'
  BY GoneForGood
<1>2. CASE quit /\ sig = << >>
  BY <1>1, <1>2 DEF QuitLast
<1>3. CASE LogQuit
  <2>1. SUFFICES ASSUME sig' = << >> PROVE QuitLast'
    BY DEF QuitLast
  <2>2. sig # << >> /\ sig[Len(sig)] = "log_quit" /\ sig' = Front(sig)
    BY <1>3 DEF LogQuit, Logged, At
  <2>3. Len(sig) = 1
    BY <2>1, <2>2, OneOrTwo, FrontStack DEF StackOK
  <2>4. WebGone /\ manage = "exited" /\ Pool!WorkersEnded
    BY <2>2, <2>3 DEF FirstCall
  <2>5. QED
    BY <1>1, <2>4 DEF QuitLast
<1>4. CASE Advances \/ QuitLoop
  <2>1. sig # << >> /\ (sig' = sig \/ \E from, to \in Places : At(from) /\ Goto(to))
    <3>1. CASE Advances
      BY <3>1, AdvancesStack DEF At
    <3>2. CASE QuitLoop
      <4>1. At("quit") /\ (sig' = sig \/ Goto("log_quit"))
        BY <3>2 DEF QuitLoop
      <4>2. QED
        BY <4>1, Zenon DEF At, Places
    <3>3. QED
      BY <1>4, <3>1, <3>2
  <2>2. sig' # << >>
    BY <2>1, GotoStack DEF StackOK
  <2>3. QED
    BY <2>2 DEF QuitLast
<1>5. CASE SignalAgain
  <2>1. sig \in Seq(Places) /\ "join_web" \in Places
    BY DEF StackOK, Places
  <2>2. sig' # << >>
    BY <1>5, <2>1 DEF SignalAgain
  <2>3. QED
    BY <2>2 DEF QuitLast
<1>6. CASE Signal
  BY <1>6 DEF Signal, QuitLast
<1>7. CASE Control!StartLoop /\ ~quit'
  BY <1>7 DEF QuitLast
<1>8. ASSUME \/ UNCHANGED vars \/ WebThread \/ ManageThread \/ JoinDies
             \/ \E r \in Control!Request : WebAccept(r)
             \/ Boot \/ Configure \/ \E due \in SUBSET timers : LoopPoll(due)
             \/ \E t \in expired : FireTask(t) \/ FireNothing(t)
             \/ EnterRun \/ FireDone \/ LoopTurn \/ LoopExit
             \/ \E w \in Workers : WorkerThread(w) \/ TaskThrows(w)
      PROVE  UNCHANGED <<sig, quit>>
  BY <1>8 DEF vars, handlerVars, mainVars, WebThread, WebListen, WebBindFails, WebExit, WebAccept,
     ManageThread, ManageTest, ManageTake, ManageTimeout, ManageHandle, ManageDies,
     Boot, Configure, LoopPoll, FireTask, FireNothing, EnterRun, FireDone, LoopTurn,
     LoopExit, WorkerThread, TaskThrows, JoinDies
<1>9. UNCHANGED <<sig, quit>> => QuitLast'
  BY <1>1 DEF QuitLast
<1>10. QED
  BY <1>3, <1>4, <1>5, <1>6, <1>7, <1>8, <1>9
  DEF Next, MainThread, Handler, StartLoop, Advances

-----------------------------------------------------------------------------
(* What brings the process down.  The first call of StopServer has joined  *)
(* nobody it has yet to join, and no other call has as long as there was   *)
(* one signal; before booting is over there is no loop.                    *)
FirstPass == signals <= 1 =>
    /\ signals = 0 => joined = {}
    /\ sig # << >> => /\ sig[1] = "join_web" => "web" \notin joined
                      /\ sig[1] \in {"join_web", "log_web", "join_manage"} =>
                             "manage" \notin joined
                      /\ sig[1] \notin {"quit", "log_quit"} => "pool" \notin joined
DownInv == /\ FirstPass
           /\ process = "booting" => stage = "starting"
           /\ Pool!TaskThrew => process = "died"
           /\ KnownDeaths

LEMMA FirstPassNext ==
    ASSUME StackOK, ProcessOK, FirstPass, [Next]_vars
    PROVE  FirstPass'
<1> SUFFICES ASSUME signals' <= 1 PROVE FirstPass'
  BY DEF FirstPass
<1>1. signals \in Nat /\ signals' \in {signals, signals + 1}
  BY SignalsAssumption, ElsewhereStack, AdvancesStack
  DEF ProcessOK, Next, Handler, Advances, Elsewhere, handlerVars, Signal, SignalAgain,
      QuitLoop, LogQuit
<1>2. signals <= 1
  BY <1>1
<1>3. sig # << >> => Len(sig) = 1 /\ signals = 1
  <2>1. Len(sig) \in Nat /\ (sig # << >> => Len(sig) = 1 \/ Len(sig) = 2)
    BY OneOrTwo DEF StackOK
  <2>2. ASSUME NEW l \in Nat, l <= signals, l = 1 \/ l = 2
        PROVE  l = 1 /\ signals = 1
    BY <1>1, <1>2, <2>2
  <2>3. QED
    BY <2>1, <2>2 DEF StackOK
<1>4. CASE Signal
  <2>1. /\ signals = 0 /\ sig' = <<"join_web">> /\ joined' = joined /\ signals' = signals + 1
    BY <1>1, <1>4 DEF Signal
  <2>2. joined' = {} /\ signals' # 0
    BY <1>1, <1>2, <2>1 DEF FirstPass
  <2>3. QED
    BY <2>2 DEF FirstPass
<1>5. ~SignalAgain
  <2>1. SignalAgain => sig # << >> /\ signals' = signals + 1
    BY DEF SignalAgain, StackOK
  <2>2. QED
    BY <1>1, <1>3, <2>1
<1>6. ASSUME NEW from \in Places, NEW to \in Places, At(from), Goto(to)
      PROVE  Len(sig) = 1 /\ sig[1] = from /\ sig'[1] = to /\ signals = 1
  BY <1>3, <1>6, GotoStack DEF StackOK
<1>7. CASE JoinWeb
  <2>1. sig # << >> /\ sig[1] = "join_web" /\ sig'[1] = "log_web" /\ signals = 1
    BY <1>3, <1>6, <1>7 DEF JoinWeb, Places, At
  <2>2. joined' \subseteq joined \cup {"web"} /\ signals' = signals
    BY <1>7 DEF JoinWeb, Join
  <2>3. QED
    BY <1>2, <2>1, <2>2 DEF FirstPass
<1>8. CASE LogWeb
  <2>1. sig # << >> /\ sig[1] = "log_web" /\ sig'[1] = "join_manage" /\ signals = 1
    BY <1>3, <1>6, <1>8 DEF LogWeb, Logged, Places, At
  <2>2. joined' = joined /\ signals' = signals
    BY <1>8 DEF LogWeb
  <2>3. QED
    BY <1>2, <2>1, <2>2 DEF FirstPass
<1>9. CASE JoinManage
  <2>1. sig # << >> /\ sig[1] = "join_manage" /\ sig'[1] = "log_manage" /\ signals = 1
    BY <1>3, <1>6, <1>9 DEF JoinManage, Places, At
  <2>2. joined' \subseteq joined \cup {"manage"} /\ signals' = signals
    BY <1>9 DEF JoinManage, Join
  <2>3. QED
    BY <1>2, <2>1, <2>2 DEF FirstPass
<1>10. CASE LogManage
  <2>1. sig # << >> /\ sig[1] = "log_manage" /\ sig'[1] = "pool_lock" /\ signals = 1
    BY <1>3, <1>6, <1>10 DEF LogManage, Logged, Places, At
  <2>2. joined' = joined /\ signals' = signals
    BY <1>10 DEF LogManage
  <2>3. QED
    BY <1>2, <2>1, <2>2 DEF FirstPass
<1>11. CASE StopPool
  <2>1. sig # << >> /\ sig[1] = "pool_lock" /\ sig'[1] = "pool_join" /\ signals = 1
    BY <1>3, <1>6, <1>11 DEF StopPool, Places, At
  <2>2. joined' = joined /\ signals' = signals
    BY <1>11 DEF StopPool
  <2>3. QED
    BY <1>2, <2>1, <2>2 DEF FirstPass
<1>12. CASE JoinPool
  <2>1. sig # << >> /\ sig[1] = "pool_join" /\ sig'[1] = "quit" /\ signals = 1
    BY <1>3, <1>6, <1>12 DEF JoinPool, Places, At
  <2>2. joined' \subseteq joined \cup {"pool"} /\ signals' = signals
    BY <1>12 DEF JoinPool, Join
  <2>3. QED
    BY <1>2, <2>1, <2>2 DEF FirstPass
<1>13. CASE QuitLoop
  <2>1. joined' = joined /\ signals' = signals
    BY <1>13 DEF QuitLoop
  <2>2. CASE sig' = sig
    BY <1>2, <2>1, <2>2 DEF FirstPass
  <2>3. CASE Goto("log_quit")
    <3>1. sig # << >> /\ sig'[1] = "log_quit" /\ signals = 1
      BY <1>3, <1>6, <1>13, <2>3 DEF QuitLoop, Places, At
    <3>2. QED
      BY <2>1, <3>1 DEF FirstPass
  <2>4. QED
    BY <1>13, <2>2, <2>3 DEF QuitLoop
<1>14. CASE LogQuit
  <2>1. sig # << >> /\ sig' = Front(sig) /\ joined' = joined /\ signals' = signals
    BY <1>14 DEF LogQuit, Logged, At
  <2>2. sig' = << >>
    BY <1>3, <2>1, FrontStack DEF StackOK
  <2>3. QED
    BY <1>2, <1>3, <2>1, <2>2 DEF FirstPass
<1>15. CASE Elsewhere
  BY <1>15, ElsewhereStack DEF handlerVars, FirstPass
<1>16. QED
  BY <1>4, <1>5, <1>7, <1>8, <1>9, <1>10, <1>11, <1>12, <1>13, <1>14, <1>15
  DEF Next, Handler, Elsewhere

(* A task throws in a step that brings the process down, and never else.   *)
LEMMA ThrewNext ==
    ASSUME Pool!TypeOK, [Next]_vars
    PROVE  /\ Throws => Pool!TaskThrew' /\ process' = "died"
           /\ ~Throws => (Pool!TaskThrew' => Pool!TaskThrew)
<1>1. ASSUME Throws PROVE Pool!TaskThrew' /\ process' = "died"
  <2>1. PICK w \in Workers : TaskThrows(w)
    BY <1>1 DEF Throws
  <2>2. worker'[w] = "threw"
    BY <2>1 DEF TaskThrows, Pool!TaskThrows, Pool!TypeOK
  <2>3. QED
    BY <2>1, <2>2 DEF TaskThrows, Pool!TaskThrew
<1>2. ASSUME ~Throws PROVE Pool!TaskThrew' => Pool!TaskThrew
  <2>1. ASSUME UNCHANGED worker PROVE Pool!TaskThrew' => Pool!TaskThrew
    BY <2>1 DEF Pool!TaskThrew
  <2>2. ASSUME NEW ws, Pool!Wake(ws) PROVE Pool!TaskThrew' => Pool!TaskThrew
    BY <2>2 DEF Pool!Wake, Pool!TaskThrew
  <2>3. ASSUME NEW w \in Workers, Pool!WorkerStep(w) PROVE Pool!TaskThrew' => Pool!TaskThrew
    BY <2>3 DEF Pool!WorkerStep, Pool!Loop, Pool!TakeSleep, Pool!TakeTask, Pool!TakeNothing,
                Pool!TaskDone, Pool!TypeOK, Pool!TaskThrew
  <2>4. [PoolNext]_poolVars
    BY <1>2, PoolStep
  <2>5. QED
    BY <2>1, <2>2, <2>3, <2>4
    DEF PoolNext, poolVars, Pool!RunCall, Pool!RunLock, Pool!RunWait, Pool!RunPush,
        Pool!NotEmptyNotify, EndPool, Pool!EndWorkers, Pool!NotEmptyNotifyAll
<1>3. QED
  BY <1>1, <1>2

LEMMA DownNext ==
    ASSUME StackOK, ProcessOK, Pool!TypeOK, DownInv, [Next]_vars
    PROVE  DownInv'
<1>1. FirstPass'
  BY FirstPassNext DEF DownInv
<1>2. signals \in Nat /\ (sig # << >> => Len(sig) \in Nat /\ Len(sig) <= signals)
  BY SignalsAssumption DEF StackOK, ProcessOK
<1>3. Pool!TaskThrew' => process' = "died"
  <2>1. CASE process = "died"
    BY <2>1, DeadStays DEF vars, mainVars
  <2>2. QED
    BY <2>1, ThrewNext DEF DownInv
<1>4. CASE Throws
  BY <1>1, <1>4, ThrewNext DEF DownInv, KnownDeaths
<1>5. CASE ManageDies
  BY <1>1, <1>3, <1>5 DEF DownInv, KnownDeaths, ManageDies, Control!StartWithoutLoop
<1>6. CASE JoinDies
  <2>1. /\ process' = "died" /\ UNCHANGED <<stage, signals, web>>
        /\ process \in {"booting", "up"}
    BY <1>6 DEF JoinDies, controlVars, handlerVars, webVars, Up
  <2>2. CASE process = "booting"
    BY <1>1, <2>1, <2>2 DEF DownInv, KnownDeaths
  <2>3. CASE process = "up"
    <3>1. \/ At("join_web") /\ ("web" \in joined \/ web = "detached")
          \/ At("join_manage") /\ "manage" \in joined
          \/ At("pool_join") /\ ("pool" \in joined \/ InterruptedAt("pool_join"))
      BY <1>6, <2>3 DEF JoinDies
    <3>2. sig # << >>
      BY <3>1 DEF At
    <3>3. CASE Len(sig) = 2
      BY <1>1, <1>2, <2>1, <3>2, <3>3 DEF DownInv, KnownDeaths
    <3>4. CASE Len(sig) = 1
      <4>1. CASE web = "detached"
        <5>1. signals > 0
          BY <1>2, <3>2, <3>4
        <5>2. QED
          BY <1>1, <2>1, <4>1, <5>1 DEF DownInv, KnownDeaths
      <4>2. CASE web # "detached"
        <5>1. ~(signals <= 1)
          BY <3>1, <3>2, <3>4, <4>2 DEF At, InterruptedAt, DownInv, FirstPass
        <5>2. QED
          BY <1>1, <1>2, <2>1, <5>1 DEF DownInv, KnownDeaths
      <4>3. QED
        BY <4>1, <4>2
    <3>5. QED
      BY <3>2, <3>3, <3>4, OneOrTwo DEF StackOK
  <2>4. QED
    BY <2>1, <2>2, <2>3
<1>7. CASE QuitLoop
  <2>1. /\ stage' = stage /\ process = "up"
        /\ (stage = "starting" /\ process' = "died") \/ process' = process
    BY <1>7 DEF QuitLoop, controlVars, Up
  <2>2. QED
    BY <1>1, <1>3, <2>1 DEF DownInv, KnownDeaths
<1>8. CASE Signal \/ SignalAgain
  <2>1. stage' = stage /\ process' = process /\ process # "died"
    BY <1>8 DEF Signal, SignalAgain, controlVars, mainVars, Up
  <2>2. QED
    BY <1>1, <1>3, <2>1 DEF DownInv, KnownDeaths
<1>9. CASE MainThread
  <2>1. process' # "died" /\ process' # "booting"
    BY <1>9 DEF MainThread, Boot, Configure, StartLoop, LoopPoll, FireTask, FireNothing,
       EnterRun, FireDone, LoopTurn, LoopExit, MainRuns, Up, mainVars
  <2>2. QED
    BY <1>1, <1>3, <2>1 DEF DownInv, KnownDeaths
<1>10. CASE UNCHANGED vars
  BY <1>1, <1>10 DEF vars, controlVars, poolVars, webVars, handlerVars, mainVars,
                     DownInv, KnownDeaths, Pool!TaskThrew
<1>11. ASSUME \/ WebThread \/ \E r \in Control!Request : WebAccept(r)
              \/ ManageTest \/ ManageTake \/ ManageTimeout \/ ManageHandle
              \/ \E w \in Workers : WorkerThread(w)
              \/ Advances \/ LogQuit
       PROVE  process' = "up"
  BY <1>11 DEF WebThread, WebListen, WebBindFails, WebExit, WebAccept, ManageTest, ManageTake,
     ManageTimeout, ManageHandle, WorkerThread, Advances, LogQuit, Logged, JoinWeb, LogWeb,
     JoinManage, LogManage, StopPool, JoinPool, Up, mainVars
<1>12. process' = "up" => DownInv'
  BY <1>1, <1>3 DEF DownInv, KnownDeaths
<1>13. QED
  BY <1>4, <1>5, <1>6, <1>7, <1>8, <1>9, <1>10, <1>11, <1>12
  DEF Next, ManageThread, Handler, Advances, Throws

-----------------------------------------------------------------------------
Inv == ComponentsInv /\ ProcessOK /\ StackOK /\ QuitInv /\ DownInv

LEMMA InitInv == Init => Inv
<1> SUFFICES ASSUME Init PROVE Inv
  OBVIOUS
<1>1. ProcessOK
  <2>1. quit \in BOOLEAN /\ eintr \in BOOLEAN /\ manageFlag \in BOOLEAN
    BY DEF Init
  <2>2. signals \in 0 .. MaxSignals
    BY SignalsAssumption DEF Init
  <2>3. QED
    BY <2>1, <2>2 DEF Init, ProcessOK
<1>2. StackOK
  BY DEF Init, StackOK
<1>3. QuitInv
  BY DEF Init, QuitInv, JoinedGone, FirstCall, QuitLast
<1>4. DownInv
  BY DEF Init, DownInv, FirstPass, KnownDeaths, Control!Init, Pool!Init, Pool!TaskThrew
<1>5. QED
  BY <1>1, <1>2, <1>3, <1>4, ComponentsInit DEF Inv

LEMMA NextInv == Inv /\ [Next]_vars => Inv'
<1> SUFFICES ASSUME Inv, [Next]_vars PROVE Inv'
  OBVIOUS
<1> USE DEF Inv
<1>1. Control!TypeOK /\ Pool!TypeOK /\ signals \in Nat
  BY TypesAgree, SignalsAssumption DEF ComponentsInv, ProcessOK
<1>2. ComponentsInv'
  BY ComponentsNext
<1>3. ProcessOK' /\ StackOK'
  BY <1>1, ProcessNext, StackNext
<1>4. QuitInv'
  BY <1>1, FirstCallNext, JoinedNext, QuitLastNext DEF QuitInv
<1>5. DownInv'
  BY <1>1, DownNext
<1>6. QED
  BY <1>2, <1>3, <1>4, <1>5

LEMMA InvAlways == Spec => []Inv
  BY InitInv, NextInv, PTL DEF Spec

(* Every variable of the process keeps its type, those of the control path *)
(* and of the pool included, wherever signals find the main thread; the    *)
(* stack of StopServer's calls is never deeper than two                    *)
(* (pollServer.cpp:185-234, 293-365).                                      *)
THEOREM TypeCorrect == Spec => []TypeOK
<1>1. Inv => TypeOK
  BY TypesAgree DEF Inv, ComponentsInv, ProcessOK, StackOK, Places, TypeOK
<1>2. QED
  BY InvAlways, <1>1, PTL

(* When the main thread runs on with the loop told to quit, the web thread,*)
(* the manage thread and all workers are gone, for any number of workers   *)
(* and signals, nested or in a row (pollServer.cpp:185-234).               *)
THEOREM NobodyLeftAtQuit == Spec => []LoopQuitLast
<1>1. Inv => LoopQuitLast
  BY DEF Inv, QuitInv, QuitLast, WebGone, LoopQuitLast, MainRuns
<1>2. QED
  BY InvAlways, <1>1, PTL

(* Once the event loop exists the process dies of nothing but a task that  *)
(* throws, a second signal, or a stop that joins a web thread which could  *)
(* not bind: no START does it, and no first stop with a web thread that    *)
(* listened, wherever it finds main and however far manage and workers     *)
(* are, for any number of requests, workers and signals                    *)
(* (PollBroadcastRoom.cpp:48, pollServer.cpp:112, 185-234,                 *)
(* webserver.cpp:185, 205).                                                *)
THEOREM DeathsKnown == Spec => []KnownDeaths
<1>1. Inv => KnownDeaths
  BY DEF Inv, DownInv
<1>2. QED
  BY InvAlways, <1>1, PTL

(* For the control path every step of the process is one PollControl       *)
(* allows, with the threads, the pool's back-pressure and StopServer around*)
(* it (pollServer.cpp:17-31, 91-156, 293-365; Http/webserver.cpp:60-130).  *)
THEOREM ControlImplemented == Spec => ImplementsControl
<1>1. Init => Control!Init
  BY DEF Init
<1>2. Inv /\ [Next]_vars => [Control!Next]_controlVars
  BY ControlStep DEF Inv, ComponentsInv
<1>3. QED
  BY <1>1, <1>2, InvAlways, PTL DEF Spec, ImplementsControl

(* What was proved of the control path alone holds of it in the process,   *)
(* pool.run() and StopServer included: one web timer per type, every       *)
(* cancellation finds its timer, quiet agreement, and the timers of        *)
(* poll.conf are kept (pollServer.cpp:17-31, 91-156).                      *)
THEOREM ControlStaysSafe ==
    Spec => [](/\ Control!OneTimerPerType /\ Control!CancelFindsTimer
               /\ Control!QuietAgreement /\ Control!ConfTimersKept)
<1> DEFINE Safe == /\ Control!OneTimerPerType /\ Control!CancelFindsTimer
                   /\ Control!QuietAgreement /\ Control!ConfTimersKept
<1>1. ControlProofs!Inv => ControlProofs!CancelFindsTimer
  BY ControlConstants, ControlProofs!CancelSound
<1>2. ControlProofs!Inv => ControlProofs!QuietAgreement
  BY ControlConstants, ControlProofs!QuietSound
<1>3. ControlProofs!Inv => ControlProofs!OneTimerPerType /\ ControlProofs!ConfTimersKept
  BY DEF ControlProofs!Inv, ControlProofs!Structure
<1>4. /\ Control!OneTimerPerType <=> ControlProofs!OneTimerPerType
      /\ Control!CancelFindsTimer <=> ControlProofs!CancelFindsTimer
      /\ Control!QuietAgreement <=> ControlProofs!QuietAgreement
      /\ Control!ConfTimersKept <=> ControlProofs!ConfTimersKept
  BY DEF Control!OneTimerPerType, ControlProofs!OneTimerPerType,
         Control!CancelFindsTimer, ControlProofs!CancelFindsTimer,
         Control!QuietAgreement, ControlProofs!QuietAgreement,
         Control!ConfTimersKept, ControlProofs!ConfTimersKept,
         Control!WebTimers, ControlProofs!WebTimers
<1>5. Inv => Safe
  BY <1>1, <1>2, <1>3, <1>4 DEF Inv, ComponentsInv
<1>6. QED
  BY <1>5, InvAlways, PTL

(* In the process, too, a timer fires at most once more after its STOP, be *)
(* it while pool.run() waits for room (pollServer.cpp:60-89, 127-137).     *)
THEOREM LateFireStaysOnce == Spec => Control!LateFireAtMostOnce
<1> DEFINE LateInv == ControlProofs!LateInv
<1>1. Init => LateInv
  BY SameControl, ControlConstants, ControlProofs!InitLateInv DEF Init
<1>2. Inv /\ Inv' /\ LateInv /\ [Next]_vars =>
          LateInv' /\ [(expired \ expired') \intersect late = {}]_(Control!vars)
  <2> SUFFICES ASSUME Inv, Inv', LateInv, [Next]_vars
               PROVE  LateInv' /\ [(expired \ expired') \intersect late = {}]_(Control!vars)
    OBVIOUS
  <2>1. ControlProofs!Inv /\ ControlProofs!Inv' /\ CrashEnds
    BY DEF Inv, ComponentsInv
  <2>2. [ControlProofs!Next]_(ControlProofs!vars)
    BY <2>1, SameControl, ControlStep
  <2>3. LateInv'
    BY <2>1, <2>2, ControlConstants, ControlProofs!NextLateInv
  <2>4. (expired \ expired') \intersect late = {}
    BY <2>1, <2>2, ControlConstants, ControlProofs!LateSound
  <2>5. QED
    BY <2>3, <2>4
<1>3. QED
  BY <1>1, <1>2, InvAlways, PTL DEF Spec, Control!LateFireAtMostOnce

(* The pool loses no wake-up in the process either, where StopServer may   *)
(* go through pool.stop() more than once: no worker sleeps while there are *)
(* more tasks than workers on their way to them, and the loop thread waits *)
(* in pool.run() only while the queue is full (pollServer.cpp:69, 82, 206).*)
THEOREM PoolStaysSafe == Spec => [](Pool!WorkConserving /\ Pool!BlockedOnlyWhenFull)
<1>1. Pool!BlockedOnlyWhenFull <=> PoolProofs!BlockedOnlyWhenFull
  BY DEF Pool!BlockedOnlyWhenFull, PoolProofs!BlockedOnlyWhenFull, Pool!IsFull, PoolProofs!IsFull
<1>2. Pool!WorkConserving <=> PoolProofs!WorkConserving
  BY DEF Pool!WorkConserving, PoolProofs!WorkConserving, Pool!Asleep, PoolProofs!Asleep,
         Pool!OnTheWay, PoolProofs!OnTheWay, Pool!Cardinality, PoolProofs!Cardinality
<1>3. Inv => Pool!WorkConserving /\ Pool!BlockedOnlyWhenFull
  BY <1>1, <1>2 DEF Inv, ComponentsInv, PoolProofs!Inv
<1>4. QED
  BY <1>3, InvAlways, PTL

(* To its clients the whole process is the polling service: what the web   *)
(* asks for takes effect in order, and each decision changes what is polled*)
(* (pollServer.cpp:91-156).                                                *)
THEOREM ServiceImplemented ==
    Spec => Control!Service!Init /\ [][Control!Service!Next]_(Control!Service!vars)
<1>1. /\ Control!Service!Init <=> ControlProofs!Service!Init
      /\ Control!Service!Next <=> ControlProofs!Service!Next
      /\ UNCHANGED Control!Service!vars <=> UNCHANGED ControlProofs!Service!vars
  BY DEF Control!Service!Init, ControlProofs!Service!Init,
         Control!Service!Next, ControlProofs!Service!Next,
         Control!Service!vars, ControlProofs!Service!vars,
         Control!Service!Accept, ControlProofs!Service!Accept,
         Control!Service!Request, ControlProofs!Service!Request,
         Control!Service!Handle, ControlProofs!Service!Handle,
         Control!Service!Decide, ControlProofs!Service!Decide,
         Control!Service!Redundant, ControlProofs!Service!Redundant,
         Control!Service!Settle, ControlProofs!Service!Settle,
         Control!Requests, ControlProofs!Requests, Control!Decided, ControlProofs!Decided,
         Control!Decision, ControlProofs!Decision, Control!TypesOf, ControlProofs!TypesOf,
         Control!WebTimers, ControlProofs!WebTimers
<1>2. Init => Control!Service!Init
  BY <1>1, ControlConstants, SameControl, ControlProofs!ServiceInit DEF Init
<1>3. Inv /\ [Next]_vars => [Control!Service!Next]_(Control!Service!vars)
  BY <1>1, ControlConstants, SameControl, ControlStep, ControlProofs!ServiceStep
  DEF Inv, ComponentsInv
<1>4. QED
  BY <1>2, <1>3, InvAlways, PTL DEF Spec
=============================================================================
