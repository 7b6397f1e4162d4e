----------------------------- MODULE PollServer -----------------------------
(***************************************************************************)
(* The whole server process (pollServer.cpp, Http/webserver.cpp): the      *)
(* control path (PollControl) and the worker pool (WorkerPool) on their    *)
(* threads, with start-up and with the signal handler StopServer, which    *)
(* suspends the main thread wherever a signal finds it, and may itself be  *)
(* suspended by the other signal.                                          *)
(*                                                                         *)
(* The main thread runs main(), then the event loop, the timer callbacks   *)
(* in it and pool.run() in those; the web thread accepts requests; the     *)
(* manage thread handles them; the workers run the tasks.                  *)
(***************************************************************************)
EXTENDS Naturals, SequencesExt, FiniteSets

CONSTANTS Types, PollStates, ConfEvents, MaxRequests,   \* see PollControl
          Workers, MaxQueue,                            \* see WorkerPool
          PoolTypes,     \* the types handleEvent has a task for
          Throwing,      \* those whose task an exception may leave
          SignalWindows, \* where a signal may find the main thread
          MaxSignals,    \* bound: signals in one behaviour
          MaxEvents,     \* bound: requests and signals in one behaviour
          NULL

VARIABLES functors, batch, timers, expired, phase,                   \* EventLoop
          stage, configured, g_commList, param, timer_commList,      \* PollControl
          timer_confList, created, accepted, late,
          queue, running, held, caller, arg, worker, stop,           \* WorkerPool
          process,       \* "booting", "up", "ended" or "died"
          web,           \* the web thread
          httpSev_flag,
          manage,        \* the manage thread
          manageFlag,
          firing,        \* the timer whose callback is in pool.run, or NULL
          quit,          \* EventLoop::quit_
          sig,           \* the calls of StopServer on the main thread's stack,
                         \* each with its next statement, the running one last
          joined,        \* threads whose pthread_join has returned
          signals,       \* signals so far (bounds a run)
          found,         \* where the last signal found the main thread
          inLibrary,     \* did a signal find it in a library call that holds a
                         \* lock LOG needs, glog's ("log") or the heap's ("malloc")?
          eintr          \* epoll_wait is about to return EINTR

Control == INSTANCE PollControl
Pool == INSTANCE WorkerPool WITH Tasks <- PoolTypes,
                                 StopWindows <- {"idle", "enter", "locked", "full"}

(* What PollControl and WorkerPool assume of their constants, and that NULL*)
(* is no value of anything that may be NULL.                               *)
ASSUME ControlAssumption == /\ {"START", "STOP"} \subseteq PollStates
                            /\ ConfEvents \in Seq([type : Types, interval : Nat])
                            /\ MaxRequests \in Nat
ASSUME PoolAssumption == /\ Workers # {} /\ IsFiniteSet(Workers)
                         /\ MaxQueue \in Nat \ {0} /\ Throwing \subseteq PoolTypes
ASSUME SignalsAssumption == MaxSignals \in Nat /\ MaxEvents \in Nat
ASSUME NullAssumption == NULL \notin Control!Request \union Control!Timer \union PoolTypes

controlVars == <<functors, batch, timers, expired, phase, stage, configured,
                 g_commList, param, timer_commList, timer_confList, created,
                 accepted, late>>
poolVars == <<queue, running, held, caller, arg, worker, stop>>
webVars == <<web, httpSev_flag>>
manageVars == <<manage, manageFlag>>
handlerVars == <<sig, joined, signals, found, inLibrary>>
mainVars == <<process, firing, quit, eintr>>
vars == <<controlVars, poolVars, webVars, manageVars, handlerVars, mainVars>>

Init == /\ Control!Init
        /\ Pool!Init
        /\ process = "booting"
        /\ web = "starting"
        /\ httpSev_flag = 1
        /\ manage = "test"
        /\ manageFlag = TRUE
        /\ firing = NULL
        /\ quit = FALSE
        /\ sig = << >>
        /\ joined = {}
        /\ signals = 0
        /\ found = "none"
        /\ inLibrary = "no"
        /\ eintr = FALSE

Up == process = "up"
MainRuns == Up /\ sig = << >>

(* The handler suspends the main thread inside doPendingFunctors' lock.    *)
LoopHeld == found = "swap" /\ ~MainRuns

MoreEvents == accepted + signals < MaxEvents

(* The main thread, suspended in a LOG, does not hold glog's mutex: another*)
(* thread gets past a LOG of its own.                                      *)
CanLog == inLibrary # "log"

-----------------------------------------------------------------------------
(* The web thread: httpServer_fun and ev_handler.                          *)
WebListen ==
    /\ Up /\ web = "starting" /\ CanLog
    /\ web' = "running"
    /\ UNCHANGED <<controlVars, poolVars, httpSev_flag, manageVars, handlerVars, mainVars>>

(* mg_bind fails: the thread detaches itself and ends; main goes on.       *)
WebBindFails ==
    /\ Up /\ web = "starting" /\ CanLog
    /\ web' = "detached"
    /\ httpSev_flag' = 0
    /\ UNCHANGED <<controlVars, poolVars, manageVars, handlerVars, mainVars>>

(* One more mg_mgr_poll can accept requests after the flag was cleared.    *)
WebAccept(r) ==
    /\ Up /\ web = "running" /\ CanLog /\ MoreEvents
    /\ Control!Accept(r)
    /\ UNCHANGED <<poolVars, webVars, manageVars, handlerVars, mainVars>>

WebExit ==
    /\ Up /\ web = "running"
    /\ httpSev_flag = 0
    /\ web' = "exited"
    /\ UNCHANGED <<controlVars, poolVars, httpSev_flag, manageVars, handlerVars, mainVars>>

WebThread == WebListen \/ WebBindFails \/ WebExit

-----------------------------------------------------------------------------
(* Seeded faults: a definition whose name ends in "Fault" is a plausible   *)
(* slip in the definition that follows it; it is not part of Next, and     *)
(* PROJECT.json names the property that notices it.                        *)
ManageTestFault ==                     \* while(true)
    /\ Up /\ manage = "test"
    /\ manage' = "pop"
    /\ UNCHANGED <<controlVars, poolVars, webVars, manageFlag, handlerVars, mainVars>>

(* The manage thread: the loop of manage_fun around PollControl's actions. *)
ManageTest ==
    /\ Up /\ manage = "test"
    /\ manage' = IF manageFlag THEN "pop" ELSE "exited"
    /\ UNCHANGED <<controlVars, poolVars, webVars, manageFlag, handlerVars, mainVars>>

ManageTake ==
    /\ Up /\ manage = "pop"
    /\ Control!Take
    /\ manage' = "handle"
    /\ UNCHANGED <<poolVars, webVars, manageFlag, handlerVars, mainVars>>

ManageTimeoutFault ==                  \* drops what has arrived meanwhile
    /\ Up /\ manage = "pop"
    /\ manage' = "test"
    /\ g_commList' = << >>
    /\ UNCHANGED <<functors, batch, timers, expired, phase, stage, configured, param,
                   timer_commList, timer_confList, created, accepted, late, poolVars,
                   webVars, manageFlag, handlerVars, mainVars>>

(* popLockList gives up after three seconds.                               *)
ManageTimeout ==
    /\ Up /\ manage = "pop"
    /\ manage' = "test"
    /\ UNCHANGED <<controlVars, poolVars, webVars, manageFlag, handlerVars, mainVars>>

(* runEvery and cancel lock the loop's mutex_ to queue their functor.      *)
ManageHandle ==
    /\ Up /\ manage = "handle" /\ CanLog
    /\ \/ ~LoopHeld /\ (Control!StartPolling \/ Control!StopPolling)
       \/ Control!IgnoreParam
    /\ manage' = "test"
    /\ UNCHANGED <<poolVars, webVars, manageFlag, handlerVars, mainVars>>

(* g_loop is NULL: the process dies of it.                                 *)
ManageDies ==
    /\ Up /\ manage = "handle" /\ CanLog
    /\ Control!StartWithoutLoop
    /\ process' = "died"
    /\ UNCHANGED <<poolVars, webVars, manageVars, handlerVars, firing, quit, eintr>>

ManageThread == ManageTest \/ ManageTake \/ ManageTimeout \/ ManageHandle \/ ManageDies

-----------------------------------------------------------------------------
(* The main thread.  Booting ends when pool, manage and web threads exist. *)
Boot ==
    /\ process = "booting" /\ sig = << >>
    /\ process' = "up"
    /\ UNCHANGED <<controlVars, poolVars, webVars, manageVars, handlerVars, firing, quit, eintr>>

Configure ==
    /\ MainRuns
    /\ Control!CreateLoop \/ Control!AddPollEvent
    /\ UNCHANGED <<poolVars, webVars, manageVars, handlerVars, mainVars>>

(* loop() begins by clearing quit_.                                        *)
StartLoop ==
    /\ MainRuns
    /\ Control!StartLoop
    /\ quit' = FALSE
    /\ UNCHANGED <<poolVars, webVars, manageVars, handlerVars, process, firing, eintr>>

(* epoll_wait that a signal interrupts reports nothing.                    *)
LoopPoll(due) ==
    /\ MainRuns
    /\ eintr => due = {}
    /\ Control!LoopPoll(due)
    /\ eintr' = FALSE
    /\ UNCHANGED <<poolVars, webVars, manageVars, handlerVars, process, firing, quit>>

(* handleEvent of a type that has a task calls pool.run ...                *)
FireTask(t) ==
    /\ MainRuns /\ firing = NULL
    /\ phase = "callbacks" /\ t \in expired /\ t.type \in PoolTypes
    /\ Pool!RunCall(t.type)
    /\ firing' = t
    /\ UNCHANGED <<controlVars, webVars, manageVars, handlerVars, process, quit, eintr>>

EnterRun ==
    /\ MainRuns
    /\ Pool!RunLock \/ Pool!RunWait
    /\ UNCHANGED <<controlVars, webVars, manageVars, handlerVars, mainVars>>

(* ... and is done when the task is in the queue.                          *)
FireDone ==
    /\ MainRuns
    /\ Pool!RunPush
    /\ Control!HandleEvent(firing)
    /\ firing' = NULL
    /\ UNCHANGED <<webVars, manageVars, handlerVars, process, quit, eintr>>

(* The other types only leave a line on the terminal.                      *)
FireNothing(t) ==
    /\ MainRuns /\ firing = NULL
    /\ t.type \notin PoolTypes
    /\ Control!HandleEvent(t)
    /\ UNCHANGED <<poolVars, webVars, manageVars, handlerVars, mainVars>>

LoopTurn ==
    /\ MainRuns
    /\ Control!LoopTurn
    /\ ~(quit /\ phase' = "poll")
    /\ UNCHANGED <<poolVars, webVars, manageVars, handlerVars, mainVars>>

(* quit_ is tested after the functors; loop() returns, and main with it.   *)
LoopExit ==
    /\ MainRuns
    /\ phase = "functors" /\ batch = 0 /\ quit
    /\ process' = "ended"
    /\ UNCHANGED <<controlVars, poolVars, webVars, manageVars, handlerVars, firing, quit, eintr>>

MainThread == \/ Boot \/ Configure \/ StartLoop
              \/ \E due \in SUBSET timers : LoopPoll(due)
              \/ \E t \in expired : FireTask(t) \/ FireNothing(t)
              \/ EnterRun \/ FireDone \/ LoopTurn \/ LoopExit

(* The workers.  A task begins with a LOG.                                 *)
WorkerThread(w) ==
    /\ Up
    /\ worker[w] \in {"work", "parse"} => CanLog
    /\ Pool!WorkerStep(w)
    /\ UNCHANGED <<controlVars, webVars, manageVars, handlerVars, mainVars>>

TaskThrows(w) ==
    /\ Up /\ CanLog
    /\ Pool!TaskThrows(w)
    /\ process' = "died"
    /\ UNCHANGED <<controlVars, webVars, manageVars, handlerVars, firing, quit, eintr>>

-----------------------------------------------------------------------------
(* Where the main thread is.                                               *)
Place == IF process = "booting" THEN "booting"
         ELSE IF stage # "looping" THEN stage
         ELSE IF firing # NULL THEN caller
         ELSE phase

(* SIGINT or SIGHUP.  StopServer starts with stopWebServer, which clears   *)
(* httpSev_flag.  Four places are finer than Place: blocked in epoll_wait  *)
(* rather than on the way into it, the critical section ("swap") of        *)
(* doPendingFunctors, a LOG of main's own, and a call of new or delete,    *)
(* which are anywhere but where main sleeps.                               *)
Signal ==
    /\ process \in {"booting", "up"} /\ sig = << >> /\ signals < MaxSignals /\ MoreEvents
    /\ found' \in SignalWindows
    /\ \/ found' = Place
       \/ found' = "epoll_wait" /\ Place = "poll"
       \/ found' = "swap" /\ Place = "callbacks" /\ expired = {}
       \/ found' = "log" /\ Place \in {"starting", "configuring"}
       \/ found' = "malloc" /\ Place \notin {"booting", "full"}
    /\ inLibrary' = IF found' \in {"log", "malloc"} THEN found' ELSE "no"
    /\ eintr' = (eintr \/ found' = "epoll_wait")
    /\ httpSev_flag' = 0
    /\ sig' = <<"join_web">>
    /\ signals' = signals + 1
    /\ UNCHANGED <<controlVars, poolVars, web, manageVars, joined, process, firing, quit>>

(* The handler of one signal does not block the other: StopServer is called*)
(* again, on top of a StopServer that waits, or is in a LOG.               *)
SignalAgain ==
    /\ Up /\ Len(sig) = 1 /\ signals < MaxSignals /\ MoreEvents
    /\ sig' = Append(sig, "join_web")
    /\ \/ UNCHANGED inLibrary
       \/ /\ sig[1] \in {"log_web", "log_manage", "log_quit"} /\ inLibrary = "no"
          /\ inLibrary' \in {"log", "malloc"}
    /\ signals' = signals + 1
    /\ UNCHANGED <<controlVars, poolVars, webVars, manageVars, joined, found, mainVars>>

At(place) == sig # << >> /\ sig[Len(sig)] = place
Goto(place) == sig' = [sig EXCEPT ![Len(sig)] = place]
InterruptedAt(place) == Len(sig) = 2 /\ sig[1] = place

(* How pthread_join of a thread that has ended, or has not, comes back:    *)
(* when the thread ends; at once, with EINVAL, if the interrupted call is  *)
(* waiting for it; and, which is undefined, when it was joined before.     *)
Join(thread, ended, place) ==
    \/ ended /\ thread \notin joined /\ joined' = joined \cup {thread}
    \/ InterruptedAt(place) /\ UNCHANGED joined
    \/ thread \in joined /\ UNCHANGED joined

(* pthread_join(httpServer_t), which is undefined for a thread that has    *)
(* detached itself and ended: here it fails, in JoinDies it does not.      *)
JoinWeb ==
    /\ Up /\ At("join_web")
    /\ \/ Join("web", web = "exited", "join_web")
       \/ web = "detached" /\ UNCHANGED joined
    /\ Goto("log_web")
    /\ UNCHANGED <<controlVars, poolVars, webVars, manageVars, signals, found, inLibrary,
                   mainVars>>

(* LOG allocates and takes glog's mutex.  It never returns if the call that*)
(* a signal interrupted, which waits below on the same stack, holds either.*)
Logged(place) == Up /\ At(place) /\ inLibrary = "no"

LogWeb ==
    /\ Logged("log_web")
    /\ manageFlag' = FALSE
    /\ Goto("join_manage")
    /\ UNCHANGED <<controlVars, poolVars, webVars, manage, joined, signals, found, inLibrary,
                   mainVars>>

JoinManageFault ==                     \* without pthread_join
    /\ Up /\ At("join_manage")
    /\ Goto("log_manage")
    /\ UNCHANGED <<controlVars, poolVars, webVars, manageVars, joined, signals, found,
                   inLibrary, mainVars>>

(* pthread_join(manage_t).                                                 *)
JoinManage ==
    /\ Up /\ At("join_manage")
    /\ Join("manage", manage = "exited", "join_manage")
    /\ Goto("log_manage")
    /\ UNCHANGED <<controlVars, poolVars, webVars, manageVars, signals, found, inLibrary,
                   mainVars>>

LogManage ==
    /\ Logged("log_manage")
    /\ Goto("pool_lock")
    /\ UNCHANGED <<controlVars, poolVars, webVars, manageVars, joined, signals, found,
                   inLibrary, mainVars>>

(* pool.stop(): the mutex first, then the threads (muduo's Thread::join    *)
(* around pthread_join).                                                   *)
StopPool ==
    /\ Up /\ At("pool_lock")
    /\ Pool!EndWorkers
    /\ Goto("pool_join")
    /\ UNCHANGED <<controlVars, queue, held, caller, arg, stop, webVars, manageVars, joined,
                   signals, found, inLibrary, mainVars>>

JoinPool ==
    /\ Up /\ At("pool_join")
    /\ Join("pool", Pool!WorkersEnded, "pool_join")
    /\ Goto("quit")
    /\ UNCHANGED <<controlVars, poolVars, webVars, manageVars, signals, found, inLibrary,
                   mainVars>>

(* pthread_join of a thread that does not exist yet, or no longer does, or *)
(* an assertion in Thread::join against joining twice, ends the process.   *)
JoinDies ==
    /\ \/ process = "booting" /\ At("join_web")
       \/ Up /\ At("join_web") /\ ("web" \in joined \/ web = "detached")
       \/ Up /\ At("join_manage") /\ "manage" \in joined
       \/ Up /\ At("pool_join") /\ ("pool" \in joined \/ InterruptedAt("pool_join"))
    /\ process' = "died"
    /\ UNCHANGED <<controlVars, poolVars, webVars, manageVars, handlerVars, firing, quit, eintr>>

(* g_loop->quit(), on a NULL g_loop if the signal came too early.          *)
QuitLoop ==
    /\ Up /\ At("quit")
    /\ IF stage = "starting"
       THEN process' = "died" /\ UNCHANGED <<quit, sig>>
       ELSE quit' = TRUE /\ Goto("log_quit") /\ UNCHANGED process
    /\ UNCHANGED <<controlVars, poolVars, webVars, manageVars, joined, signals, found,
                   inLibrary, firing, eintr>>

(* The deletions before and after it are guarded by if(!object): nothing is*)
(* deleted, and the call returns to what it interrupted.                   *)
LogQuit ==
    /\ Logged("log_quit")
    /\ sig' = Front(sig)
    /\ UNCHANGED <<controlVars, poolVars, webVars, manageVars, joined, signals, found,
                   inLibrary, mainVars>>

Handler == \/ JoinWeb \/ LogWeb \/ JoinManage \/ LogManage
           \/ StopPool \/ JoinPool \/ JoinDies \/ QuitLoop \/ LogQuit

-----------------------------------------------------------------------------
Next == \/ WebThread
        \/ \E r \in Control!Request : WebAccept(r)
        \/ ManageThread
        \/ MainThread
        \/ \E w \in Workers : WorkerThread(w) \/ TaskThrows(w)
        \/ Signal \/ SignalAgain
        \/ Handler

(* No thread is suspended for ever, except by the handler, and every task  *)
(* ends, in one way or the other.  Neither a request nor a signal has to   *)
(* come.                                                                   *)
Fairness == /\ WF_vars(WebThread)
            /\ WF_vars(ManageThread)
            /\ WF_vars(MainThread)
            /\ \A w \in Workers : WF_vars(WorkerThread(w))
            /\ WF_vars(Handler)

Spec == Init /\ [][Next]_vars /\ Fairness

-----------------------------------------------------------------------------
TypeOK ==
    /\ Control!TypeOK
    /\ Pool!TypeOK
    /\ process \in {"booting", "up", "ended", "died"}
    /\ web \in {"starting", "running", "exited", "detached"}
    /\ httpSev_flag \in {0, 1}
    /\ manage \in {"test", "pop", "handle", "exited"}
    /\ manageFlag \in BOOLEAN
    /\ firing \in Control!Timer \union {NULL}
    /\ quit \in BOOLEAN
    /\ found \in SignalWindows \union {"none"}
    /\ inLibrary \in {"no", "log", "malloc"}
    /\ eintr \in BOOLEAN
    /\ sig \in Seq({"join_web", "log_web", "join_manage", "log_manage",
                    "pool_lock", "pool_join", "quit", "log_quit"})
    /\ joined \in SUBSET {"web", "manage", "pool"}
    /\ signals \in 0 .. MaxSignals /\ Len(sig) <= signals

(* When the main thread runs on with the loop told to quit, nobody else can*)
(* touch the loop any more: the web and manage threads and every worker    *)
(* are gone, even if the signals came nested or one after the other and    *)
(* joins did not wait (pollServer.cpp:185-234).                            *)
LoopQuitLast ==
    quit /\ MainRuns => /\ web \in {"exited", "detached"}
                        /\ manage = "exited"
                        /\ Pool!WorkersEnded

(* Once the event loop exists a START, whatever the loop is doing, does not*)
(* bring the process down, nor does a StopServer that runs once, wherever  *)
(* it finds main: what does is an answer that throws out of a task, a      *)
(* second signal, or a stop that joins a web thread which could not bind   *)
(* (PollBroadcastRoom.cpp:48, pollServer.cpp:112, 185-234,                 *)
(* webserver.cpp:185, 205).                                                *)
KnownDeaths == process = "died" /\ stage \notin {"starting", "crashed"} =>
    Pool!TaskThrew \/ signals > 1 \/ (signals > 0 /\ web = "detached")

(* The composition behaves, for the control path, as PollControl says.     *)
ImplementsControl == Control!Init /\ [][Control!Next]_controlVars

(* The pool's back-pressure, which stalls the loop thread, delays what the *)
(* manage thread decided but does not keep it from taking effect: what is  *)
(* polled and what should be agree again and again, until a signal comes or*)
(* a task brings the process down (pollServer.cpp:91-156, muduo's run()).  *)
Converges == \A type \in Types :
    []<>(\/ Control!Intended(type) <=> Control!Live(type)
         \/ signals > 0
         \/ process = "died")

(* SIGINT or SIGHUP ends the service (pollServer.cpp:184-234).             *)
StopEndsService == signals > 0 ~> process = "ended"

(* It does so when one signal comes and finds the main thread where it     *)
(* spends its time, waiting in epoll_wait, or between two functors,        *)
(* however far the web and manage threads and the tasks are, unless a task *)
(* throws meanwhile or the web thread could not bind, of which the process *)
(* may die (pollServer.cpp:185-234, 360).                                  *)
StopWhileWaiting ==
    found \in {"epoll_wait", "functors"} ~>
        \/ process = "ended"
        \/ process = "died" /\ (Pool!TaskThrew \/ web = "detached")
        \/ signals > 1

(* Wherever the signals find the main thread, the service ends unless the  *)
(* process dies (of a thread or a loop that does not exist yet, of one     *)
(* joined twice or detached, of a task that throws) or gets stuck in one of*)
(* five ways: quit() came before loop(), which forgets it; the handler     *)
(* waits in LOG for a lock that main, or the StopServer it interrupted,    *)
(* holds in a LOG or in the heap, or it waits for a web thread that waits  *)
(* for glog's; it waits for the pool's mutex, which its own thread holds;  *)
(* it waits for the manage thread, which waits for the loop's; or the main *)
(* thread goes on waiting for room in a pool without workers               *)
(* (pollServer.cpp:185-234).                                               *)
QuitForgotten == sig = << >> /\ stage = "looping" /\ ~quit
LogBlocked == \/ inLibrary # "no" /\ At("log_web")
              \/ inLibrary = "log" /\ At("join_web") /\ web = "starting"
OwnMutex == At("pool_lock") /\ held
ManageBlocked == At("join_manage") /\ LoopHeld /\ manage = "handle"
NoRoomLeft == sig = << >> /\ caller = "full" /\ Pool!IsFull
=============================================================================
