---------------------------- MODULE PollControl ----------------------------
(***************************************************************************)
(* The control path of the poll server (pollServer.cpp): requests accepted *)
(* by the web thread go through g_commList to the manage thread            *)
(* (manage_fun), which starts and cancels timers in the event loop of the  *)
(* main thread.  main has the manage and web threads running before it     *)
(* creates the loop and adds the timers that poll.conf configures.         *)
(***************************************************************************)
EXTENDS EventLoop

CONSTANTS Types,        \* the values of polltype (atoi, not validated)
          PollStates,   \* the values of pollState: START, STOP and others
          ConfEvents,   \* the configured events, in order
          MaxRequests,  \* bound: requests accepted in one behaviour
          NULL

ASSUME StatesAssumption == {"START", "STOP"} \subseteq PollStates
ASSUME ConfAssumption == ConfEvents \in Seq([type : Types, interval : Nat])
ASSUME MaxAssumption == MaxRequests \in Nat

Request == [type : Types, state : PollStates]

ASSUME NullAssumption == NULL \notin Request

(* A TimerParam together with the Timer that fires it (TimerParam::fd).    *)
Timer == [type : Types, seq : Nat, origin : {"web", "conf"}, interval : Nat]

WebInterval == 10   \* seconds, whatever poll.conf says

VARIABLES stage,          \* progress of main: "starting" (g_loop is NULL),
                          \* "configuring", "looping", or "crashed"
          configured,     \* how many of ConfEvents have their timer
          g_commList,     \* PollParams on their way to the manage thread
          param,          \* the PollParam manage_fun is handling, or NULL
          timer_commList, \* TimerParams of the web's timers
          timer_confList, \* TimerParams of the configured timers
          created,        \* timers created so far; numbers the timers
          accepted,       \* requests accepted so far (bounds a run)
          late            \* history: cancelled timers that fired since

controlVars == <<stage, configured, g_commList, param, timer_commList,
                 timer_confList, created, accepted, late>>
vars == <<loopVars, controlVars>>

Init == /\ LoopInit
        /\ stage = "starting"
        /\ configured = 0
        /\ g_commList = << >>
        /\ param = NULL
        /\ timer_commList = {}
        /\ timer_confList = {}
        /\ created = 0
        /\ accepted = 0
        /\ late = {}

Alive == stage # "crashed"

-----------------------------------------------------------------------------
(* Seeded faults: a definition whose name ends in "Fault" is a plausible   *)
(* slip in the definition that follows it; it is not part of Next, and     *)
(* PROJECT.json names the property that notices it.                        *)
FoundFault(list, type) ==              \* one list for the web and poll.conf
    {p \in list \union timer_confList : p.type = type}

(* findList: the first element of the list with that type.  Elements enter *)
(* at the back in the order of their numbers.                              *)
Found(list, type) == {p \in list : p.type = type}
FindList(list, type) ==
    CHOOSE p \in Found(list, type) :
        \A q \in Found(list, type) : p.seq <= q.seq

PushListFault(t) == UNCHANGED timer_commList       \* forgotten
PushList(t) == timer_commList' = timer_commList \union {t}

PopListFault(t) == UNCHANGED timer_commList        \* forgotten
PopList(t) == timer_commList' = timer_commList \ {t}

CancelForgottenFault(t) == UNCHANGED loopVars
CancelInPlaceFault(t) ==               \* by the manage thread itself
    timers' = timers \ {t} /\ UNCHANGED <<functors, batch, expired, phase>>
Cancel(t) == QueueInLoop("cancel", t)

-----------------------------------------------------------------------------
(* The web thread answers NO_ERROR and queues the parameters.              *)
Accept(r) ==
    /\ accepted < MaxRequests
    /\ accepted' = accepted + 1
    /\ g_commList' = Append(g_commList, r)
    /\ UNCHANGED <<loopVars, stage, configured, param, timer_commList,
                   timer_confList, created, late>>

(* manage_fun gets the next parameters from popLockList.                   *)
Take ==
    /\ param = NULL
    /\ g_commList # << >>
    /\ param' = Head(g_commList)
    /\ g_commList' = Tail(g_commList)
    /\ UNCHANGED <<loopVars, stage, configured, timer_commList,
                   timer_confList, created, accepted, late>>

DeleteParam == param' = NULL

(* START of a type without a timer in timer_commList: runEvery from a      *)
(* thread other than the loop's.                                           *)
StartPolling ==
    /\ param # NULL
    /\ param.state = "START"
    /\ Found(timer_commList, param.type) = {}
    /\ stage \in {"configuring", "looping"}
    /\ LET t == [type |-> param.type, seq |-> created, origin |-> "web",
                 interval |-> WebInterval] IN
         /\ QueueInLoop("add", t)
         /\ PushList(t)
    /\ created' = created + 1
    /\ DeleteParam
    /\ UNCHANGED <<stage, configured, g_commList, timer_confList, accepted, late>>

(* The same while g_loop is still NULL: the process dies.                  *)
StartWithoutLoop ==
    /\ param # NULL
    /\ param.state = "START"
    /\ Found(timer_commList, param.type) = {}
    /\ stage = "starting"
    /\ stage' = "crashed"
    /\ UNCHANGED <<loopVars, configured, g_commList, param, timer_commList,
                   timer_confList, created, accepted, late>>

(* STOP of a type that has a timer.                                        *)
StopPolling ==
    /\ param # NULL
    /\ param.state = "STOP"
    /\ Found(timer_commList, param.type) # {}
    /\ LET t == FindList(timer_commList, param.type) IN
         /\ Cancel(t)
         /\ PopList(t)
    /\ DeleteParam
    /\ UNCHANGED <<stage, configured, g_commList, timer_confList, created,
                   accepted, late>>

(* Already polling, no such timer, or an unknown command: only a log line. *)
IgnoreParam ==
    /\ param # NULL
    /\ \/ param.state = "START" /\ Found(timer_commList, param.type) # {}
       \/ param.state = "STOP" /\ Found(timer_commList, param.type) = {}
       \/ param.state \notin {"START", "STOP"}
    /\ DeleteParam
    /\ UNCHANGED <<loopVars, stage, configured, g_commList, timer_commList,
                   timer_confList, created, accepted, late>>

-----------------------------------------------------------------------------
(* main: g_loop = new EventLoop().                                         *)
CreateLoop ==
    /\ stage = "starting"
    /\ stage' = "configuring"
    /\ UNCHANGED <<loopVars, configured, g_commList, param, timer_commList,
                   timer_confList, created, accepted, late>>

(* main: addPollEvent for the next configured event.                       *)
AddPollEvent ==
    /\ stage = "configuring"
    /\ configured < Len(ConfEvents)
    /\ LET e == ConfEvents[configured + 1]
           t == [type |-> e.type, seq |-> created, origin |-> "conf",
                 interval |-> e.interval] IN
         /\ AddTimerInLoop(t)
         /\ timer_confList' = timer_confList \union {t}
    /\ configured' = configured + 1
    /\ created' = created + 1
    /\ UNCHANGED <<stage, g_commList, param, timer_commList, accepted, late>>

(* main: g_loop->loop().                                                   *)
StartLoop ==
    /\ stage = "configuring"
    /\ configured = Len(ConfEvents)
    /\ EnterLoop
    /\ stage' = "looping"
    /\ UNCHANGED <<configured, g_commList, param, timer_commList,
                   timer_confList, created, accepted, late>>

(* A timer cancelled by manage_fun whose cancellation the loop has not     *)
(* reached.                                                                *)
Cancelled == {functors[i].timer : i \in {j \in 1..Len(functors) :
                                           functors[j].op = "cancel"}}

(* handleEvent(t): hands a task to the pool (WorkerPool).                  *)
HandleEvent(t) ==
    /\ Callback(t)
    /\ late' = IF t \in Cancelled THEN late \union {t} ELSE late
    /\ UNCHANGED <<stage, configured, g_commList, param, timer_commList,
                   timer_confList, created, accepted>>

LoopPoll(due) == Poll(due) /\ UNCHANGED controlVars

LoopTurn ==
    /\ TakeFunctors \/ RunFunctor \/ FunctorsDone
    /\ UNCHANGED controlVars

-----------------------------------------------------------------------------
Manage == Take \/ StartPolling \/ StartWithoutLoop \/ StopPolling \/ IgnoreParam

Startup == CreateLoop \/ AddPollEvent \/ StartLoop

LoopThread == \/ \E due \in SUBSET timers : LoopPoll(due)
              \/ \E t \in expired : HandleEvent(t)
              \/ LoopTurn

Next == /\ Alive
        /\ \/ \E r \in Request : Accept(r)
           \/ Manage
           \/ Startup
           \/ LoopThread

(* The manage and the main thread are never suspended for ever.  Nothing   *)
(* obliges a client to send a request.                                     *)
Fairness == /\ WF_vars(Alive /\ Manage)
            /\ WF_vars(Alive /\ Startup)
            /\ WF_vars(Alive /\ LoopThread)

Spec == Init /\ [][Next]_vars /\ Fairness

-----------------------------------------------------------------------------
Functor == [op : {"add", "cancel"}, timer : Timer]

TypeOK ==
    /\ functors \in Seq(Functor)
    /\ batch \in 0..Len(functors)
    /\ timers \in SUBSET Timer
    /\ expired \in SUBSET timers
    /\ phase \in {"created", "poll", "callbacks", "functors"}
    /\ stage \in {"starting", "configuring", "looping", "crashed"}
    /\ configured \in 0..Len(ConfEvents)
    /\ g_commList \in Seq(Request)
    /\ param \in Request \union {NULL}
    /\ timer_commList \in SUBSET Timer
    /\ timer_confList \in SUBSET Timer
    /\ created \in Nat
    /\ accepted \in 0..MaxRequests
    /\ late \in SUBSET Timer

WebTimers == {t \in timers : t.origin = "web"}
TypesOf(ts) == {t.type : t \in ts}

(* The web never has two timers of one type firing in the loop, although   *)
(* manage_fun checks only its own list and the loop lags behind            *)
(* (pollServer.cpp:104-145): a restart waits for the cancellation of the   *)
(* timer before it.                                                        *)
OneTimerPerType == \A s, t \in WebTimers : s.type = t.type => s = t

(* muduo ignores the cancellation of a timer it does not have, and the     *)
(* timer would then fire for ever: when the loop gets to a cancellation    *)
(* the timer is there (pollServer.cpp:114-137).                            *)
CancelFindsTimer ==
    functors # << >> /\ Head(functors).op = "cancel" =>
        Head(functors).timer \in timers

(* With nothing pending, what fires is exactly what manage_fun has listed  *)
(* (pollServer.cpp:106-137).                                               *)
QuietAgreement == functors = << >> => WebTimers = timer_commList

(* The timers of poll.conf are out of the web's reach: once added they are *)
(* never cancelled, whatever requests arrive for their type                *)
(* (pollServer.cpp:17-31, 129-137).                                        *)
ConfTimersKept == timer_confList \subseteq timers

(* After the STOP of a type was handled, its timer fires at most once more *)
(* (pollServer.cpp:127-137; the cancellation is pending until the loop is  *)
(* done with its callbacks).                                               *)
LateFireAtMostOnce == [][(expired \ expired') \intersect late = {}]_vars

(* What the loop polls catches up with what manage_fun has decided.        *)
Live(type) == type \in TypesOf(WebTimers)
Intended(type) == type \in TypesOf(timer_commList)
Converges == \A type \in Types :
    /\ ~Intended(type) ~> ~Live(type) \/ Intended(type)
    /\ Intended(type) ~> Live(type) \/ ~Intended(type)

(* The control path implements the abstract service (manage_fun and what   *)
(* muduo's loop makes of its calls, pollServer.cpp:91-156).                *)
Requests == IF param = NULL THEN g_commList ELSE <<param>> \o g_commList
Decision(f) == [op |-> f.op, type |-> f.timer.type]
Decided == [i \in 1..Len(functors) |-> Decision(functors[i])]

Service == INSTANCE PollService WITH requests <- Requests,
                                     intended <- TypesOf(timer_commList),
                                     decided  <- Decided,
                                     polling  <- TypesOf(WebTimers)
ImplementsService == Service!Spec
=============================================================================
