---------------------------- MODULE HandyTimers ----------------------------
(***************************************************************************)
(* The timers of a handy event loop (HttpServer/handy/event_base.cc):      *)
(* one-shot timers, repeating timers, which are armed again before their   *)
(* callback is called, cancellation by whatever runs in the loop, and the  *)
(* time the poll may wait.  HttpServer/timer.cc uses them: repeating timers*)
(* that other timers cancel, and exit().                                   *)
(*                                                                         *)
(* Timers belong to the loop's thread; other threads reach it by safeCall  *)
(* (see HandyLoop).  Timers that are due at once are taken in any order;   *)
(* timerSeq_, which orders them, is left out, and so is the ten seconds'   *)
(* limit of the poll.  A program cancels an id once at most.               *)
(* No name is one of HandyLoop's: Handy_proofs speaks of both.             *)
(***************************************************************************)
EXTENDS Integers

CONSTANTS Once, Repeat, \* the timers a behaviour may create, one-shot and repeating
          Delays,       \* how far ahead runAfter sets them
          Intervals,
          MaxTime,      \* bound: the clock stops there
          NoTimer

Ids == Once \cup Repeat

ASSUME TimesAssumption == /\ Delays \subseteq Nat /\ Intervals \subseteq Nat \ {0}
                          /\ MaxTime \in Nat \ {0}
ASSUME IdsAssumption == NoTimer \notin Ids /\ Once \cap Repeat = {}

VARIABLES now,
          timers_,     \* what is armed, and for when
          timerReps_,  \* the repeating timers: id -> [at, interval]
          nextTimeout_,
          exitSet,     \* exit_; HandyLoop has that name
          place,       \* the loop's place
          due,         \* handleTimeouts' copy of the time, 0 before the first
          running,     \* the timer whose callback runs, or NoTimer
          first,       \* history: when each timer was to fire first, 0 if unused
          calls,       \* history: how often its callback was called
          cancelled,   \* history
          undefined    \* the program has left what C++ defines

timerHistory == <<first, calls, cancelled, undefined>>
timerVars == <<now, timers_, timerReps_, nextTimeout_, exitSet, place, due, running, timerHistory>>

TimersInit ==
    /\ now = 1
    /\ timers_ = {}
    /\ timerReps_ = << >>
    /\ nextTimeout_ = MaxTime
    /\ exitSet = FALSE
    /\ place = "setup"
    /\ due = 0
    /\ running = NoTimer
    /\ first = [id \in Ids |-> 0]
    /\ calls = [id \in Ids |-> 0]
    /\ cancelled = {}
    /\ undefined = FALSE

With(f, id, value) == [i \in DOMAIN f \cup {id} |-> IF i = id THEN value ELSE f[i]]
Without(f, id) == [i \in DOMAIN f \ {id} |-> f[i]]
Entry(id, at) == [id |-> id, at |-> at]

(* Seeded faults: a definition whose name ends in "Fault" is a plausible   *)
(* slip in the definition that follows it; it is not part of Next, and     *)
(* PROJECT.json names the property that notices it.                        *)
NearestFault(armed) ==                 \* negative for what is late
    IF armed = {} THEN MaxTime
    ELSE LET t == CHOOSE t \in armed : \A u \in armed : t.at <= u.at
         IN  t.at - now
(* refreshNearest: how long the poll may wait from now on.                 *)
Nearest(armed) ==
    IF armed = {} THEN MaxTime
    ELSE LET t == CHOOSE t \in armed : \A u \in armed : t.at <= u.at
         IN  IF t.at > now THEN t.at - now ELSE 0

-----------------------------------------------------------------------------
(* What main does before the loop, and callbacks and tasks in it: they     *)
(* create timers, cancel them, call exit(), and take time.                 *)
UserRuns == ~undefined /\ place \in {"setup", "events", "callback", "lastEvents"}

Arm(id, at) ==
    /\ first[id] = 0 /\ at <= MaxTime
    /\ first' = [first EXCEPT ![id] = at]
    /\ timers_' = timers_ \cup {Entry(id, at)}
    /\ nextTimeout_' = Nearest(timers_')

(* runAt; it does nothing once exit() was called.                          *)
RunOnce(id, delay) ==
    /\ UserRuns /\ ~exitSet
    /\ Arm(id, now + delay)
    /\ UNCHANGED <<now, timerReps_, exitSet, place, due, running, calls, cancelled, undefined>>

RunRepeatedly(id, delay, interval) ==
    /\ UserRuns /\ ~exitSet
    /\ Arm(id, now + delay)
    /\ timerReps_' = With(timerReps_, id, [at |-> now + delay, interval |-> interval])
    /\ UNCHANGED <<now, exitSet, place, due, running, calls, cancelled, undefined>>

CancelLateFault(id) ==                 \* what is due fires all the same
    /\ UserRuns
    /\ first[id] # 0 /\ id \notin cancelled
    /\ cancelled' = cancelled \cup {id}
    /\ timers_' = {t \in timers_ : t.id # id \/ t.at <= due}
    /\ UNCHANGED <<now, timerReps_, nextTimeout_, exitSet, place, due, running, first, calls,
                   undefined>>
(* cancel of a one-shot timer, which may have fired; nextTimeout_ stays.   *)
CancelOnce(id) ==
    /\ UserRuns
    /\ first[id] # 0 /\ id \notin cancelled
    /\ cancelled' = cancelled \cup {id}
    /\ timers_' = {t \in timers_ : t.id # id}
    /\ UNCHANGED <<now, timerReps_, nextTimeout_, exitSet, place, due, running, first, calls,
                   undefined>>

(* cancel of a repeating timer: its node, which holds the callback, is     *)
(* erased, and must be there and not be running.                           *)
CancelRepeat(id) ==
    /\ UserRuns
    /\ first[id] # 0 /\ id \notin cancelled
    /\ cancelled' = cancelled \cup {id}
    /\ timers_' = IF id \in DOMAIN timerReps_
                  THEN timers_ \ {Entry(id, timerReps_[id].at)} ELSE timers_
    /\ timerReps_' = Without(timerReps_, id)
    /\ undefined' = (id \notin DOMAIN timerReps_ \/ id = running)
    /\ UNCHANGED <<now, nextTimeout_, exitSet, place, due, running, first, calls>>

TimersExit ==
    /\ UserRuns
    /\ exitSet' = TRUE
    /\ UNCHANGED <<now, timers_, timerReps_, nextTimeout_, place, due, running, timerHistory>>

Tick ==
    /\ UserRuns /\ now < MaxTime
    /\ now' = now + 1
    /\ UNCHANGED <<timers_, timerReps_, nextTimeout_, exitSet, place, due, running, timerHistory>>

-----------------------------------------------------------------------------
TurnEnter ==
    /\ place = "setup" /\ ~undefined
    /\ place' = "test"
    /\ UNCHANGED <<now, timers_, timerReps_, nextTimeout_, exitSet, due, running, timerHistory>>

(* loop(): after exit() all timers are dropped, before the last loop_once. *)
TurnTest ==
    /\ place = "test"
    /\ IF exitSet
       THEN place' = "lastEvents" /\ timers_' = {} /\ timerReps_' = << >>
       ELSE place' = "poll" /\ UNCHANGED <<timers_, timerReps_>>
    /\ UNCHANGED <<now, nextTimeout_, exitSet, due, running, timerHistory>>

(* epoll_wait returns when nextTimeout_ is over, or earlier.               *)
TurnPoll ==
    /\ place = "poll"
    /\ now' \in {time \in now .. MaxTime : time <= now + nextTimeout_}
    /\ place' = "events"
    /\ UNCHANGED <<timers_, timerReps_, nextTimeout_, exitSet, due, running, timerHistory>>

(* Callbacks of channels and tasks are over; handleTimeouts begins.        *)
EventsDone ==
    /\ place \in {"events", "lastEvents"} /\ ~undefined
    /\ IF place = "events" THEN due' = now /\ place' = "timeouts"
                           ELSE place' = "returned" /\ UNCHANGED due
    /\ UNCHANGED <<now, timers_, timerReps_, nextTimeout_, exitSet, running, timerHistory>>

IsNext(t) == t \in timers_ /\ t.at <= due /\ \A u \in timers_ : t.at <= u.at

FireOnce(t) ==
    /\ place = "timeouts" /\ IsNext(t) /\ t.id \in Once
    /\ timers_' = timers_ \ {t}
    /\ calls' = [calls EXCEPT ![t.id] = @ + 1]
    /\ running' = t.id
    /\ place' = "callback"
    /\ UNCHANGED <<now, timerReps_, nextTimeout_, exitSet, due, first, cancelled, undefined>>

(* repeatableTimeout: the next deadline follows from the last one, not from*)
(* the time it is.                                                         *)
NextDeadlineFault(rep) == now + rep.interval
NextDeadline(rep) == rep.at + rep.interval

FireRepeat(t) ==
    LET at == NextDeadline(timerReps_[t.id])
    IN  /\ place = "timeouts" /\ IsNext(t) /\ t.id \in Repeat
        /\ timers_' = (timers_ \ {t}) \cup {Entry(t.id, at)}
        /\ timerReps_' = [timerReps_ EXCEPT ![t.id].at = at]
        /\ nextTimeout_' = Nearest(timers_')
        /\ calls' = [calls EXCEPT ![t.id] = @ + 1]
        /\ running' = t.id
        /\ place' = "callback"
        /\ UNCHANGED <<now, exitSet, due, first, cancelled, undefined>>

CallbackDone ==
    /\ place = "callback" /\ ~undefined
    /\ running' = NoTimer
    /\ place' = "timeouts"
    /\ UNCHANGED <<now, timers_, timerReps_, nextTimeout_, exitSet, due, timerHistory>>

TimeoutsDoneFault ==                   \* without refreshNearest
    /\ place = "timeouts"
    /\ \A t \in timers_ : t.at > due
    /\ place' = "test"
    /\ UNCHANGED <<now, timers_, timerReps_, nextTimeout_, exitSet, due, running, timerHistory>>
TimeoutsDone ==
    /\ place = "timeouts"
    /\ \A t \in timers_ : t.at > due
    /\ nextTimeout_' = Nearest(timers_)
    /\ place' = "test"
    /\ UNCHANGED <<now, timers_, timerReps_, exitSet, due, running, timerHistory>>

-----------------------------------------------------------------------------
User == \/ \E id \in Once : (\E d \in Delays : RunOnce(id, d)) \/ CancelOnce(id)
        \/ \E id \in Repeat : \/ \E d \in Delays, i \in Intervals : RunRepeatedly(id, d, i)
                              \/ CancelRepeat(id)
        \/ TimersExit \/ Tick
Turn == \/ TurnEnter \/ TurnTest \/ TurnPoll \/ EventsDone \/ CallbackDone
        \/ \E t \in timers_ : FireOnce(t) \/ FireRepeat(t)
        \/ TimeoutsDone

TimersNext == User \/ Turn

(* The loop's thread runs on, and callbacks end.                           *)
TimersSpec == TimersInit /\ [][TimersNext]_timerVars /\ WF_timerVars(Turn)

-----------------------------------------------------------------------------
TimersOK ==
    /\ now \in 1 .. MaxTime
    /\ \A t \in timers_ : t.id \in Ids /\ t.at \in Nat
    /\ DOMAIN timerReps_ \subseteq Repeat
    /\ nextTimeout_ \in Nat /\ exitSet \in BOOLEAN /\ undefined \in BOOLEAN
    /\ place \in {"setup", "test", "poll", "events", "timeouts", "callback",
                 "lastEvents", "returned"}
    /\ due \in 0 .. MaxTime
    /\ running \in Ids \cup {NoTimer} /\ (running # NoTimer <=> place = "callback")
    /\ \A id \in Ids : first[id] = 0 => calls[id] = 0 /\ id \notin cancelled

(* The callbacks of a repeating timer keep their rhythm however late they  *)
(* are, and whoever cancels what: the timer is armed once, for the deadline*)
(* in its node, n intervals after the first when it was called n times; a  *)
(* turn of the loop makes up for all that was missed; and a timer without  *)
(* a node, to which its closure would point, is not armed                  *)
(* (event_base.cc:170-178, 235-280).                                       *)
ArmedFor(id) == {t.at : t \in {u \in timers_ : u.id = id}}
RhythmKept == \A id \in Repeat :
    IF id \notin DOMAIN timerReps_ THEN ArmedFor(id) = {}
    ELSE LET rep == timerReps_[id]
         IN  /\ ArmedFor(id) = {rep.at}
             /\ rep.at = first[id] + calls[id] * rep.interval
             /\ place = "poll" => rep.at > due /\ (calls[id] > 0 => rep.at - rep.interval <= due)

(* A cancelled timer is never called again, even if it is due in the turn  *)
(* in which it is cancelled (event_base.cc:170-176, 263-280).              *)
CancelIsFinal == [][\A id \in cancelled : calls'[id] = calls[id]]_timerVars

(* Once the loop goes round, its poll never sleeps over a deadline, but    *)
(* for the time the loop's thread takes from refreshNearest into           *)
(* epoll_wait, during which the model's clock stands still                 *)
(* (event_base.cc:77-80, 225-233).                                         *)
NoOversleep == [][place = "poll" /\ due # 0 =>
                      \A t \in timers_ : now' <= now \/ now' <= t.at]_timerVars
=============================================================================
