---------------------------- MODULE Handy_proofs ----------------------------
(***************************************************************************)
(* Proofs about the handy event loop.                                      *)
(*                                                                         *)
(* HandyLoop, for any number of tasks and callers, any queue, pipe and     *)
(* read: no wake-up is lost, and what was handed over before exit() has    *)
(* been done when loop() returns.  The invariant says where every task is  *)
(* (Whereabouts) and what a promised task that still waits can count on    *)
(* (PromiseOpen).                                                          *)
(*                                                                         *)
(* HandyTimers, for any timers, delays, intervals and length of time: the  *)
(* rhythm of repeating timers, cancellation for good, and a poll that does *)
(* not sleep too long.  The invariant ties timers_, timerReps_ and the     *)
(* history of each id together (NodeArmed, RepeatArmed, CancelledGone,     *)
(* UnusedQuiet) and says what holds between two turns (AllDueCalled,       *)
(* PollInTime).                                                            *)
(***************************************************************************)
EXTENDS HandyLoop, HandyTimers, WellFoundedInduction, TLAPS

Elements(s) == {s[i] : i \in 1 .. Len(s)}

LEMMA AppendElements == ASSUME NEW S, NEW s \in Seq(S), NEW e \in S
                        PROVE  Elements(Append(s, e)) = Elements(s) \cup {e}
<1>1. /\ Len(Append(s, e)) = Len(s) + 1
      /\ \A i \in 1 .. Len(s) : Append(s, e)[i] = s[i]
      /\ Append(s, e)[Len(s) + 1] = e
      /\ Len(s) \in Nat
  OBVIOUS
<1>2. 1 .. Len(s) + 1 = (1 .. Len(s)) \cup {Len(s) + 1}
  BY <1>1
<1> HIDE DEF Elements
<1>3. \A x : x \in Elements(Append(s, e)) <=> x \in Elements(s) \cup {e}
  BY <1>1, <1>2 DEF Elements
<1>4. QED
  BY <1>3

LEMMA TailElements == ASSUME NEW S, NEW s \in Seq(S), s # << >>
                      PROVE  /\ Head(s) \in S
                             /\ Elements(s) = Elements(Tail(s)) \cup {Head(s)}
<1>1. /\ Len(s) \in Nat \ {0}
      /\ Head(s) = s[1] /\ Head(s) \in S
      /\ Len(Tail(s)) = Len(s) - 1
      /\ \A i \in 1 .. Len(s) - 1 : Tail(s)[i] = s[i + 1]
  OBVIOUS
<1>2. \A x : x \in Elements(s) => x \in Elements(Tail(s)) \cup {Head(s)}
  <2> SUFFICES ASSUME NEW i \in 1 .. Len(s), s[i] # Head(s)
               PROVE  s[i] \in Elements(Tail(s))
    BY DEF Elements
  <2>1. i - 1 \in 1 .. Len(s) - 1 /\ Tail(s)[i - 1] = s[i]
    BY <1>1
  <2>2. QED
    BY <2>1, <1>1 DEF Elements
<1>3. \A x : x \in Elements(Tail(s)) \cup {Head(s)} => x \in Elements(s)
  <2>1. Head(s) \in Elements(s)
    BY <1>1 DEF Elements
  <2>2. ASSUME NEW i \in 1 .. Len(s) - 1
        PROVE  Tail(s)[i] \in Elements(s)
    BY <1>1 DEF Elements
  <2>3. QED
    BY <2>1, <2>2, <1>1 DEF Elements
<1>4. QED
  BY <1>1, <1>2, <1>3

LEMMA EmptyElements == Elements(<< >>) = {}
  BY DEF Elements

-----------------------------------------------------------------------------
InTask == loop \in {"task", "wakeup"}

(* Where a task that was given to safeCall may be.                         *)
Whereabouts ==
    /\ posted \subseteq ran \cup refused \cup Elements(items)
                        \cup (IF InTask THEN {task} ELSE {})
    /\ Elements(items) \subseteq posted \ refused
    /\ InTask => task \in posted \ refused
    /\ \A c \in Callers : calling[c] \in posted \cup {NoTask}

(* exit() comes first, the final turn then, the return of loop() last.     *)
Ending == /\ last => exit_
          /\ loop = "returned" => last

(* While a promised task waits the loop has not returned, and the task has *)
(* its byte in the pipe, or the loop is taking tasks out.                  *)
PromiseOpen == promised \cap Elements(items) # {} =>
                   /\ loop # "returned"
                   /\ pipe > 0 \/ loop \in {"drain", "task", "wakeup"}

Inv == TypeOK /\ Whereabouts /\ Ending /\ NoStrandedTask /\ PromiseOpen

-----------------------------------------------------------------------------
LEMMA InitInv == Init => Inv
<1> SUFFICES ASSUME Init PROVE Inv
  OBVIOUS
<1> USE SizesAssumption, NoTaskAssumption DEF Init
<1>1. TypeOK
  <2>1. exit_ \in BOOLEAN /\ last \in BOOLEAN /\ exiting \in BOOLEAN
    OBVIOUS
  <2>2. calling \in [Callers -> Tasks \cup {NoTask}]
    OBVIOUS
  <2>3. QED
    BY <2>1, <2>2 DEF TypeOK
<1>2. Whereabouts /\ PromiseOpen
  BY EmptyElements DEF Whereabouts, InTask, PromiseOpen
<1>3. Ending /\ NoStrandedTask
  BY DEF Ending, NoStrandedTask
<1>4. QED
  BY <1>1, <1>2, <1>3 DEF Inv

(* What Push does to the queue and the history.                            *)
LEMMA PushEffect ==
    ASSUME TypeOK, Whereabouts, NEW t \in Tasks, Push(t)
    PROVE  /\ t \notin posted /\ posted' = posted \cup {t}
           /\ items' \in Seq(Tasks) /\ (Capacity > 0 => Len(items') <= Capacity)
           /\ \/ refused' = refused \cup {t} /\ items' = items
              \/ /\ refused' = refused /\ Elements(items') = Elements(items) \cup {t}
<1> USE SizesAssumption DEF TypeOK, Push
<1>1. CASE Capacity > 0 /\ Len(items) >= Capacity
  BY <1>1
<1>2. CASE ~(Capacity > 0 /\ Len(items) >= Capacity)
  <2>1. items' = Append(items, t) /\ refused' = refused
    BY <1>2
  <2>2. Elements(items') = Elements(items) \cup {t}
    BY <2>1, AppendElements
  <2>3. items' \in Seq(Tasks) /\ Len(items') = Len(items) + 1 /\ Len(items) \in Nat
    BY <2>1
  <2>4. QED
    BY <1>2, <2>1, <2>2, <2>3
<1>3. QED
  BY <1>1, <1>2

-----------------------------------------------------------------------------
(* One step for each action.                                               *)
LEMMA SafeCallInv == ASSUME Inv, NEW c \in Callers, NEW t \in Tasks, SafeCall(c, t)
                     PROVE  Inv'
<1> USE NoTaskAssumption DEF Inv, SafeCall, loopVars
<1>1. Push(t) /\ TypeOK /\ Whereabouts
  OBVIOUS
<1>2. /\ t \notin posted /\ posted' = posted \cup {t}
      /\ items' \in Seq(Tasks) /\ (Capacity > 0 => Len(items') <= Capacity)
      /\ \/ refused' = refused \cup {t} /\ items' = items
         \/ /\ refused' = refused /\ Elements(items') = Elements(items) \cup {t}
  BY <1>1, PushEffect
<1> HIDE DEF Inv
<1>3. calling' \in [Callers -> Tasks \cup {NoTask}] /\ calling'[c] = t
  BY <1>1 DEF TypeOK
<1>4. TypeOK'
  BY <1>1, <1>2, <1>3 DEF TypeOK
<1>5. Whereabouts'
  BY <1>1, <1>2, <1>3 DEF Whereabouts, InTask, TypeOK
<1>6. Ending'
  BY DEF Inv, Ending
<1>7. NoStrandedTask'
  BY <1>3 DEF NoStrandedTask
<1>8. PromiseOpen'
  BY <1>1, <1>2 DEF Inv, PromiseOpen, TypeOK
<1>9. QED
  BY <1>4, <1>5, <1>6, <1>7, <1>8 DEF Inv


LEMMA WakeupInv == ASSUME Inv, NEW c \in Callers, Wakeup(c) PROVE Inv'
<1> USE SizesAssumption, NoTaskAssumption DEF Wakeup, WriteByte, loopVars
<1>1. TypeOK'
  BY DEF Inv, TypeOK, Whereabouts
<1>2. Whereabouts'
  BY DEF Inv, TypeOK, Whereabouts, InTask
<1>3. Ending'
  BY DEF Inv, Ending
<1>4. pipe' > 0
  BY DEF Inv, TypeOK
<1>5. NoStrandedTask' /\ PromiseOpen'
  BY <1>4 DEF Inv, Ending, NoStrandedTask, PromiseOpen
<1>6. QED
  BY <1>1, <1>2, <1>3, <1>5 DEF Inv

LEMMA ExitInv == ASSUME Inv, Exit \/ ExitWakeup PROVE Inv'
<1> USE SizesAssumption DEF Exit, ExitWakeup, WriteByte, loopVars, history
<1>1. TypeOK'
  <2>1. exit_' \in BOOLEAN /\ exiting' \in BOOLEAN
    BY DEF Inv, TypeOK
  <2>2. pipe' \in 0 .. PipeSize
    BY DEF Inv, TypeOK
  <2>3. QED
    BY <2>1, <2>2 DEF Inv, TypeOK
<1>2. Whereabouts'
  BY DEF Inv, Whereabouts, InTask
<1>3. Ending'
  BY DEF Inv, Ending
<1>4. pipe > 0 => pipe' > 0
  BY DEF Inv, TypeOK
<1>5. NoStrandedTask' /\ PromiseOpen'
  BY <1>4 DEF Inv, NoStrandedTask, PromiseOpen
<1>6. QED
  BY <1>1, <1>2, <1>3, <1>5 DEF Inv

(* The steps of the loop that leave queue and history alone.               *)
LEMMA TurnInv == ASSUME Inv, LoopTest \/ LoopPoll \/ LoopRead \/ LoopWakeup PROVE Inv'
<1> USE SizesAssumption
    DEF LoopTest, LoopPoll, LoopRead, LoopWakeup, AfterOnce, WriteByte, callVars, history
<1>1. TypeOK'
  <2>1. pipe' \in 0 .. PipeSize
    BY DEF Inv, TypeOK
  <2>2. exit_' \in BOOLEAN /\ last' \in BOOLEAN /\ exiting' \in BOOLEAN
    BY DEF Inv, TypeOK
  <2>3. loop' \in {"test", "poll", "read", "drain", "task", "wakeup", "returned"}
    OBVIOUS
  <2>4. QED
    BY <2>1, <2>2, <2>3 DEF Inv, TypeOK
<1>2. Whereabouts'
  BY DEF Inv, Whereabouts, InTask
<1>3. Ending'
  BY DEF Inv, Ending
<1>4. pipe \in Nat
  BY DEF Inv, TypeOK
<1>5. NoStrandedTask'
  BY <1>4 DEF Inv, NoStrandedTask
<1>6. PromiseOpen'
  BY <1>4 DEF Inv, PromiseOpen
<1>7. QED
  BY <1>1, <1>2, <1>3, <1>5, <1>6 DEF Inv

LEMMA DrainInv == ASSUME Inv, LoopDrain PROVE Inv'
<1> USE NoTaskAssumption DEF LoopDrain, AfterOnce, callVars, history
<1>1. CASE items = << >>
  <2>1. Elements(items) = {} /\ items' = items
    BY <1>1, EmptyElements
  <2>2. TypeOK'
    BY <1>1 DEF Inv, TypeOK
  <2>3. Whereabouts'
    BY <1>1 DEF Inv, Whereabouts, InTask
  <2>4. Ending' /\ NoStrandedTask' /\ PromiseOpen'
    BY <1>1, <2>1 DEF Inv, Ending, NoStrandedTask, PromiseOpen
  <2>5. QED
    BY <2>2, <2>3, <2>4 DEF Inv
<1>2. CASE items # << >>
  <2>1. items \in Seq(Tasks)
    BY DEF Inv, TypeOK
  <2>2. Head(items) \in Tasks /\ Elements(items) = Elements(Tail(items)) \cup {Head(items)}
    BY <1>2, <2>1, TailElements
  <2>3. Tail(items) \in Seq(Tasks) /\ Len(Tail(items)) <= Len(items) /\ Len(items) \in Nat
        /\ Len(Tail(items)) \in Nat
    BY <1>2, <2>1
  <2>4. /\ items' = Tail(items) /\ task' = Head(items) /\ loop' = "task"
        /\ loop = "drain" /\ last' = last /\ exit_' = exit_
    BY <1>2
  <2>5. TypeOK'
    BY <2>2, <2>3, <2>4, SizesAssumption DEF Inv, TypeOK
  <2>6. Whereabouts'
    BY <2>2, <2>4 DEF Inv, Whereabouts, InTask
  <2>7. Ending' /\ NoStrandedTask' /\ PromiseOpen'
    BY <2>4 DEF Inv, Ending, NoStrandedTask, PromiseOpen
  <2>8. QED
    BY <2>5, <2>6, <2>7 DEF Inv
<1>3. QED
  BY <1>1, <1>2

LEMMA TaskInv == ASSUME Inv, LoopTask PROVE Inv'
<1> USE DEF LoopTask, callVars
<1>1. TypeOK'
  BY DEF Inv, TypeOK, Whereabouts, InTask
<1>2. Whereabouts'
  BY DEF Inv, Whereabouts, InTask
<1>3. Ending' /\ NoStrandedTask' /\ PromiseOpen'
  BY DEF Inv, Ending, NoStrandedTask, PromiseOpen
<1>4. QED
  BY <1>1, <1>2, <1>3 DEF Inv

LEMMA LoopSafeCallInv == ASSUME Inv, NEW t \in Tasks, LoopSafeCall(t) PROVE Inv'
<1> USE DEF LoopSafeCall, callVars
<1>1. /\ t \notin posted /\ posted' = posted \cup {t}
      /\ items' \in Seq(Tasks) /\ (Capacity > 0 => Len(items') <= Capacity)
      /\ \/ refused' = refused \cup {t} /\ items' = items
         \/ /\ refused' = refused /\ Elements(items') = Elements(items) \cup {t}
  BY PushEffect DEF Inv
<1>2. TypeOK'
  BY <1>1 DEF Inv, TypeOK
<1>3. Whereabouts'
  <2>1. InTask /\ InTask' /\ UNCHANGED <<ran, task, calling>>
    BY DEF InTask
  <2>2. task \in posted \ refused /\ task # t
    BY <1>1, <2>1 DEF Inv, Whereabouts
  <2>3. posted' \subseteq ran' \cup refused' \cup Elements(items') \cup {task'}
    BY <1>1, <2>1 DEF Inv, Whereabouts
  <2>4. Elements(items') \subseteq posted' \ refused' /\ task' \in posted' \ refused'
    BY <1>1, <2>1, <2>2 DEF Inv, Whereabouts, TypeOK
  <2>5. QED
    BY <1>1, <2>1, <2>3, <2>4 DEF Inv, Whereabouts
<1>4. Ending' /\ NoStrandedTask' /\ PromiseOpen'
  BY DEF Inv, Ending, NoStrandedTask, PromiseOpen
<1>5. QED
  BY <1>2, <1>3, <1>4 DEF Inv

-----------------------------------------------------------------------------
LEMMA NextInv == Inv /\ [Next]_vars => Inv'
<1> SUFFICES ASSUME Inv, [Next]_vars PROVE Inv'
  OBVIOUS
<1>1. CASE UNCHANGED vars
  BY <1>1 DEF vars, loopVars, callVars, history, Inv, TypeOK, Whereabouts, InTask, Ending,
              NoStrandedTask, PromiseOpen
<1>2. CASE Loop
  BY <1>2, TurnInv, DrainInv, TaskInv, LoopSafeCallInv DEF Loop
<1>3. ASSUME NEW c \in Callers, Call(c) PROVE Inv'
  BY <1>3, SafeCallInv, WakeupInv DEF Call
<1>4. QED
  BY <1>1, <1>2, <1>3, ExitInv DEF Next

LEMMA InvAlways == Spec => []Inv
  BY InitInv, NextInv, PTL DEF Spec

(* Every variable keeps its type: the queue never exceeds its capacity, the*)
(* pipe never overflows, no refused task runs (threads.h:76-85,            *)
(* event_base.cc:72-85).                                                   *)
THEOREM TypeCorrect == Spec => []TypeOK
<1>1. Inv => TypeOK
  BY DEF Inv
<1>2. QED
  BY InvAlways, <1>1, PTL

(* No task is left in the queue without a byte in the pipe, one about to be*)
(* written, or a loop that is taking tasks out (event_base.cc:72-85, 153). *)
THEOREM TaskNotStranded == Spec => []NoStrandedTask
<1>1. Inv => NoStrandedTask
  BY DEF Inv
<1>2. QED
  BY InvAlways, <1>1, PTL

(* When loop() has returned, every task whose safeCall was over before     *)
(* exit() has run or was refused (event_base.cc:66-85, 132-142).           *)
THEOREM PromiseHolds == Spec => []PromiseKept
<1>1. Inv => PromiseKept
  BY DEF Inv, PromiseKept, PromiseOpen, Whereabouts, InTask, TypeOK
<1>2. QED
  BY InvAlways, <1>1, PTL

-----------------------------------------------------------------------------
(* The timers.                                                             *)
USE TimesAssumption, IdsAssumption

(* A set of numbers has a smallest one: there is a nearest deadline.       *)
LEMMA Smallest == ASSUME NEW S, S \subseteq Nat, S # {}
                  PROVE  \E x \in S : \A y \in S : x <= y
<1> DEFINE R == OpToRel(<, Nat)
<1>1. IsWellFoundedOn(R, Nat)
  BY NatLessThanWellFounded
<1> HIDE DEF R
<1>2. PICK x \in S : \A y \in S : ~ (<<y, x>> \in R)
  BY <1>1, WFMin
<1>3. ASSUME NEW y \in S
      PROVE  x <= y
  <2>1. x \in Nat /\ y \in Nat
    OBVIOUS
  <2>2. ~ (y < x)
    BY <1>2, <2>1 DEF R, OpToRel
  <2>3. QED
    BY <2>1, <2>2
<1>4. QED
  BY <1>3

Entries == [id : Ids, at : Nat \ {0}]
Nodes == [at : Nat \ {0}, interval : Nat \ {0}]

(* refreshNearest: what the poll may wait ends before every deadline,      *)
(* unless there is nothing to wait for (event_base.cc:225-233).            *)
LEMMA NearestInTime ==
    ASSUME NEW armed, armed \subseteq Entries, now \in Nat, MaxTime \in Nat
    PROVE  /\ Nearest(armed) \in Nat
           /\ \A u \in armed : Nearest(armed) = 0 \/ now + Nearest(armed) <= u.at
<1>1. CASE armed = {}
  BY <1>1 DEF Nearest
<1>2. CASE armed # {}
  <2> DEFINE ats == {t.at : t \in armed}
             t == CHOOSE t \in armed : \A u \in armed : t.at <= u.at
  <2>1. \A u \in armed : u.at \in Nat
    BY DEF Entries
  <2>2. ats \subseteq Nat /\ ats # {}
    BY <2>1, <1>2
  <2>3. PICK x \in ats : \A y \in ats : x <= y
    BY <2>2, Smallest
  <2>4. \E v \in armed : \A u \in armed : v.at <= u.at
    BY <2>3
  <2>5. t \in armed /\ \A u \in armed : t.at <= u.at
    BY <2>4
  <2>6. Nearest(armed) = IF t.at > now THEN t.at - now ELSE 0
    BY <1>2 DEF Nearest
  <2> HIDE DEF t
  <2>7. QED
    BY <2>1, <2>5, <2>6
<1>3. QED
  BY <1>1, <1>2

-----------------------------------------------------------------------------
TimersTyped ==
    /\ now \in 1 .. MaxTime
    /\ due \in 0 .. now
    /\ nextTimeout_ \in Nat
    /\ exitSet \in BOOLEAN /\ undefined \in BOOLEAN
    /\ place \in {"setup", "test", "poll", "events", "timeouts", "callback",
                  "lastEvents", "returned"}
    /\ running \in Ids \cup {NoTimer}
    /\ running # NoTimer <=> place = "callback"
    /\ timers_ \subseteq Entries
    /\ DOMAIN timerReps_ \subseteq Repeat
    /\ \A id \in DOMAIN timerReps_ : timerReps_[id] \in Nodes
    /\ first \in [Ids -> Nat] /\ calls \in [Ids -> Nat]
    /\ cancelled \subseteq Ids

(* Nothing is known of an id that was never given to a timer.              *)
UnusedQuiet ==
    \A id \in Ids : first[id] = 0 =>
        /\ calls[id] = 0 /\ id \notin cancelled
        /\ id \notin DOMAIN timerReps_
        /\ \A t \in timers_ : t.id # id

(* A cancelled id is neither armed nor has it a node.                      *)
CancelledGone ==
    \A id \in cancelled : id \notin DOMAIN timerReps_ /\ \A t \in timers_ : t.id # id

(* A repeating timer is armed for the deadline in its node, and only then. *)
RepeatArmed ==
    \A t \in timers_ : t.id \in Repeat =>
        t.id \in DOMAIN timerReps_ /\ t.at = timerReps_[t.id].at

(* Each node is armed, keeps the rhythm, and is at most one interval ahead *)
(* of what handleTimeouts has reached.                                     *)
NodeArmed ==
    \A id \in DOMAIN timerReps_ :
        /\ Entry(id, timerReps_[id].at) \in timers_
        /\ timerReps_[id].at = first[id] + calls[id] * timerReps_[id].interval
        /\ calls[id] > 0 => timerReps_[id].at <= due + timerReps_[id].interval

(* Between handleTimeouts and the poll nothing is due any more.            *)
AllDueCalled == /\ place \in {"test", "poll"} => \A t \in timers_ : t.at > due
                /\ place = "setup" => due = 0

PollInTime == place \in {"test", "poll"} /\ due # 0 =>
                  \A t \in timers_ : nextTimeout_ = 0 \/ now + nextTimeout_ <= t.at

TimersInv == /\ TimersTyped /\ UnusedQuiet /\ CancelledGone /\ RepeatArmed
             /\ NodeArmed /\ AllDueCalled /\ PollInTime

LEMMA EntryFields == \A id, at : Entry(id, at).id = id /\ Entry(id, at).at = at
  BY DEF Entry

LEMMA EntryIsEntry == \A id \in Ids, at \in Nat \ {0} : Entry(id, at) \in Entries
  BY DEF Entry, Entries

LEMMA EntryOfFields == \A t \in Entries : t = Entry(t.id, t.at)
  BY DEF Entry, Entries

-----------------------------------------------------------------------------
LEMMA TimersInitInv == TimersInit => TimersInv
<1> SUFFICES ASSUME TimersInit PROVE TimersInv
  OBVIOUS
<1> USE DEF TimersInit
<1>1. DOMAIN timerReps_ = {}
  OBVIOUS
<1>2. exitSet \in BOOLEAN /\ undefined \in BOOLEAN
  BY Zenon
<1>3. TimersTyped
  BY <1>1, <1>2 DEF TimersTyped
<1>4. UnusedQuiet /\ CancelledGone /\ RepeatArmed /\ NodeArmed /\ AllDueCalled /\ PollInTime
  BY <1>1 DEF UnusedQuiet, CancelledGone, RepeatArmed, NodeArmed, AllDueCalled, PollInTime
<1>5. QED
  BY <1>3, <1>4 DEF TimersInv

(* runAt, for either kind of timer, if the repeating one gets its node.    *)
LEMMA ArmKeeps ==
    ASSUME TimersInv, NEW id \in Ids, NEW at \in Nat \ {0}, UserRuns, Arm(id, at),
           UNCHANGED <<now, exitSet, place, due, running, calls, cancelled, undefined>>,
           \/ id \in Once /\ UNCHANGED timerReps_
           \/ /\ id \in Repeat
              /\ \E i \in Nat \ {0} :
                     timerReps_' = With(timerReps_, id, [at |-> at, interval |-> i])
    PROVE  TimersInv'
<1>0. /\ TimersTyped /\ UnusedQuiet /\ CancelledGone /\ RepeatArmed /\ NodeArmed
      /\ first[id] = 0 /\ first' = [first EXCEPT ![id] = at]
      /\ timers_' = timers_ \cup {Entry(id, at)}
      /\ nextTimeout_' = Nearest(timers_')
  BY DEF TimersInv, Arm
<1>1. /\ timers_' \subseteq Entries
      /\ nextTimeout_' \in Nat
  <2>1. timers_' \subseteq Entries
    BY <1>0, EntryIsEntry DEF TimersTyped
  <2>2. now \in Nat /\ MaxTime \in Nat
    BY <1>0 DEF TimersTyped
  <2>3. QED
    BY <1>0, <2>1, <2>2, NearestInTime
<1>2. /\ id \notin DOMAIN timerReps_ /\ id \notin cancelled /\ calls[id] = 0
      /\ \A t \in timers_ : t.id # id
  BY <1>0 DEF UnusedQuiet
<1>3. /\ DOMAIN timerReps_' \subseteq DOMAIN timerReps_ \cup {id}
      /\ DOMAIN timerReps_ \subseteq DOMAIN timerReps_'
      /\ \A r \in DOMAIN timerReps_ : timerReps_'[r] = timerReps_[r]
      /\ id \in DOMAIN timerReps_' => id \in Repeat
      /\ id \in Repeat => /\ id \in DOMAIN timerReps_'
                          /\ timerReps_'[id] \in Nodes
                          /\ timerReps_'[id].at = at
  <2>1. CASE id \in Once /\ UNCHANGED timerReps_
    BY <2>1, <1>2
  <2>2. CASE id \in Repeat /\ ~(id \in Once)
    <3>1. PICK i \in Nat \ {0} :
              timerReps_' = With(timerReps_, id, [at |-> at, interval |-> i])
      BY <2>2
    <3>2. /\ DOMAIN timerReps_' = DOMAIN timerReps_ \cup {id}
          /\ \A r \in DOMAIN timerReps_ \cup {id} :
                 timerReps_'[r] = IF r = id THEN [at |-> at, interval |-> i]
                                            ELSE timerReps_[r]
      BY <3>1 DEF With
    <3>3. timerReps_'[id] = [at |-> at, interval |-> i]
      BY <3>2
    <3>4. timerReps_'[id] \in Nodes /\ timerReps_'[id].at = at
      BY <3>3 DEF Nodes
    <3>5. QED
      BY <3>2, <3>4, <2>2, <1>2
  <2>3. QED
    BY <2>1, <2>2
<1>4. /\ first' \in [Ids -> Nat] /\ first'[id] = at
      /\ \A r \in Ids \ {id} : first'[r] = first[r]
  BY <1>0 DEF TimersTyped
<1>5. TimersTyped'
  <2>1. /\ DOMAIN timerReps_' \subseteq Repeat
        /\ \A r \in DOMAIN timerReps_' : timerReps_'[r] \in Nodes
    BY <1>0, <1>3 DEF TimersTyped
  <2>2. /\ (now \in 1 .. MaxTime)' /\ (due \in 0 .. now)'
        /\ (exitSet \in BOOLEAN)' /\ (undefined \in BOOLEAN)'
        /\ (calls \in [Ids -> Nat])' /\ (cancelled \subseteq Ids)'
        /\ (running \in Ids \cup {NoTimer})' /\ (running # NoTimer <=> place = "callback")'
        /\ (place \in {"setup", "test", "poll", "events", "timeouts", "callback",
                       "lastEvents", "returned"})'
    BY <1>0 DEF TimersTyped
  <2>3. QED
    BY <2>1, <2>2, <1>1, <1>4 DEF TimersTyped
<1>6. UnusedQuiet'
  <2> SUFFICES ASSUME NEW r \in Ids, first'[r] = 0
               PROVE  /\ calls'[r] = 0 /\ r \notin cancelled'
                      /\ r \notin DOMAIN timerReps_'
                      /\ \A t \in timers_' : t.id # r
    BY DEF UnusedQuiet
  <2>1. r # id /\ first[r] = 0
    BY <1>4
  <2>2. QED
    BY <2>1, <1>0, <1>3, EntryFields DEF UnusedQuiet
<1>7. CancelledGone'
  BY <1>0, <1>2, <1>3, EntryFields DEF CancelledGone
<1>8. RepeatArmed'
  BY <1>0, <1>3, EntryFields DEF RepeatArmed
<1>9. NodeArmed'
  <2> SUFFICES ASSUME NEW r \in DOMAIN timerReps_'
               PROVE  /\ Entry(r, timerReps_'[r].at) \in timers_'
                      /\ timerReps_'[r].at = first'[r] + calls'[r] * timerReps_'[r].interval
                      /\ calls'[r] > 0 => timerReps_'[r].at <= due' + timerReps_'[r].interval
    BY DEF NodeArmed
  <2>1. CASE r = id
    <3>1. timerReps_'[id].at = at /\ timerReps_'[id].interval \in Nat
      BY <1>3, <2>1 DEF Nodes
    <3>2. calls'[id] = 0 /\ first'[id] = at
      BY <1>2, <1>4
    <3>3. QED
      BY <3>1, <3>2, <2>1, <1>0
  <2>2. CASE r # id
    <3>1. r \in DOMAIN timerReps_ /\ timerReps_'[r] = timerReps_[r]
      BY <2>2, <1>3
    <3>2. first'[r] = first[r]
      BY <3>1, <2>2, <1>4, <1>0 DEF TimersTyped, Ids
    <3>3. QED
      BY <3>1, <3>2, <1>0 DEF NodeArmed
  <2>3. QED
    BY <2>1, <2>2
<1>10. AllDueCalled' /\ PollInTime'
  BY DEF AllDueCalled, PollInTime, UserRuns, TimersInv
<1>11. QED
  BY <1>5, <1>6, <1>7, <1>8, <1>9, <1>10 DEF TimersInv

(* cancel takes timers out; of those that stay nothing new has to be shown.*)
LEMMA CancelOnceKeeps == ASSUME TimersInv, NEW id \in Once, CancelOnce(id)
                         PROVE  TimersInv'
<1>1. /\ timers_' = {t \in timers_ : t.id # id} /\ timers_' \subseteq timers_
      /\ cancelled' = cancelled \cup {id}
      /\ first[id] # 0 /\ id \in Ids /\ id \notin Repeat
      /\ UNCHANGED <<now, timerReps_, nextTimeout_, exitSet, place, due, running, first, calls,
                     undefined>>
  BY DEF CancelOnce, Ids
<1>2. TimersTyped'
  BY <1>1 DEF TimersTyped, TimersInv
<1>3. UnusedQuiet' /\ CancelledGone' /\ RepeatArmed'
  BY <1>1 DEF TimersInv, TimersTyped, UnusedQuiet, CancelledGone, RepeatArmed
<1>4. NodeArmed'
  <2>1. \A r \in DOMAIN timerReps_ : r # id
    BY <1>1 DEF TimersInv, TimersTyped
  <2>2. QED
    BY <1>1, <2>1, EntryFields DEF TimersInv, NodeArmed
<1>5. AllDueCalled' /\ PollInTime'
  BY <1>1 DEF TimersInv, AllDueCalled, PollInTime
<1>6. QED
  BY <1>2, <1>3, <1>4, <1>5 DEF TimersInv

LEMMA CancelRepeatKeeps == ASSUME TimersInv, NEW id \in Repeat, CancelRepeat(id)
                           PROVE  TimersInv'
<1>1. /\ cancelled' = cancelled \cup {id}
      /\ timers_' = IF id \in DOMAIN timerReps_
                    THEN timers_ \ {Entry(id, timerReps_[id].at)} ELSE timers_
      /\ timerReps_' = Without(timerReps_, id)
      /\ first[id] # 0 /\ id \in Ids
      /\ UNCHANGED <<now, nextTimeout_, exitSet, place, due, running, first, calls>>
  BY DEF CancelRepeat, Ids
<1>2. (undefined \in BOOLEAN)'
  <2>1. undefined' = (id \notin DOMAIN timerReps_ \/ id = running)
    BY DEF CancelRepeat
  <2>2. QED
    BY <2>1, Zenon
<1>3. /\ DOMAIN timerReps_' = DOMAIN timerReps_ \ {id}
      /\ \A r \in DOMAIN timerReps_' : timerReps_'[r] = timerReps_[r]
  BY <1>1 DEF Without
<1>4. timers_' \subseteq timers_ /\ \A t \in timers_' : t.id # id
  <2>1. \A t \in timers_ : t.id = id =>
            id \in DOMAIN timerReps_ /\ t = Entry(id, timerReps_[id].at)
    BY EntryOfFields DEF TimersInv, TimersTyped, RepeatArmed
  <2>2. QED
    BY <1>1, <2>1
<1>5. \A t \in timers_ : t.id # id => t \in timers_'
  BY <1>1, EntryFields
<1>6. TimersTyped'
  BY <1>1, <1>2, <1>3, <1>4 DEF TimersTyped, TimersInv
<1>7. UnusedQuiet' /\ CancelledGone' /\ RepeatArmed'
  BY <1>1, <1>3, <1>4 DEF TimersInv, TimersTyped, UnusedQuiet, CancelledGone, RepeatArmed
<1>8. NodeArmed'
  BY <1>1, <1>3, <1>5, EntryFields DEF TimersInv, NodeArmed
<1>9. AllDueCalled' /\ PollInTime'
  BY <1>1, <1>4 DEF TimersInv, AllDueCalled, PollInTime
<1>10. QED
  BY <1>6, <1>7, <1>8, <1>9 DEF TimersInv

LEMMA UserKeeps == TimersInv /\ User => TimersInv'
<1> SUFFICES ASSUME TimersInv, User PROVE TimersInv'
  OBVIOUS
<1>1. ASSUME NEW id \in Once, NEW d \in Delays, RunOnce(id, d)
      PROVE  TimersInv'
  <2>1. id \in Ids /\ now + d \in Nat \ {0}
    BY DEF TimersInv, TimersTyped, Ids
  <2>2. /\ UserRuns /\ Arm(id, now + d) /\ UNCHANGED timerReps_
        /\ UNCHANGED <<now, exitSet, place, due, running, calls, cancelled, undefined>>
    BY <1>1 DEF RunOnce
  <2>3. QED
    BY <2>1, <2>2, ArmKeeps
<1>2. ASSUME NEW id \in Repeat, NEW d \in Delays, NEW i \in Intervals,
             RunRepeatedly(id, d, i)
      PROVE  TimersInv'
  <2>1. id \in Ids /\ now + d \in Nat \ {0}
    BY DEF TimersInv, TimersTyped, Ids
  <2>2. /\ UserRuns /\ Arm(id, now + d)
        /\ UNCHANGED <<now, exitSet, place, due, running, calls, cancelled, undefined>>
        /\ timerReps_' = With(timerReps_, id, [at |-> now + d, interval |-> i])
    BY <1>2 DEF RunRepeatedly
  <2>3. i \in Nat \ {0}
    OBVIOUS
  <2>4. QED
    BY <2>1, <2>2, <2>3, ArmKeeps
<1>3. CASE TimersExit
  <2>1. (exitSet \in BOOLEAN)'
    BY <1>3, Zenon DEF TimersExit
  <2>2. UNCHANGED <<now, timers_, timerReps_, nextTimeout_, place, due, running, first, calls,
                    cancelled, undefined>>
    BY <1>3 DEF TimersExit, timerHistory
  <2>3. QED
    BY <2>1, <2>2 DEF TimersInv, TimersTyped, UnusedQuiet, CancelledGone, RepeatArmed,
                      NodeArmed, AllDueCalled, PollInTime
<1>4. CASE Tick
  <2>1. /\ now' = now + 1 /\ now < MaxTime /\ UserRuns
        /\ UNCHANGED <<timers_, timerReps_, nextTimeout_, exitSet, place, due, running, first,
                       calls, cancelled, undefined>>
    BY <1>4 DEF Tick, timerHistory
  <2>2. TimersTyped'
    BY <2>1 DEF TimersInv, TimersTyped
  <2>3. UnusedQuiet' /\ CancelledGone' /\ RepeatArmed' /\ NodeArmed' /\ AllDueCalled'
    BY <2>1 DEF TimersInv, UnusedQuiet, CancelledGone, RepeatArmed, NodeArmed, AllDueCalled
  <2>4. PollInTime'
    BY <2>1 DEF PollInTime, UserRuns
  <2>5. QED
    BY <2>2, <2>3, <2>4 DEF TimersInv
<1>5. QED
  BY <1>1, <1>2, <1>3, <1>4, CancelOnceKeeps, CancelRepeatKeeps DEF User

-----------------------------------------------------------------------------
LEMMA FireOnceKeeps == ASSUME TimersInv, NEW t \in timers_, FireOnce(t)
                       PROVE  TimersInv'
<1>1. /\ timers_' = timers_ \ {t}
      /\ calls' = [calls EXCEPT ![t.id] = calls[t.id] + 1]
      /\ running' = t.id /\ place' = "callback"
      /\ t.id \in Once /\ t.id \in Ids /\ t.id # NoTimer /\ t.id \notin Repeat
      /\ UNCHANGED <<now, timerReps_, nextTimeout_, exitSet, due, first, cancelled, undefined>>
  BY DEF FireOnce, Ids
<1>2. /\ calls' \in [Ids -> Nat]
      /\ \A r \in Ids \ {t.id} : calls'[r] = calls[r]
  BY <1>1 DEF TimersInv, TimersTyped
<1>3. TimersTyped'
  BY <1>1, <1>2 DEF TimersTyped, TimersInv
<1>4. UnusedQuiet' /\ CancelledGone' /\ RepeatArmed'
  BY <1>1, <1>2 DEF TimersInv, UnusedQuiet, CancelledGone, RepeatArmed
<1>5. NodeArmed'
  <2>1. \A r \in DOMAIN timerReps_ : r # t.id /\ r \in Ids
    BY <1>1 DEF TimersInv, TimersTyped, Ids
  <2>2. QED
    BY <1>1, <1>2, <2>1, EntryFields DEF TimersInv, NodeArmed
<1>6. AllDueCalled' /\ PollInTime'
  BY <1>1 DEF AllDueCalled, PollInTime
<1>7. QED
  BY <1>3, <1>4, <1>5, <1>6 DEF TimersInv

LEMMA OneMore == \A c, i \in Nat : (c + 1) * i = c * i + i
  OBVIOUS

(* repeatableTimeout arms the timer again before its callback is called.   *)
LEMMA FireRepeatKeeps == ASSUME TimersInv, NEW t \in timers_, FireRepeat(t)
                         PROVE  TimersInv'
<1> DEFINE rep == timerReps_[t.id]
           next == rep.at + rep.interval
<1>1. /\ timers_' = (timers_ \ {t}) \cup {Entry(t.id, next)}
      /\ timerReps_' = [timerReps_ EXCEPT ![t.id] = [rep EXCEPT !.at = next]]
      /\ nextTimeout_' = Nearest(timers_')
      /\ calls' = [calls EXCEPT ![t.id] = calls[t.id] + 1]
      /\ running' = t.id /\ place' = "callback"
      /\ t.id \in Repeat /\ t.id \in Ids /\ t.id # NoTimer /\ t.at <= due
      /\ UNCHANGED <<now, exitSet, due, first, cancelled, undefined>>
  BY DEF FireRepeat, NextDeadline, Ids, IsNext
<1>2. /\ t.id \in DOMAIN timerReps_ /\ rep \in Nodes /\ t.at = rep.at
      /\ rep.at = first[t.id] + calls[t.id] * rep.interval
      /\ t.id \notin cancelled /\ first[t.id] # 0
  BY <1>1 DEF TimersInv, TimersTyped, RepeatArmed, NodeArmed, CancelledGone, UnusedQuiet
<1>3. /\ rep.at \in Nat \ {0} /\ rep.interval \in Nat \ {0} /\ next \in Nat \ {0}
      /\ calls[t.id] \in Nat /\ first[t.id] \in Nat /\ due \in Nat /\ now \in Nat
  BY <1>1, <1>2 DEF TimersInv, TimersTyped, Nodes
<1>4. /\ DOMAIN timerReps_' = DOMAIN timerReps_
      /\ \A r \in DOMAIN timerReps_ \ {t.id} : timerReps_'[r] = timerReps_[r]
      /\ timerReps_'[t.id] = [at |-> next, interval |-> rep.interval]
  BY <1>1, <1>2 DEF Nodes
<1>5. timerReps_'[t.id] \in Nodes
  BY <1>3, <1>4 DEF Nodes
<1>6. /\ calls' \in [Ids -> Nat] /\ calls'[t.id] = calls[t.id] + 1
      /\ \A r \in Ids \ {t.id} : calls'[r] = calls[r]
  BY <1>1 DEF TimersInv, TimersTyped
<1>7. next = first[t.id] + (calls[t.id] + 1) * rep.interval
  BY <1>2, <1>3, OneMore
<1>8. \A u \in timers_ : u.id = t.id => u = t
  BY <1>1, EntryOfFields DEF TimersInv, TimersTyped, RepeatArmed
<1>9. timers_' \subseteq Entries /\ nextTimeout_' \in Nat
  <2>1. timers_' \subseteq Entries
    BY <1>1, <1>3, EntryIsEntry DEF TimersInv, TimersTyped
  <2>2. QED
    BY <2>1, <1>1, <1>3, NearestInTime
<1> HIDE DEF next
<1>10. TimersTyped'
  <2>1. \A r \in DOMAIN timerReps_' : timerReps_'[r] \in Nodes
    BY <1>4, <1>5 DEF TimersInv, TimersTyped
  <2>2. QED
    BY <1>1, <1>4, <1>6, <1>9, <2>1 DEF TimersTyped, TimersInv
<1>11. UnusedQuiet'
  BY <1>1, <1>2, <1>4, <1>6, EntryFields DEF TimersInv, UnusedQuiet
<1>12. CancelledGone'
  BY <1>1, <1>2, <1>4, EntryFields DEF TimersInv, CancelledGone
<1>13. RepeatArmed'
  BY <1>1, <1>2, <1>4, <1>8, EntryFields DEF TimersInv, RepeatArmed
<1>14. NodeArmed'
  <2> SUFFICES ASSUME NEW r \in DOMAIN timerReps_
               PROVE  /\ Entry(r, timerReps_'[r].at) \in timers_'
                      /\ timerReps_'[r].at = first[r] + calls'[r] * timerReps_'[r].interval
                      /\ calls'[r] > 0 => timerReps_'[r].at <= due + timerReps_'[r].interval
    BY <1>1, <1>4 DEF NodeArmed
  <2>1. CASE r = t.id
    <3>1. next <= due + rep.interval
      BY <1>1, <1>2, <1>3 DEF next
    <3>2. QED
      BY <2>1, <3>1, <1>1, <1>4, <1>6, <1>7
  <2>2. CASE r # t.id
    <3>1. r \in Ids
      BY DEF TimersInv, TimersTyped, Ids
    <3>2. Entry(r, timerReps_[r].at) \in timers_'
      BY <2>2, <1>1, EntryFields DEF TimersInv, NodeArmed
    <3>3. QED
      BY <2>2, <3>1, <3>2, <1>4, <1>6 DEF TimersInv, NodeArmed
  <2>3. QED
    BY <2>1, <2>2
<1>15. AllDueCalled' /\ PollInTime'
  BY <1>1 DEF AllDueCalled, PollInTime
<1>16. QED
  BY <1>10, <1>11, <1>12, <1>13, <1>14, <1>15 DEF TimersInv

LEMMA TurnKeeps == TimersInv /\ Turn => TimersInv'
<1> SUFFICES ASSUME TimersInv, Turn PROVE TimersInv'
  OBVIOUS
<1> USE DEF timerHistory
<1>1. CASE TurnEnter
  <2>1. AllDueCalled'
    BY <1>1 DEF TurnEnter, TimersInv, TimersTyped, AllDueCalled, Entries
  <2>2. QED
    BY <1>1, <2>1 DEF TurnEnter, TimersInv, TimersTyped, UnusedQuiet, CancelledGone,
                      RepeatArmed, NodeArmed, AllDueCalled, PollInTime
<1>2. CASE TurnTest
  <2>1. CASE exitSet
    <3>1. /\ place' = "lastEvents" /\ timers_' = {} /\ DOMAIN timerReps_' = {}
          /\ place # "callback"
          /\ UNCHANGED <<now, nextTimeout_, exitSet, due, running, first, calls, cancelled,
                         undefined>>
      BY <1>2, <2>1 DEF TurnTest
    <3>2. TimersTyped'
      BY <3>1 DEF TimersInv, TimersTyped
    <3>3. QED
      BY <3>1, <3>2 DEF TimersInv, UnusedQuiet, CancelledGone, RepeatArmed, NodeArmed,
                        AllDueCalled, PollInTime
  <2>2. CASE ~exitSet
    BY <1>2, <2>2 DEF TurnTest, TimersInv, TimersTyped, UnusedQuiet, CancelledGone,
                      RepeatArmed, NodeArmed, AllDueCalled, PollInTime
  <2>3. QED
    BY <2>1, <2>2
<1>3. CASE TurnPoll
  <2>1. now' \in now .. MaxTime
    BY <1>3 DEF TurnPoll
  <2>2. TimersTyped'
    BY <1>3, <2>1 DEF TurnPoll, TimersInv, TimersTyped
  <2>3. QED
    BY <1>3, <2>2 DEF TurnPoll, TimersInv, UnusedQuiet, CancelledGone,
                      RepeatArmed, NodeArmed, AllDueCalled, PollInTime
<1>4. CASE EventsDone
  <2>1. /\ due' \in {due, now} /\ place' \in {"timeouts", "returned"} /\ place # "callback"
        /\ UNCHANGED <<now, timers_, timerReps_, nextTimeout_, exitSet, running, first, calls,
                       cancelled, undefined>>
    BY <1>4 DEF EventsDone
  <2>2. due' \in 0 .. now /\ due <= due'
    BY <2>1 DEF TimersInv, TimersTyped
  <2>3. TimersTyped'
    BY <2>1, <2>2 DEF TimersInv, TimersTyped
  <2>4. NodeArmed'
    <3>1. \A r \in DOMAIN timerReps_ :
              timerReps_[r].at \in Nat /\ timerReps_[r].interval \in Nat
      BY DEF TimersInv, TimersTyped, Nodes
    <3>2. due \in Nat /\ due' \in Nat
      BY <2>2 DEF TimersInv, TimersTyped
    <3>3. \A r \in DOMAIN timerReps_ : timerReps_[r].at <= due + timerReps_[r].interval
             => timerReps_[r].at <= due' + timerReps_[r].interval
      BY <2>2, <3>1, <3>2
    <3>4. QED
      BY <2>1, <3>3 DEF TimersInv, NodeArmed
  <2>5. UnusedQuiet' /\ CancelledGone' /\ RepeatArmed' /\ AllDueCalled' /\ PollInTime'
    BY <2>1 DEF TimersInv, UnusedQuiet, CancelledGone, RepeatArmed, AllDueCalled, PollInTime
  <2>6. QED
    BY <2>3, <2>4, <2>5 DEF TimersInv
<1>5. CASE CallbackDone
  BY <1>5 DEF CallbackDone, TimersInv, TimersTyped, UnusedQuiet, CancelledGone,
              RepeatArmed, NodeArmed, AllDueCalled, PollInTime
<1>6. CASE TimeoutsDone
  <2>1. /\ place' = "test" /\ place = "timeouts"
        /\ \A t \in timers_ : t.at > due
        /\ nextTimeout_' = Nearest(timers_)
        /\ UNCHANGED <<now, timers_, timerReps_, exitSet, due, running, first, calls,
                       cancelled, undefined>>
    BY <1>6 DEF TimeoutsDone
  <2>2. timers_ \subseteq Entries /\ now \in Nat /\ MaxTime \in Nat
    BY DEF TimersInv, TimersTyped
  <2>3. /\ nextTimeout_' \in Nat
        /\ \A t \in timers_ : nextTimeout_' = 0 \/ now + nextTimeout_' <= t.at
    BY <2>1, <2>2, NearestInTime
  <2>4. TimersTyped'
    BY <2>1, <2>3 DEF TimersInv, TimersTyped
  <2>5. AllDueCalled' /\ PollInTime'
    BY <2>1, <2>3 DEF AllDueCalled, PollInTime
  <2>6. UnusedQuiet' /\ CancelledGone' /\ RepeatArmed' /\ NodeArmed'
    BY <2>1 DEF TimersInv, UnusedQuiet, CancelledGone, RepeatArmed, NodeArmed
  <2>7. QED
    BY <2>4, <2>5, <2>6 DEF TimersInv
<1>7. QED
  BY <1>1, <1>2, <1>3, <1>4, <1>5, <1>6, FireOnceKeeps, FireRepeatKeeps DEF Turn

LEMMA TimersNextInv == TimersInv /\ [TimersNext]_timerVars => TimersInv'
<1> SUFFICES ASSUME TimersInv, [TimersNext]_timerVars PROVE TimersInv'
  OBVIOUS
<1>1. CASE UNCHANGED timerVars
  BY <1>1 DEF timerVars, timerHistory, TimersInv, TimersTyped, UnusedQuiet, CancelledGone,
              RepeatArmed, NodeArmed, AllDueCalled, PollInTime
<1>2. QED
  BY <1>1, UserKeeps, TurnKeeps DEF TimersNext

LEMMA TimersInvariant == TimersSpec => []TimersInv
  BY TimersInitInv, TimersNextInv, PTL DEF TimersSpec

-----------------------------------------------------------------------------
(* The timers keep their types, what the poll may wait is never negative,  *)
(* a timer runs exactly while its callback is called, and nothing is known *)
(* of an id that was never used (event_base.cc:170-178, 225-280).          *)
THEOREM TimersTypeCorrect == TimersSpec => []TimersOK
<1>1. TimersInv => TimersOK
  <2> SUFFICES ASSUME TimersInv PROVE TimersOK
    OBVIOUS
  <2>1. TimersTyped /\ UnusedQuiet
    BY DEF TimersInv
  <2>2. due \in 0 .. MaxTime
    BY <2>1 DEF TimersTyped
  <2>3. \A t \in timers_ : t.id \in Ids /\ t.at \in Nat
    BY <2>1 DEF TimersTyped, Entries
  <2>4. exitSet \in BOOLEAN /\ undefined \in BOOLEAN
    BY <2>1 DEF TimersTyped
  <2>5. QED
    BY <2>1, <2>2, <2>3, <2>4 DEF TimersOK, TimersTyped, UnusedQuiet
<1>2. QED
  BY <1>1, TimersInvariant, PTL

(* A repeating timer is armed once, n intervals after its first deadline   *)
(* when it was called n times, and each turn makes up for all it missed    *)
(* (event_base.cc:170-178, 235-280).                                       *)
THEOREM RhythmAlwaysKept == TimersSpec => []RhythmKept
<1>1. TimersInv => RhythmKept
  <2> SUFFICES ASSUME TimersInv, NEW id \in Repeat
               PROVE  IF id \notin DOMAIN timerReps_ THEN ArmedFor(id) = {}
                      ELSE /\ ArmedFor(id) = {timerReps_[id].at}
                           /\ timerReps_[id].at =
                                  first[id] + calls[id] * timerReps_[id].interval
                           /\ place = "poll" =>
                                /\ timerReps_[id].at > due
                                /\ calls[id] > 0 =>
                                     timerReps_[id].at - timerReps_[id].interval <= due
    BY DEF RhythmKept
  <2>1. CASE id \notin DOMAIN timerReps_
    BY <2>1 DEF TimersInv, RepeatArmed, ArmedFor
  <2>2. CASE id \in DOMAIN timerReps_
    <3> DEFINE rep == timerReps_[id]
    <3>1. /\ Entry(id, rep.at) \in timers_
          /\ rep.at = first[id] + calls[id] * rep.interval
          /\ calls[id] > 0 => rep.at <= due + rep.interval
      BY <2>2 DEF TimersInv, NodeArmed
    <3>2. ArmedFor(id) = {rep.at}
      BY <3>1, EntryFields DEF TimersInv, RepeatArmed, ArmedFor
    <3>3. rep.at \in Nat /\ rep.interval \in Nat /\ due \in Nat
      BY <2>2 DEF TimersInv, TimersTyped, Nodes
    <3>4. place = "poll" => rep.at > due
      BY <3>1, EntryFields DEF TimersInv, AllDueCalled
    <3>5. calls[id] > 0 => rep.at - rep.interval <= due
      BY <3>1, <3>3
    <3>6. QED
      BY <2>2, <3>1, <3>2, <3>4, <3>5
  <2>3. QED
    BY <2>1, <2>2
<1>2. QED
  BY <1>1, TimersInvariant, PTL

(* No step calls a timer that was cancelled, in whatever turn it was       *)
(* (event_base.cc:170-176, 263-280).                                       *)
THEOREM CancelledNeverCalled == TimersSpec => CancelIsFinal
<1>1. TimersInv /\ [TimersNext]_timerVars => \A id \in cancelled : calls'[id] = calls[id]
  <2> SUFFICES ASSUME TimersInv, [TimersNext]_timerVars, NEW id \in cancelled
               PROVE  calls'[id] = calls[id]
    OBVIOUS
  <2>1. /\ calls \in [Ids -> Nat] /\ id \in Ids
        /\ \A t \in timers_ : t.id # id
    BY DEF TimersInv, TimersTyped, CancelledGone
  <2>2. ASSUME NEW t \in timers_, FireOnce(t) \/ FireRepeat(t)
        PROVE  calls'[id] = calls[id]
    BY <2>1, <2>2 DEF FireOnce, FireRepeat
  <2>3. CASE UNCHANGED calls
    BY <2>3
  <2>4. QED
    BY <2>2, <2>3 DEF TimersNext, User, Turn, RunOnce, RunRepeatedly, CancelOnce, CancelRepeat,
       TimersExit, Tick, TurnEnter, TurnTest, TurnPoll, EventsDone, CallbackDone, TimeoutsDone,
       timerVars, timerHistory
<1>2. QED
  BY <1>1, TimersInvariant, PTL DEF TimersSpec, CancelIsFinal

(* After the first turn the poll is over when the nearest deadline is      *)
(* reached (event_base.cc:77-80, 225-233).                                 *)
THEOREM PollNeverOversleeps == TimersSpec => NoOversleep
<1> DEFINE A == place = "poll" /\ due # 0 => \A t \in timers_ : now' <= now \/ now' <= t.at
<1>1. TimersInv /\ [TimersNext]_timerVars => A
  <2> SUFFICES ASSUME TimersInv, [TimersNext]_timerVars, place = "poll", due # 0,
                      NEW t \in timers_
               PROVE  now' <= now \/ now' <= t.at
    OBVIOUS
  <2>1. /\ now \in Nat /\ nextTimeout_ \in Nat /\ t.at \in Nat
        /\ nextTimeout_ = 0 \/ now + nextTimeout_ <= t.at
    BY DEF TimersInv, TimersTyped, Entries, PollInTime
  <2>2. CASE TurnPoll
    <3>1. now' \in Nat /\ now' <= now + nextTimeout_
      BY <2>1, <2>2 DEF TurnPoll
    <3>2. QED
      BY <2>1, <3>1
  <2>3. CASE now' = now
    BY <2>1, <2>3
  <2>4. QED
    BY <2>2, <2>3 DEF TimersNext, User, Turn, RunOnce, RunRepeatedly, CancelOnce, CancelRepeat,
       TimersExit, Tick, UserRuns, TurnEnter, TurnTest, EventsDone, FireOnce, FireRepeat,
       CallbackDone, TimeoutsDone, timerVars
<1>2. QED
  BY <1>1, TimersInvariant, PTL DEF TimersSpec, NoOversleep
=============================================================================
