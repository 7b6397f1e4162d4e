----------------------------- MODULE HandyLoop -----------------------------
(***************************************************************************)
(* How other threads reach an event loop of the handy library              *)
(* (HttpServer/handy/event_base.cc, threads.h): safeCall puts a task into  *)
(* a queue and a byte into a pipe, the loop polls the pipe, and exit() ends*)
(* the loop.  HttpServer/timer.cc and http-hello.cc run such loops.        *)
(*                                                                         *)
(* The pipe is limited, and written to with a blocking write: a thread     *)
(* waits when it is full, the loop's own thread included.  Timers and      *)
(* other channels only make the poll return early (see HandyTimers).       *)
(***************************************************************************)
EXTENDS Naturals, Sequences, FiniteSets

CONSTANTS Tasks, Callers,
          Capacity,    \* taskCap: 0 is no limit
          PipeSize,    \* bytes the pipe holds (65536)
          ReadSize,    \* bytes one read takes out of it (1024)
          NoTask

ASSUME SizesAssumption == /\ Capacity \in Nat
                          /\ PipeSize \in Nat \ {0} /\ ReadSize \in Nat \ {0}
ASSUME NoTaskAssumption == NoTask \notin Tasks

VARIABLES items,       \* tasks_
          pipe,        \* bytes in the wakeup pipe
          exit_,
          loop,        \* the loop thread's place
          task,        \* the task it runs, or NoTask
          last,        \* it is in loop()'s final loop_once(0)
          calling,     \* what each caller has pushed without a wakeup yet
          exiting,     \* exit() has set its flag and not yet woken the loop
          posted, ran, \* history: tasks given to safeCall, tasks that ran
          refused,     \* history: tasks the full queue did not take
          promised     \* history: tasks whose safeCall was over before exit()

loopVars == <<loop, task, last>>
callVars == <<calling, exiting>>
history == <<posted, ran, refused, promised>>
vars == <<items, pipe, exit_, loopVars, callVars, history>>

Init == /\ items = << >>
        /\ pipe = 0
        /\ exit_ = FALSE
        /\ loop = "test"
        /\ task = NoTask
        /\ last = FALSE
        /\ calling = [c \in Callers |-> NoTask]
        /\ exiting = FALSE
        /\ posted = {}
        /\ ran = {}
        /\ refused = {}
        /\ promised = {}

-----------------------------------------------------------------------------
(* Seeded faults: a definition whose name ends in "Fault" is a plausible   *)
(* slip in the definition that follows it; it is not part of Next, and     *)
(* PROJECT.json names the property that notices it.                        *)
PushFault(t) ==                        \* items_.size() > capacity_
    /\ t \in Tasks \ posted
    /\ posted' = posted \cup {t}
    /\ IF Capacity > 0 /\ Len(items) > Capacity
       THEN refused' = refused \cup {t} /\ UNCHANGED items
       ELSE items' = Append(items, t) /\ UNCHANGED refused
(* SafeQueue::push.  safeCall does not look at its result: a task that is  *)
(* refused is gone, and the loop is woken all the same.                    *)
Push(t) ==
    /\ t \in Tasks \ posted
    /\ posted' = posted \cup {t}
    /\ IF Capacity > 0 /\ Len(items) >= Capacity
       THEN refused' = refused \cup {t} /\ UNCHANGED items
       ELSE items' = Append(items, t) /\ UNCHANGED refused

(* wakeup: write blocks while the pipe is full.                            *)
WriteByte == pipe < PipeSize /\ pipe' = pipe + 1

(* safeCall on another thread.                                             *)
SafeCall(c, t) ==
    /\ calling[c] = NoTask
    /\ Push(t)
    /\ calling' = [calling EXCEPT ![c] = t]
    /\ UNCHANGED <<pipe, exit_, loopVars, exiting, ran, promised>>

Wakeup(c) ==
    /\ calling[c] # NoTask
    /\ WriteByte
    /\ calling' = [calling EXCEPT ![c] = NoTask]
    /\ promised' = IF exit_ THEN promised ELSE promised \cup {calling[c]}
    /\ UNCHANGED <<items, exit_, loopVars, exiting, posted, ran, refused>>

(* exit() on another thread, once.                                         *)
Exit ==
    /\ ~exit_
    /\ exit_' = TRUE
    /\ exiting' = TRUE
    /\ UNCHANGED <<items, pipe, loopVars, calling, history>>

ExitWakeup ==
    /\ exiting
    /\ WriteByte
    /\ exiting' = FALSE
    /\ UNCHANGED <<items, exit_, loopVars, calling, history>>

-----------------------------------------------------------------------------
LoopTestFault ==                       \* no final loop_once(0)
    /\ loop = "test"
    /\ loop' = IF exit_ THEN "returned" ELSE "poll"
    /\ UNCHANGED <<items, pipe, exit_, task, last, callVars, history>>
(* loop(): while (!exit_) loop_once(10000), and once more without waiting. *)
LoopTest ==
    /\ loop = "test"
    /\ loop' = "poll"
    /\ last' = exit_
    /\ UNCHANGED <<items, pipe, exit_, task, callVars, history>>

AfterOnce == IF last THEN "returned" ELSE "test"

LoopPollFault ==                       \* waits again after a wakeup for nothing
    /\ loop = "poll"
    /\ loop' = IF pipe > 0 /\ items # << >> THEN "read" ELSE "poll"
    /\ UNCHANGED <<items, pipe, exit_, task, last, callVars, history>>
(* epoll_wait reports the pipe as long as there is something in it.  It    *)
(* returns without it for a timer, another channel, or after 10 seconds.   *)
LoopPoll ==
    /\ loop = "poll"
    /\ loop' = IF pipe > 0 THEN "read" ELSE AfterOnce
    /\ UNCHANGED <<items, pipe, exit_, task, last, callVars, history>>

LoopReadFault ==                       \* as if a poll cleared the event
    /\ loop = "read"
    /\ loop' = "drain"
    /\ UNCHANGED <<items, pipe, exit_, task, last, callVars, history>>
(* The pipe first ...                                                      *)
LoopRead ==
    /\ loop = "read"
    /\ pipe' = IF pipe > ReadSize THEN pipe - ReadSize ELSE 0
    /\ loop' = "drain"
    /\ UNCHANGED <<items, exit_, task, last, callVars, history>>

LoopDrainFault ==                      \* if, not while
    /\ loop = "drain"
    /\ IF items = << >> \/ task # NoTask
       THEN loop' = AfterOnce /\ task' = NoTask /\ UNCHANGED items
       ELSE loop' = "task" /\ task' = Head(items) /\ items' = Tail(items)
    /\ UNCHANGED <<pipe, exit_, last, callVars, history>>
(* ... then all tasks there are: while (tasks_.pop_wait(&task, 0)).        *)
LoopDrain ==
    /\ loop = "drain"
    /\ IF items = << >>
       THEN loop' = AfterOnce /\ task' = NoTask /\ UNCHANGED items
       ELSE loop' = "task" /\ task' = Head(items) /\ items' = Tail(items)
    /\ UNCHANGED <<pipe, exit_, last, callVars, history>>

(* A task may use safeCall itself, any number of times.                    *)
LoopTask ==
    /\ loop = "task"
    /\ ran' = ran \cup {task}
    /\ loop' = "drain"
    /\ UNCHANGED <<items, pipe, exit_, task, last, callVars, posted, refused, promised>>

LoopSafeCall(t) ==
    /\ loop = "task"
    /\ Push(t)
    /\ loop' = "wakeup"
    /\ UNCHANGED <<pipe, exit_, task, last, callVars, ran, promised>>

LoopWakeup ==
    /\ loop = "wakeup"
    /\ WriteByte
    /\ loop' = "task"
    /\ UNCHANGED <<items, exit_, task, last, callVars, history>>

-----------------------------------------------------------------------------
Loop == \/ LoopTest \/ LoopPoll \/ LoopRead \/ LoopDrain \/ LoopTask
        \/ LoopWakeup \/ \E t \in Tasks : LoopSafeCall(t)
Call(c) == Wakeup(c) \/ \E t \in Tasks : SafeCall(c, t)

Next == Loop \/ Exit \/ ExitWakeup \/ \E c \in Callers : Call(c)

(* Every thread runs on; nobody has to make a call.                        *)
Fairness == /\ WF_vars(Loop) /\ WF_vars(ExitWakeup)
            /\ \A c \in Callers : WF_vars(Wakeup(c))

Spec == Init /\ [][Next]_vars /\ Fairness

-----------------------------------------------------------------------------
TypeOK ==
    /\ items \in Seq(Tasks) /\ (Capacity > 0 => Len(items) <= Capacity)
    /\ pipe \in 0 .. PipeSize
    /\ exit_ \in BOOLEAN /\ last \in BOOLEAN /\ exiting \in BOOLEAN
    /\ loop \in {"test", "poll", "read", "drain", "task", "wakeup", "returned"}
    /\ task \in Tasks \cup {NoTask}
    /\ calling \in [Callers -> Tasks \cup {NoTask}]
    /\ ran \cup refused \cup promised \subseteq posted /\ posted \subseteq Tasks
    /\ ran \cap refused = {}

(* No task is forgotten in the queue: until the loop has returned there is *)
(* a byte in the pipe, or one about to be written, or the loop is taking   *)
(* tasks out.  One read may swallow the bytes of several calls, and a call *)
(* comes between any two steps (event_base.cc:72-85, 153-168).             *)
NoStrandedTask ==
    items # << >> => \/ pipe > 0
                     \/ \E c \in Callers : calling[c] # NoTask
                     \/ loop \in {"drain", "task", "wakeup", "returned"}

(* What was handed over before anybody called exit() is done before loop() *)
(* returns (event_base.cc:66-85, 132-142).                                 *)
PromiseKept == loop = "returned" => promised \subseteq ran \cup refused

(* The loop's own thread waits for room in the pipe that only it can make: *)
(* tasks that call safeCall while the other threads have filled it.        *)
SelfBlocked == loop = "wakeup" /\ pipe = PipeSize

(* A task that was accepted runs, a thread that made a call is not held up *)
(* for ever, and exit() ends the loop, unless the loop blocks itself; when *)
(* it has returned nobody reads the pipe (event_base.cc:66-85, 132-168).   *)
CallsEnd ==
    /\ \A t \in Tasks : t \in posted \ refused ~> t \in ran \/ exit_ \/ SelfBlocked
    /\ \A c \in Callers :
           calling[c] # NoTask ~> calling[c] = NoTask \/ loop = "returned" \/ SelfBlocked
    /\ exit_ ~> loop = "returned" \/ SelfBlocked
=============================================================================
