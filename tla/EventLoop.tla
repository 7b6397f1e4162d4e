----------------------------- MODULE EventLoop -----------------------------
(***************************************************************************)
(* muduo's EventLoop with its TimerQueue, as the server uses it (external: *)
(* the repository has its headers and a binary library only).  A client    *)
(* thread asks for a timer or cancels one by queueing a functor; the loop  *)
(* thread alternates between polling, the callbacks of the timers that     *)
(* expired, and the functors that were pending when it got to them.        *)
(***************************************************************************)
EXTENDS Naturals, Sequences

VARIABLES functors,   \* pendingFunctors_, the batch being run in front
          batch,      \* how many of them belong to the batch being run
          timers,     \* the repeating timers of the TimerQueue
          expired,    \* timers whose callback is due in this iteration
          phase       \* where the loop thread is

loopVars == <<functors, batch, timers, expired, phase>>

LoopInit == /\ functors = << >>
            /\ batch = 0
            /\ timers = {}
            /\ expired = {}
            /\ phase = "created"

-----------------------------------------------------------------------------
(* runEvery and cancel, called from a thread that is not the loop's.       *)
QueueInLoop(op, t) ==
    /\ functors' = Append(functors, [op |-> op, timer |-> t])
    /\ UNCHANGED <<batch, timers, expired, phase>>

(* runEvery, called by the thread the loop belongs to: no detour.          *)
AddTimerInLoop(t) ==
    /\ timers' = timers \union {t}
    /\ UNCHANGED <<functors, batch, expired, phase>>

(* loop() is entered.                                                      *)
EnterLoop ==
    /\ phase = "created"
    /\ phase' = "poll"
    /\ UNCHANGED <<functors, batch, timers, expired>>

(* poll() returns: some of the timers have expired, perhaps none (a        *)
(* wake-up, or the poll timeout).                                          *)
Poll(due) ==
    /\ phase = "poll"
    /\ due \subseteq timers
    /\ expired' = due
    /\ phase' = "callbacks"
    /\ UNCHANGED <<functors, batch, timers>>

(* The callback of an expired timer returns; the timer is re-armed.        *)
Callback(t) ==
    /\ phase = "callbacks"
    /\ t \in expired
    /\ expired' = expired \ {t}
    /\ UNCHANGED <<functors, batch, timers, phase>>

TakeFunctorsFault ==                \* one functor for each turn of the loop
    /\ phase = "callbacks"
    /\ expired = {}
    /\ batch' = IF functors = << >> THEN 0 ELSE 1
    /\ phase' = "functors"
    /\ UNCHANGED <<functors, timers, expired>>

(* doPendingFunctors takes what is pending now; later ones have to wait.   *)
TakeFunctors ==
    /\ phase = "callbacks"
    /\ expired = {}
    /\ batch' = Len(functors)
    /\ phase' = "functors"
    /\ UNCHANGED <<functors, timers, expired>>

(* One functor of the batch: addTimerInLoop, or cancelInLoop, which ignores*)
(* a timer it does not find.                                               *)
RunFunctor ==
    /\ phase = "functors"
    /\ batch > 0
    /\ batch' = batch - 1
    /\ functors' = Tail(functors)
    /\ timers' = IF Head(functors).op = "add"
                 THEN timers \union {Head(functors).timer}
                 ELSE timers \ {Head(functors).timer}
    /\ UNCHANGED <<expired, phase>>

FunctorsDone ==
    /\ phase = "functors"
    /\ batch = 0
    /\ phase' = "poll"
    /\ UNCHANGED <<functors, batch, timers, expired>>
=============================================================================
