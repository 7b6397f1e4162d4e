---------------------------- MODULE CommandQueue ----------------------------
(***************************************************************************)
(* CommonList as the server uses it (Base/BaseList.cpp over Base/Lock.cpp  *)
(* and Base/Condition.cpp): producers call pushLockList for every accepted *)
(* /live/poll request, one consumer (manage_fun) calls popLockList in a    *)
(* loop.  The model is at the grain of the individual pthread calls: a     *)
(* thread can be preempted between any two of them.                        *)
(***************************************************************************)
EXTENDS Naturals, Sequences

CONSTANTS Producers,        \* threads that call pushLockList
          Consumer,         \* the thread that calls popLockList
          Params,           \* the PollParam objects the producers allocate
          NULL              \* a null pointer; also "nobody holds the mutex"

ASSUME ThreadsAssumption == /\ Consumer \notin Producers
                            /\ NULL \notin Producers \union {Consumer}
ASSUME ParamsAssumption == NULL \notin Params

Threads == Producers \union {Consumer}

VARIABLES m_list,      \* CommonList::m_list, front first
          m_lock,      \* owner of CommonList::m_lock, or NULL
          m_fullcond,  \* what has happened to the consumer's wait
          pc,          \* next statement of each thread
          data,        \* the void *data of each thread
          fresh,       \* PollParam objects not allocated yet (bounds a run)
          spurious     \* history: a wake-up that no signal has caused

vars == <<m_list, m_lock, m_fullcond, pc, data, fresh, spurious>>

Init == /\ m_list = << >>
        /\ m_lock = NULL
        /\ m_fullcond = "none"
        /\ pc = [t \in Threads |-> "idle"]
        /\ data = [t \in Threads |-> NULL]
        /\ fresh = Params
        /\ spurious = FALSE

Goto(t, label) == pc' = [pc EXCEPT ![t] = label]

Acquire(t) == m_lock = NULL /\ m_lock' = t
Release == m_lock' = NULL

-----------------------------------------------------------------------------
(* Seeded faults: a definition whose name ends in "Fault" is a plausible   *)
(* slip in the definition of that name that follows it; it is not part of  *)
(* Next, and PROJECT.json names the property that notices it.              *)
NewParamFault(p, x) ==              \* the pointer is never set
    /\ pc[p] = "idle"
    /\ x \in fresh
    /\ fresh' = fresh \ {x}
    /\ Goto(p, "lock")
    /\ UNCHANGED <<m_list, m_lock, m_fullcond, data, spurious>>

(* ev_handler allocates a PollParam and calls pushLockList on it.          *)
NewParam(p, x) ==
    /\ pc[p] = "idle"
    /\ x \in fresh
    /\ fresh' = fresh \ {x}
    /\ data' = [data EXCEPT ![p] = x]
    /\ Goto(p, "lock")
    /\ UNCHANGED <<m_list, m_lock, m_fullcond, spurious>>

PushLock(p) ==
    /\ pc[p] = "lock"
    /\ Acquire(p)
    /\ Goto(p, "push_back")
    /\ UNCHANGED <<m_list, m_fullcond, data, fresh, spurious>>

PushBackFault(p) ==                 \* push_front
    /\ pc[p] = "push_back"
    /\ m_list' = <<data[p]>> \o m_list
    /\ data' = [data EXCEPT ![p] = NULL]
    /\ Goto(p, "notify")
    /\ UNCHANGED <<m_lock, m_fullcond, fresh, spurious>>

(* The list owns the parameter from here on: the producer does not use its *)
(* pointer again.                                                          *)
PushBack(p) ==
    /\ pc[p] = "push_back"
    /\ m_list' = Append(m_list, data[p])
    /\ data' = [data EXCEPT ![p] = NULL]
    /\ Goto(p, "notify")
    /\ UNCHANGED <<m_lock, m_fullcond, fresh, spurious>>

NotifyFault(p) ==                   \* signals the other condition, m_emptycond
    /\ pc[p] = "notify"
    /\ Goto(p, "unlock")
    /\ UNCHANGED <<m_list, m_lock, m_fullcond, data, fresh, spurious>>

(* pthread_cond_signal is lost when nobody waits.                          *)
Notify(p) ==
    /\ pc[p] = "notify"
    /\ m_fullcond' = IF m_fullcond = "asleep" THEN "signalled" ELSE m_fullcond
    /\ Goto(p, "unlock")
    /\ UNCHANGED <<m_list, m_lock, data, fresh, spurious>>

PushUnlock(p) ==
    /\ pc[p] = "unlock"
    /\ Release
    /\ Goto(p, "idle")
    /\ UNCHANGED <<m_list, m_fullcond, data, fresh, spurious>>

-----------------------------------------------------------------------------
(* popLockList, called in a loop by the consumer.                          *)
PopLock ==
    /\ pc[Consumer] = "idle"
    /\ Acquire(Consumer)
    /\ Goto(Consumer, "test")
    /\ UNCHANGED <<m_list, m_fullcond, data, fresh, spurious>>

PopNonEmpty ==
    /\ pc[Consumer] = "test"
    /\ m_list # << >>
    /\ Goto(Consumer, "front")
    /\ UNCHANGED <<m_list, m_lock, m_fullcond, data, fresh, spurious>>

(* The list is empty: pthread_cond_timedwait gives the mutex up and sleeps.*)
Wait ==
    /\ pc[Consumer] = "test"
    /\ m_list = << >>
    /\ Release
    /\ m_fullcond' = "asleep"
    /\ Goto(Consumer, "wait")
    /\ UNCHANGED <<m_list, data, fresh, spurious>>

(* The three seconds are over before a signal arrives.                     *)
Timeout ==
    /\ m_fullcond = "asleep"
    /\ m_fullcond' = "timedout"
    /\ UNCHANGED <<m_list, m_lock, pc, data, fresh, spurious>>

(* pthread_cond_timedwait may return 0 although nobody has signalled.      *)
Spurious ==
    /\ m_fullcond = "asleep"
    /\ m_fullcond' = "signalled"
    /\ spurious' = TRUE
    /\ UNCHANGED <<m_list, m_lock, pc, data, fresh>>

WaitReturnFault ==                  \* the result of waitTime is ignored
    /\ pc[Consumer] = "wait"
    /\ m_fullcond \in {"signalled", "timedout"}
    /\ Acquire(Consumer)
    /\ m_fullcond' = "none"
    /\ Goto(Consumer, "front")
    /\ UNCHANGED <<m_list, data, fresh, spurious>>

(* The wait returns once it owns the mutex again; waitTime is false exactly*)
(* after ETIMEDOUT.  The `if` around the wait does not test empty() again. *)
WaitReturn ==
    /\ pc[Consumer] = "wait"
    /\ m_fullcond \in {"signalled", "timedout"}
    /\ Acquire(Consumer)
    /\ m_fullcond' = "none"
    /\ Goto(Consumer, IF m_fullcond = "timedout" THEN "giveup" ELSE "front")
    /\ UNCHANGED <<m_list, data, fresh, spurious>>

(* ETIMEDOUT: unlock and return NULL, even if the list has filled up.      *)
GiveUp ==
    /\ pc[Consumer] = "giveup"
    /\ Release
    /\ Goto(Consumer, "idle")
    /\ UNCHANGED <<m_list, m_fullcond, data, fresh, spurious>>

PopFront ==
    /\ pc[Consumer] = "front"
    /\ m_list # << >>
    /\ data' = [data EXCEPT ![Consumer] = Head(m_list)]
    /\ m_list' = Tail(m_list)
    /\ Goto(Consumer, "unlock")
    /\ UNCHANGED <<m_lock, m_fullcond, fresh, spurious>>

(* front() and pop_front() of an empty std::list are undefined behaviour.  *)
PopEmptyList ==
    /\ pc[Consumer] = "front"
    /\ m_list = << >>
    /\ Goto(Consumer, "undefined")
    /\ UNCHANGED <<m_list, m_lock, m_fullcond, data, fresh, spurious>>

PopUnlock ==
    /\ pc[Consumer] = "unlock"
    /\ Release
    /\ Goto(Consumer, "handle")
    /\ UNCHANGED <<m_list, m_fullcond, data, fresh, spurious>>

(* manage_fun uses the parameter and deletes it.                           *)
DeleteParam ==
    /\ pc[Consumer] = "handle"
    /\ data' = [data EXCEPT ![Consumer] = NULL]
    /\ Goto(Consumer, "idle")
    /\ UNCHANGED <<m_list, m_lock, m_fullcond, fresh, spurious>>

-----------------------------------------------------------------------------
PushStep(p) == PushLock(p) \/ PushBack(p) \/ Notify(p) \/ PushUnlock(p)

PopStep == \/ PopLock \/ PopNonEmpty \/ Wait \/ WaitReturn \/ GiveUp
           \/ PopFront \/ PopEmptyList \/ PopUnlock \/ DeleteParam

Next == \/ \E p \in Producers, x \in Params : NewParam(p, x)
        \/ \E p \in Producers : PushStep(p)
        \/ PopStep
        \/ Timeout
        \/ Spurious

(* A thread inside CommonList keeps running and the three-second timer     *)
(* expires; no request has to arrive.                                      *)
Spec == /\ Init /\ [][Next]_vars
        /\ \A p \in Producers : WF_vars(PushStep(p))
        /\ WF_vars(PopStep)
        /\ WF_vars(Timeout)

-----------------------------------------------------------------------------
InCriticalSection(t) ==
    pc[t] \in IF t = Consumer THEN {"test", "front", "giveup", "unlock", "undefined"}
                              ELSE {"push_back", "notify", "unlock"}

TypeOK ==
    /\ m_list \in Seq(Params)
    /\ m_lock \in Threads \union {NULL}
    /\ m_fullcond \in {"none", "asleep", "signalled", "timedout"}
    /\ pc \in [Threads -> {"idle", "lock", "push_back", "notify", "unlock", "test",
                           "wait", "front", "giveup", "handle", "undefined"}]
    /\ data \in [Threads -> Params \union {NULL}]
    /\ fresh \in SUBSET Params
    /\ spurious \in BOOLEAN

(* The list is read and written only by the owner of m_lock, through every *)
(* exit of popLockList and across the mutex hand-over inside the timed     *)
(* wait (BaseList.cpp:18-48, Condition.cpp:36-50).                         *)
MutualExclusion == \A t \in Threads : InCriticalSection(t) <=> m_lock = t

(* No lost wake-up: while the consumer sleeps without a pending signal the *)
(* list is empty, or the producer that filled it is about to notify        *)
(* (BaseList.cpp:20-23 against 32-36).                                     *)
NoLostWakeup ==
    m_fullcond = "asleep" =>
        \/ m_list = << >>
        \/ \E p \in Producers : pc[p] = "notify"

(* popLockList never takes the front of an empty list although it does not *)
(* test again after the wait: with one consumer the `if` is enough until   *)
(* the first spurious wake-up (BaseList.cpp:32-45).                        *)
NeverPopsEmptyList == pc[Consumer] = "undefined" => spurious

(* CommonList implements a reliable FIFO channel whose receiver is the     *)
(* consumer, with the channel's own progress (every parameter that was     *)
(* pushed is taken, timeouts notwithstanding).                             *)
Channel == INSTANCE FifoChannel WITH queue <- m_list, inHand <- data[Consumer]
ImplementsChannel == Channel!Spec
=============================================================================
