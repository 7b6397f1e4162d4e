------------------------ MODULE CommandQueue_proofs ------------------------
(***************************************************************************)
(* Proofs about CommandQueue, for any number of producers and parameters:  *)
(* one inductive invariant, Inv, from which the type invariant, the mutual *)
(* exclusion, the absence of lost wake-ups and the refinement of           *)
(* FifoChannel follow; until a spurious wake-up, also that the list is     *)
(* never popped while it is empty.                                         *)
(***************************************************************************)
EXTENDS CommandQueue, TLAPS

ProducerLabels == {"idle", "lock", "push_back", "notify", "unlock"}
ConsumerLabels == {"idle", "test", "wait", "front", "giveup", "unlock", "handle", "undefined"}

(* Each thread runs its own function.                                      *)
Labels == /\ \A p \in Producers : pc[p] \in ProducerLabels
          /\ pc[Consumer] \in ConsumerLabels

(* The state of the wait is meaningful exactly while the consumer waits.   *)
WaitState == m_fullcond # "none" <=> pc[Consumer] = "wait"

(* A thread has a parameter in hand at known places of its function.       *)
DataState ==
    /\ \A p \in Producers : data[p] # NULL <=> pc[p] \in {"lock", "push_back"}
    /\ data[Consumer] # NULL <=> pc[Consumer] \in {"unlock", "handle"}

(* A wake-up by a signal, and the way to front(), mean a non-empty list.   *)
WokenNonEmpty ==
    ~spurious =>
        /\ m_fullcond = "signalled" => m_list # << >>
        /\ pc[Consumer] = "front" => m_list # << >>
        /\ pc[Consumer] # "undefined"
        /\ \A p \in Producers : pc[p] = "notify" => m_list # << >>

Inv == TypeOK /\ Labels /\ WaitState /\ DataState /\ MutualExclusion
       /\ NoLostWakeup /\ WokenNonEmpty

-----------------------------------------------------------------------------
LEMMA InitInv == Init => Inv
<1> SUFFICES ASSUME Init PROVE Inv
  OBVIOUS
<1> USE ThreadsAssumption, ParamsAssumption DEF Init, Threads
<1>1. TypeOK
  <2>1. spurious \in BOOLEAN
    OBVIOUS
  <2>2. pc \in [Threads -> {"idle", "lock", "push_back", "notify", "unlock", "test",
                            "wait", "front", "giveup", "handle", "undefined"}]
    OBVIOUS
  <2>3. QED
    BY <2>1, <2>2 DEF TypeOK
<1>2. Labels /\ WaitState /\ DataState
  BY DEF Labels, WaitState, DataState, ProducerLabels, ConsumerLabels
<1>3. MutualExclusion /\ NoLostWakeup /\ WokenNonEmpty
  BY DEF MutualExclusion, NoLostWakeup, WokenNonEmpty, InCriticalSection
<1>4. QED
  BY <1>1, <1>2, <1>3 DEF Inv

LEMMA NextInv == Inv /\ [Next]_vars => Inv'
<1> SUFFICES ASSUME Inv, [Next]_vars PROVE Inv'
  OBVIOUS
<1> USE ThreadsAssumption, ParamsAssumption
    DEF Inv, TypeOK, Labels, WaitState, DataState, MutualExclusion, NoLostWakeup,
        WokenNonEmpty, Threads, InCriticalSection, ProducerLabels, ConsumerLabels,
        Goto, Acquire, Release
<1>1. ASSUME NEW p \in Producers, NEW x \in Params, NewParam(p, x) PROVE Inv'
  BY <1>1 DEF NewParam
<1>2. ASSUME NEW p \in Producers, PushLock(p) PROVE Inv'
  BY <1>2 DEF PushLock
<1>3. ASSUME NEW p \in Producers, PushBack(p) PROVE Inv'
  BY <1>3 DEF PushBack
<1>4. ASSUME NEW p \in Producers, Notify(p) PROVE Inv'
  BY <1>4 DEF Notify
<1>5. ASSUME NEW p \in Producers, PushUnlock(p) PROVE Inv'
  BY <1>5 DEF PushUnlock
<1>6. CASE PopLock
  BY <1>6 DEF PopLock
<1>7. CASE PopNonEmpty
  BY <1>7 DEF PopNonEmpty
<1>8. CASE Wait
  BY <1>8 DEF Wait
<1>9. CASE WaitReturn
  BY <1>9 DEF WaitReturn
<1>10. CASE GiveUp
  BY <1>10 DEF GiveUp
<1>11. CASE PopFront
  BY <1>11 DEF PopFront
<1>12. CASE PopEmptyList
  BY <1>12 DEF PopEmptyList
<1>13. CASE PopUnlock
  BY <1>13 DEF PopUnlock
<1>14. CASE DeleteParam
  BY <1>14 DEF DeleteParam
<1>15. CASE Timeout
  BY <1>15 DEF Timeout
<1>16. CASE Spurious
  BY <1>16 DEF Spurious
<1>17. CASE UNCHANGED vars
  BY <1>17 DEF vars
<1>18. QED
  BY <1>1, <1>2, <1>3, <1>4, <1>5, <1>6, <1>7, <1>8, <1>9, <1>10, <1>11, <1>12,
     <1>13, <1>14, <1>15, <1>16, <1>17 DEF Next, PushStep, PopStep

-----------------------------------------------------------------------------
LEMMA InvAlways == Spec => []Inv
  BY InitInv, NextInv, PTL DEF Spec

(* Every variable keeps its type: in particular the list only ever holds   *)
(* parameters, never a null pointer (BaseList.cpp:18-48).                  *)
THEOREM TypeCorrect == Spec => []TypeOK
<1>1. Inv => TypeOK
  BY DEF Inv
<1>2. QED
  BY InvAlways, <1>1, PTL

(* Only the owner of m_lock touches the list, through every exit of        *)
(* popLockList and across the timed wait (BaseList.cpp:18-48).             *)
THEOREM Exclusion == Spec => []MutualExclusion
<1>1. Inv => MutualExclusion
  BY DEF Inv
<1>2. QED
  BY InvAlways, <1>1, PTL

(* A consumer that sleeps without a pending signal has an empty list, or a *)
(* notify on its way (BaseList.cpp:20-23 against 32-36).                   *)
THEOREM WakeupNotLost == Spec => []NoLostWakeup
<1>1. Inv => NoLostWakeup
  BY DEF Inv
<1>2. QED
  BY InvAlways, <1>1, PTL

(* With one consumer the single `if` around the wait is enough: until the  *)
(* first spurious wake-up front() is never called on an empty list         *)
(* (BaseList.cpp:32-45).                                                   *)
THEOREM FrontIsSafe == Spec => []NeverPopsEmptyList
<1>1. Inv => NeverPopsEmptyList
  BY DEF Inv, WokenNonEmpty, NeverPopsEmptyList
<1>2. QED
  BY InvAlways, <1>1, PTL

-----------------------------------------------------------------------------
(* Every step of the threads is a step of the channel or changes nothing   *)
(* the channel sees: push_back is Send, front/pop_front is Receive and the *)
(* delete in manage_fun is Dispose.                                        *)
LEMMA ChannelInit == Init => Channel!Init
  BY DEF Init, Channel!Init, Threads

LEMMA ChannelStep == Inv /\ [Next]_vars => [Channel!Next]_Channel!vars
<1> SUFFICES ASSUME Inv, [Next]_vars PROVE [Channel!Next]_Channel!vars
  OBVIOUS
<1> USE ThreadsAssumption, ParamsAssumption
    DEF Channel!Next, Channel!vars, Channel!Send, Channel!Receive, Channel!Dispose,
        Inv, TypeOK, Labels, DataState, Threads, Goto, ProducerLabels, ConsumerLabels
<1>1. ASSUME NEW p \in Producers, NEW x \in Params, NewParam(p, x)
      PROVE  UNCHANGED Channel!vars
  BY <1>1 DEF NewParam
<1>2. ASSUME NEW p \in Producers, PushLock(p) \/ Notify(p) \/ PushUnlock(p)
      PROVE  UNCHANGED Channel!vars
  BY <1>2 DEF PushLock, Notify, PushUnlock
<1>3. ASSUME NEW p \in Producers, PushBack(p)
      PROVE  Channel!Send(data[p])
  BY <1>3 DEF PushBack
<1>4. CASE PopLock \/ PopNonEmpty \/ Wait \/ WaitReturn \/ GiveUp
  BY <1>4 DEF PopLock, PopNonEmpty, Wait, WaitReturn, GiveUp
<1>5. CASE PopEmptyList \/ PopUnlock \/ Timeout \/ Spurious
  BY <1>5 DEF PopEmptyList, PopUnlock, Timeout, Spurious
<1>6. CASE PopFront
  BY <1>6 DEF PopFront
<1>7. CASE DeleteParam
  BY <1>7 DEF DeleteParam
<1>8. CASE UNCHANGED vars
  BY <1>8 DEF vars
<1>9. ASSUME NEW p \in Producers, PushBack(p)
      PROVE  data[p] \in Params
  BY <1>9 DEF PushBack
<1>10. QED
  BY <1>1, <1>2, <1>3, <1>4, <1>5, <1>6, <1>7, <1>8, <1>9 DEF Next, PushStep, PopStep

(* CommonList is a first-in first-out channel that loses, duplicates and   *)
(* invents nothing (BaseList.cpp:18-48): the safety part of                *)
(* ImplementsChannel, for any number of producers and parameters.          *)
THEOREM ChannelSafety == Spec => Channel!Init /\ [][Channel!Next]_Channel!vars
  BY ChannelInit, ChannelStep, InvAlways, PTL DEF Spec
=============================================================================
