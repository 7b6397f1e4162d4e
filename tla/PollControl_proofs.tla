------------------------- MODULE PollControl_proofs -------------------------
(***************************************************************************)
(* Proofs about PollControl, for any types, configured events and number   *)
(* of requests.  The loop lags behind manage_fun by the functors that are  *)
(* pending, so "one timer per type" is not inductive: the invariant Inv    *)
(* has to say where in the pending functors a timer's addition and its     *)
(* cancellation stand, and that between two additions of one type the      *)
(* first one's cancellation is pending.                                    *)
(***************************************************************************)
EXTENDS PollControl, Integers, SequenceTheorems, TLAPS

Pending == 1..Len(functors)
AddAt(i, t) == functors[i].op = "add" /\ functors[i].timer = t
CancelAt(i, t) == functors[i].op = "cancel" /\ functors[i].timer = t

(* Callbacks and functors are pending only in their phase of the loop.     *)
PhaseInv == /\ phase # "callbacks" => expired = {}
            /\ phase # "functors" => batch = 0

(* A number that was not handed out yet occurs nowhere; the two lists hold *)
(* timers of their own.                                                    *)
Numbered == /\ \A t \in timers \union timer_commList : t.seq < created
            /\ \A i \in Pending : functors[i].timer.seq < created
Origins == /\ \A t \in timer_commList : t.origin = "web"
           /\ \A t \in timer_confList : t.origin = "conf"
           /\ \A i \in Pending : functors[i].timer.origin = "web"

(* timer_commList is what will be firing when the loop has caught up.      *)
ListInv == \A t \in Timer :
    t \in timer_commList <=>
        /\ t \in WebTimers \/ \E i \in Pending : AddAt(i, t)
        /\ ~ \E j \in Pending : CancelAt(j, t)

(* A timer is added once, then cancelled once.                             *)
OrderInv == \A i, j \in Pending, t \in Timer :
    /\ AddAt(i, t) => t \notin timers
    /\ AddAt(i, t) /\ AddAt(j, t) => i = j
    /\ CancelAt(i, t) /\ CancelAt(j, t) => i = j
    /\ AddAt(i, t) /\ CancelAt(j, t) => i < j
CancelInv == \A j \in Pending, t \in Timer :
    CancelAt(j, t) => t \in timers \/ \E i \in Pending : i < j /\ AddAt(i, t)

OnePerTypeListed == \A s, t \in timer_commList : s.type = t.type => s = t

(* Before a type's timer is added, the one before it is cancelled.         *)
ClashLive == \A i \in Pending, s \in WebTimers, t \in Timer :
    AddAt(i, t) /\ s.type = t.type =>
        \E j \in Pending : j < i /\ CancelAt(j, s)
ClashPending == \A i, k \in Pending, s, t \in Timer :
    i < k /\ AddAt(i, s) /\ AddAt(k, t) /\ s.type = t.type =>
        \E j \in Pending : i < j /\ j < k /\ CancelAt(j, s)

Structure == /\ ListInv /\ OrderInv /\ CancelInv /\ OnePerTypeListed
             /\ ClashLive /\ ClashPending /\ OneTimerPerType

Inv == TypeOK /\ PhaseInv /\ Numbered /\ Origins /\ ConfTimersKept /\ Structure

-----------------------------------------------------------------------------
LEMMA InitInv == Init => Inv
  BY ConfAssumption, MaxAssumption
  DEF Init, LoopInit, Inv, TypeOK, PhaseInv, Numbered, Origins, ConfTimersKept,
      Structure, ListInv, OrderInv, CancelInv, OnePerTypeListed, ClashLive,
      ClashPending, OneTimerPerType, WebTimers, Pending, Functor

(* findList finds the one timer of the type, if there is one.              *)
LEMMA FindListFinds ==
    ASSUME TypeOK, OnePerTypeListed, NEW type, Found(timer_commList, type) # {}
    PROVE  /\ FindList(timer_commList, type) \in timer_commList
           /\ FindList(timer_commList, type) \in Timer
           /\ FindList(timer_commList, type).type = type
<1>1. PICK p \in Found(timer_commList, type) : TRUE
  OBVIOUS
<1>2. \A q \in Found(timer_commList, type) : q = p
  BY <1>1 DEF Found, OnePerTypeListed
<1>3. p \in Timer /\ p.seq \in Nat
  BY <1>1 DEF Found, TypeOK, Timer
<1>4. \A q \in Found(timer_commList, type) : p.seq <= q.seq
  BY <1>2, <1>3
<1>5. FindList(timer_commList, type) \in Found(timer_commList, type)
  BY <1>1, <1>4 DEF FindList
<1>6. QED
  BY <1>5 DEF Found, TypeOK

-----------------------------------------------------------------------------
(* What a functor is, once, for the steps that queue or run one.           *)
LEMMA FunctorFacts ==
    ASSUME TypeOK, NEW i \in Pending
    PROVE  /\ functors[i] \in Functor
           /\ functors[i].op \in {"add", "cancel"}
           /\ functors[i].timer \in Timer
<1>1. functors[i] \in Functor
  BY DEF TypeOK, Pending
<1>2. QED
  BY <1>1 DEF Functor

(* A step that touches neither the functors nor the web's timers.          *)
LEMMA StructureStable ==
    ASSUME Structure, UNCHANGED <<functors, timer_commList, WebTimers>>,
           timers' \ timers \in SUBSET {t \in Timer : t.origin = "conf"},
           timers \subseteq timers', Origins
    PROVE  Structure'
  BY DEF Structure, ListInv, OrderInv, CancelInv, OnePerTypeListed, ClashLive,
         ClashPending, OneTimerPerType, WebTimers, Pending, AddAt, CancelAt, Origins

LEMMA StartPollingInv == Inv /\ StartPolling => Inv'
<1> SUFFICES ASSUME Inv, StartPolling PROVE Inv'
  OBVIOUS
<1> DEFINE t == [type |-> param.type, seq |-> created, origin |-> "web",
                 interval |-> WebInterval]
           n == Len(functors)
<1>1. /\ t \in Timer
      /\ t.seq = created /\ t.origin = "web" /\ t.type = param.type
  BY DEF StartPolling, Inv, TypeOK, Timer, Request, WebInterval
<1>2. /\ timer_commList' = timer_commList \union {t}
      /\ created' = created + 1
      /\ \A s \in timer_commList : s.type # t.type
      /\ UNCHANGED <<batch, timers, expired, phase, timer_confList, stage,
                     configured, g_commList, accepted, late>>
      /\ param' = NULL
  BY DEF StartPolling, QueueInLoop, PushList, Found, DeleteParam
<1>3. /\ n \in Nat
      /\ Pending = 1..n
      /\ Pending' = 1..(n + 1)
      /\ \A i \in 1..n : functors'[i] = functors[i]
      /\ functors'[n + 1] = [op |-> "add", timer |-> t]
  BY DEF Inv, TypeOK, Pending, StartPolling, QueueInLoop
<1>4. /\ t \notin timers
      /\ t \notin timer_commList
      /\ \A i \in 1..n : functors[i].timer # t
  BY <1>1, <1>3 DEF Inv, TypeOK, Numbered
<1>5. TypeOK'
  BY <1>1, <1>2 DEF Inv, TypeOK, Functor, StartPolling, QueueInLoop, PushList
<1>6. PhaseInv' /\ ConfTimersKept'
  BY <1>2 DEF Inv, PhaseInv, ConfTimersKept
<1> HIDE DEF t, n
<1>7. Numbered' /\ Origins'
  <2>1. \A s \in timers \union timer_commList : s.seq \in Nat
    BY DEF Inv, TypeOK, Timer
  <2>2. \A i \in 1..n : functors[i].timer.seq \in Nat
    BY <1>3, FunctorFacts DEF Inv, Timer
  <2>3. created \in Nat
    BY DEF Inv, TypeOK
  <2>4. \A s \in timers' \union timer_commList' : s.seq < created'
    BY <1>1, <1>2, <2>1, <2>3 DEF Inv, Numbered
  <2>5. ASSUME NEW i \in Pending'
        PROVE  functors'[i].timer.seq < created' /\ functors'[i].timer.origin = "web"
    <3>1. CASE i = n + 1
      BY <3>1, <1>1, <1>2, <1>3, <2>3
    <3>2. CASE i \in 1..n
      BY <3>2, <1>2, <1>3, <2>2, <2>3 DEF Inv, Numbered, Origins
    <3>3. QED
      BY <3>1, <3>2, <1>3
  <2>6. /\ \A s \in timer_commList' : s.origin = "web"
        /\ \A s \in timer_confList' : s.origin = "conf"
    BY <1>1, <1>2 DEF Inv, Origins
  <2>7. QED
    BY <2>4, <2>5, <2>6 DEF Numbered, Origins
<1>8. ListInv'
  BY <1>1, <1>2, <1>3, <1>4 DEF Inv, Structure, ListInv, AddAt, CancelAt, WebTimers
<1>9. OrderInv' /\ CancelInv'
  <2>1. \A i \in 1..n, u \in Timer :
          (AddAt(i, u)' <=> AddAt(i, u)) /\ (CancelAt(i, u)' <=> CancelAt(i, u))
    BY <1>3 DEF AddAt, CancelAt
  <2>2. \A i \in Pending', u \in Timer :
          i \notin 1..n => i = n + 1 /\ (AddAt(i, u)' <=> u = t) /\ ~CancelAt(i, u)'
    BY <1>3 DEF AddAt, CancelAt
  <2>3. \A i \in 1..n : ~AddAt(i, t) /\ ~CancelAt(i, t)
    BY <1>4 DEF AddAt, CancelAt
  <2>4. OrderInv'
    BY <1>1, <1>2, <1>3, <1>4, <2>1, <2>2, <2>3 DEF Inv, Structure, OrderInv
  <2>5. CancelInv'
    BY <1>2, <1>3, <2>1, <2>2 DEF Inv, Structure, CancelInv
  <2>6. QED
    BY <2>4, <2>5
<1>10. OnePerTypeListed' /\ OneTimerPerType'
  BY <1>2 DEF Inv, Structure, OnePerTypeListed, OneTimerPerType, WebTimers
<1>11. ClashLive'
  <2> SUFFICES ASSUME NEW i \in Pending', NEW s \in WebTimers, NEW u \in Timer,
                      AddAt(i, u)', s.type = u.type
               PROVE  \E j \in Pending' : j < i /\ CancelAt(j, s)'
    BY <1>2 DEF ClashLive, WebTimers
  <2>1. CASE i \in 1..n
    BY <2>1, <1>3 DEF Inv, Structure, ClashLive, AddAt, CancelAt
  <2>2. CASE i = n + 1
    <3>1. u = t
      BY <2>2, <1>3 DEF AddAt
    <3>2. s \notin timer_commList
      BY <3>1, <1>2
    <3>3. s \in Timer
      BY DEF WebTimers, Inv, TypeOK
    <3>4. PICK j \in Pending : CancelAt(j, s)
      BY <3>2, <3>3 DEF Inv, Structure, ListInv
    <3>5. QED
      BY <3>4, <2>2, <1>3 DEF CancelAt
  <2>3. QED
    BY <2>1, <2>2, <1>3
<1>12. ClashPending'
  <2> SUFFICES ASSUME NEW i \in Pending', NEW k \in Pending', NEW s \in Timer,
                      NEW u \in Timer, i < k, AddAt(i, s)', AddAt(k, u)',
                      s.type = u.type
               PROVE  \E j \in Pending' : i < j /\ j < k /\ CancelAt(j, s)'
    BY DEF ClashPending
  <2>1. CASE k \in 1..n
    BY <2>1, <1>3 DEF Inv, Structure, ClashPending, AddAt, CancelAt
  <2>2. CASE k = n + 1
    <3>1. u = t /\ i \in 1..n /\ AddAt(i, s)
      BY <2>2, <1>3 DEF AddAt
    <3>2. s \notin timer_commList
      BY <3>1, <1>2
    <3>3. PICK j \in Pending : CancelAt(j, s)
      BY <3>1, <3>2, <1>3 DEF Inv, Structure, ListInv
    <3>4. i < j
      BY <3>1, <3>3, <1>3 DEF Inv, Structure, OrderInv
    <3>5. QED
      BY <3>3, <3>4, <2>2, <1>3 DEF CancelAt
  <2>3. QED
    BY <2>1, <2>2, <1>3
<1>13. QED
  BY <1>5, <1>6, <1>7, <1>8, <1>9, <1>10, <1>11, <1>12 DEF Inv, Structure

LEMMA StopPollingInv == Inv /\ StopPolling => Inv'
<1> SUFFICES ASSUME Inv, StopPolling PROVE Inv'
  OBVIOUS
<1> DEFINE t == FindList(timer_commList, param.type)
           n == Len(functors)
<1>1. t \in timer_commList /\ t \in Timer
  BY FindListFinds DEF StopPolling, Inv, Structure
<1> HIDE DEF t
<1>2. /\ timer_commList' = timer_commList \ {t}
      /\ UNCHANGED <<batch, timers, expired, phase, timer_confList, stage,
                     configured, g_commList, accepted, late, created>>
      /\ param' = NULL
  BY DEF StopPolling, QueueInLoop, PopList, Cancel, DeleteParam, t
<1>3. /\ n \in Nat
      /\ Pending = 1..n
      /\ Pending' = 1..(n + 1)
      /\ \A i \in 1..n : functors'[i] = functors[i]
      /\ functors'[n + 1] = [op |-> "cancel", timer |-> t]
  BY DEF Inv, TypeOK, Pending, StopPolling, QueueInLoop, Cancel, t
<1>4. /\ \A j \in 1..n : ~CancelAt(j, t)
      /\ t \in WebTimers \/ \E i \in 1..n : AddAt(i, t)
  BY <1>1, <1>3 DEF Inv, Structure, ListInv
<1>5. TypeOK'
  BY <1>1, <1>2 DEF Inv, TypeOK, Functor, StopPolling, QueueInLoop, PopList, Cancel, t
<1>6. PhaseInv' /\ ConfTimersKept'
  BY <1>2 DEF Inv, PhaseInv, ConfTimersKept
<1>7. Numbered' /\ Origins'
  BY <1>1, <1>2, <1>3 DEF Inv, Numbered, Origins
<1> HIDE DEF n
<1>8. ListInv'
  BY <1>1, <1>2, <1>3, <1>4 DEF Inv, Structure, ListInv, AddAt, CancelAt, WebTimers
<1>9. OrderInv' /\ CancelInv'
  BY <1>1, <1>2, <1>3, <1>4 DEF Inv, Structure, OrderInv, CancelInv, AddAt, CancelAt, WebTimers
<1>10. OnePerTypeListed' /\ OneTimerPerType'
  BY <1>2 DEF Inv, Structure, OnePerTypeListed, OneTimerPerType, WebTimers
<1>11. ClashLive'
  <2> SUFFICES ASSUME NEW i \in Pending', NEW s \in WebTimers, NEW u \in Timer,
                      AddAt(i, u)', s.type = u.type
               PROVE  \E j \in Pending' : j < i /\ CancelAt(j, s)'
    BY <1>2 DEF ClashLive, WebTimers
  <2>1. i \in Pending /\ AddAt(i, u)
    BY <1>3 DEF AddAt
  <2>2. PICK j \in Pending : j < i /\ CancelAt(j, s)
    BY <2>1 DEF Inv, Structure, ClashLive
  <2>3. QED
    BY <2>2, <1>3 DEF CancelAt
<1>12. ClashPending'
  <2> SUFFICES ASSUME NEW i \in Pending', NEW k \in Pending', NEW s \in Timer,
                      NEW u \in Timer, i < k, AddAt(i, s)', AddAt(k, u)',
                      s.type = u.type
               PROVE  \E j \in Pending' : i < j /\ j < k /\ CancelAt(j, s)'
    BY DEF ClashPending
  <2>1. i \in Pending /\ AddAt(i, s) /\ k \in Pending /\ AddAt(k, u)
    BY <1>3 DEF AddAt
  <2>2. PICK j \in Pending : i < j /\ j < k /\ CancelAt(j, s)
    BY <2>1 DEF Inv, Structure, ClashPending
  <2>3. QED
    BY <2>2, <1>3 DEF CancelAt
<1>13. QED
  BY <1>5, <1>6, <1>7, <1>8, <1>9, <1>10, <1>11, <1>12 DEF Inv, Structure

-----------------------------------------------------------------------------
(* The loop runs the oldest functor: everything behind it moves up by one. *)
LEMMA RunFunctorInv == Inv /\ RunFunctor /\ UNCHANGED controlVars => Inv'
<1> SUFFICES ASSUME Inv, RunFunctor, UNCHANGED controlVars PROVE Inv'
  OBVIOUS
<1> DEFINE n == Len(functors)
           t == functors[1].timer
<1>1. /\ n \in Nat /\ n > 0
      /\ Pending = 1..n
      /\ Pending' = 1..(n - 1)
      /\ \A i \in 1..(n - 1) : functors'[i] = functors[i + 1]
      /\ Head(functors) = functors[1]
  BY DEF RunFunctor, Inv, TypeOK, Pending
<1>2. t \in Timer /\ t.origin = "web" /\ functors[1].op \in {"add", "cancel"}
  BY <1>1, FunctorFacts DEF Inv, Origins
<1>3. /\ batch' = batch - 1 /\ batch > 0 /\ phase = "functors" /\ expired = {}
      /\ functors[1].op = "add" => timers' = timers \union {t}
      /\ functors[1].op = "cancel" => timers' = timers \ {t}
      /\ UNCHANGED <<expired, phase, timer_commList, timer_confList, created>>
  BY <1>1, <1>2 DEF RunFunctor, Inv, PhaseInv, controlVars
<1>4. /\ functors[1].op = "add" => WebTimers' = WebTimers \union {t}
      /\ functors[1].op = "cancel" => WebTimers' = WebTimers \ {t}
  BY <1>2, <1>3 DEF WebTimers
<1>5. \A i \in 1..(n - 1), u \in Timer :
        (AddAt(i, u)' <=> AddAt(i + 1, u)) /\ (CancelAt(i, u)' <=> CancelAt(i + 1, u))
  BY <1>1 DEF AddAt, CancelAt
<1>6. TypeOK'
  <2>1. functors' \in Seq(Functor)
    BY <1>1 DEF RunFunctor, Inv, TypeOK
  <2>2. timers' \in SUBSET Timer
    BY <1>2, <1>3 DEF Inv, TypeOK
  <2>3. batch' \in 0..Len(functors')
    BY <1>1, <1>3 DEF RunFunctor, Inv, TypeOK
  <2>4. QED
    BY <2>1, <2>2, <2>3, <1>3 DEF Inv, TypeOK, controlVars
<1>7. PhaseInv'
  BY <1>3 DEF Inv, PhaseInv
<1>8. ConfTimersKept'
  BY <1>2, <1>3 DEF Inv, ConfTimersKept, Origins
<1> HIDE DEF t, n
<1>9. Numbered' /\ Origins'
  <2>1. \A s \in timers' \union timer_commList' : s.seq < created'
    BY <1>1, <1>2, <1>3 DEF Inv, Numbered, t
  <2>2. ASSUME NEW i \in Pending'
        PROVE  functors'[i].timer.seq < created' /\ functors'[i].timer.origin = "web"
    <3>1. i + 1 \in Pending /\ functors'[i] = functors[i + 1]
      BY <1>1
    <3>2. QED
      BY <3>1, <1>3 DEF Inv, Numbered, Origins
  <2>3. QED
    BY <2>1, <2>2, <1>3 DEF Inv, Numbered, Origins
<1>10. \A k \in Pending, u \in Timer :
         k # 1 => /\ k - 1 \in Pending'
                  /\ AddAt(k - 1, u)' <=> AddAt(k, u)
                  /\ CancelAt(k - 1, u)' <=> CancelAt(k, u)
  BY <1>1 DEF AddAt, CancelAt
<1>11. \A i \in Pending' : i + 1 \in Pending /\ i \in 1..(n - 1)
  BY <1>1
<1>12. OnePerTypeListed'
  BY <1>3 DEF Inv, Structure, OnePerTypeListed
<1>13. WebTimers \subseteq Timer
  BY DEF Inv, TypeOK, WebTimers
<1>14. ClashPending'
  <2> SUFFICES ASSUME NEW i \in Pending', NEW k \in Pending', NEW s \in Timer,
                      NEW u \in Timer, i < k, AddAt(i, s)', AddAt(k, u)',
                      s.type = u.type
               PROVE  \E j \in Pending' : i < j /\ j < k /\ CancelAt(j, s)'
    BY DEF ClashPending
  <2>1. /\ i + 1 \in Pending /\ k + 1 \in Pending /\ i + 1 < k + 1
        /\ AddAt(i + 1, s) /\ AddAt(k + 1, u)
    BY <1>1, <1>5, <1>11
  <2>2. PICK j \in Pending : i + 1 < j /\ j < k + 1 /\ CancelAt(j, s)
    BY <2>1 DEF Inv, Structure, ClashPending
  <2>3. j # 1
    BY <2>2, <1>1
  <2>4. j - 1 \in Pending' /\ i < j - 1 /\ j - 1 < k
    BY <2>2, <2>3, <1>1
  <2>5. CancelAt(j - 1, s)'
    BY <2>2, <2>3, <1>10
  <2>6. QED
    BY <2>4, <2>5
<1>15. ASSUME functors[1].op = "add" PROVE Structure'
  <2>1. 1 \in Pending /\ AddAt(1, t) /\ \A u \in Timer : ~CancelAt(1, u)
    BY <1>1, <1>15 DEF AddAt, CancelAt, t
  <2>2. WebTimers' = WebTimers \union {t} /\ timers' = timers \union {t}
    BY <1>3, <1>4, <1>15
  <2>3. \A k \in Pending : AddAt(k, t) => k = 1
    BY <2>1, <1>2 DEF Inv, Structure, OrderInv
  <2>4. \A u \in Timer : u # t => ~AddAt(1, u)
    BY DEF AddAt, t
  <2>5. ListInv'
    <3> SUFFICES ASSUME NEW u \in Timer
                 PROVE  (u \in timer_commList <=>
                           /\ u \in WebTimers' \/ \E i \in Pending' : AddAt(i, u)'
                           /\ ~ \E j \in Pending' : CancelAt(j, u)')
      BY <1>3 DEF ListInv
    <3>1. (\E j \in Pending' : CancelAt(j, u)') <=> \E j \in Pending : CancelAt(j, u)
      BY <1>5, <1>10, <1>11, <2>1
    <3>2. (u \in WebTimers' \/ \E i \in Pending' : AddAt(i, u)') <=>
             (u \in WebTimers \/ \E i \in Pending : AddAt(i, u))
      BY <1>5, <1>10, <1>11, <2>1, <2>2, <2>4
    <3>3. QED
      BY <3>1, <3>2 DEF Inv, Structure, ListInv
  <2>6. OrderInv'
    <3> SUFFICES ASSUME NEW i \in Pending', NEW j \in Pending', NEW u \in Timer
                 PROVE  /\ AddAt(i, u)' => u \notin timers'
                        /\ AddAt(i, u)' /\ AddAt(j, u)' => i = j
                        /\ CancelAt(i, u)' /\ CancelAt(j, u)' => i = j
                        /\ AddAt(i, u)' /\ CancelAt(j, u)' => i < j
      BY DEF OrderInv
    <3>1. i + 1 \in Pending /\ j + 1 \in Pending /\ i \in Int /\ j \in Int
      BY <1>1, <1>11
    <3>2. AddAt(i, u)' => u \notin timers'
      BY <3>1, <1>5, <1>11, <2>2, <2>3, <1>1 DEF Inv, Structure, OrderInv
    <3>3. QED
      BY <3>1, <3>2, <1>5, <1>11 DEF Inv, Structure, OrderInv
  <2>7. CancelInv'
    <3> SUFFICES ASSUME NEW j \in Pending', NEW u \in Timer, CancelAt(j, u)'
                 PROVE  u \in timers' \/ \E i \in Pending' : i < j /\ AddAt(i, u)'
      BY DEF CancelInv
    <3>1. j + 1 \in Pending /\ CancelAt(j + 1, u)
      BY <1>5, <1>11
    <3>2. CASE u \in timers \/ u = t
      BY <3>2, <2>2
    <3>3. CASE u \notin timers /\ u # t
      <4>1. PICK i \in Pending : i < j + 1 /\ AddAt(i, u)
        BY <3>1, <3>3 DEF Inv, Structure, CancelInv
      <4>2. i # 1
        BY <4>1, <3>3, <2>4
      <4>3. QED
        BY <4>1, <4>2, <1>1, <1>10, <1>11
    <3>4. QED
      BY <3>2, <3>3
  <2>8. ClashLive'
    <3> SUFFICES ASSUME NEW i \in Pending', NEW s \in WebTimers', NEW u \in Timer,
                        AddAt(i, u)', s.type = u.type
                 PROVE  \E j \in Pending' : j < i /\ CancelAt(j, s)'
      BY DEF ClashLive
    <3>1. i + 1 \in Pending /\ AddAt(i + 1, u) /\ s \in Timer
      BY <1>2, <1>5, <1>11, <1>13, <2>2
    <3>2. PICK j \in Pending : j < i + 1 /\ CancelAt(j, s)
      <4>1. CASE s \in WebTimers
        BY <3>1, <4>1 DEF Inv, Structure, ClashLive
      <4>2. CASE s = t
        BY <3>1, <4>2, <2>1, <1>1, <1>11 DEF Inv, Structure, ClashPending
      <4>3. QED
        BY <4>1, <4>2, <2>2
    <3>3. j # 1
      BY <3>1, <3>2, <2>1
    <3>4. j - 1 \in Pending' /\ j - 1 < i
      BY <3>2, <3>3, <1>1, <1>11
    <3>5. QED
      BY <3>1, <3>2, <3>3, <3>4, <1>10
  <2>9. OneTimerPerType'
    <3>1. \A s \in WebTimers : s.type # t.type
      BY <2>1, <1>1, <1>2 DEF Inv, Structure, ClashLive
    <3>2. QED
      BY <3>1, <2>2 DEF Inv, Structure, OneTimerPerType
  <2>10. QED
    BY <1>12, <1>14, <2>5, <2>6, <2>7, <2>8, <2>9 DEF Structure
<1>16. ASSUME functors[1].op = "cancel" PROVE Structure'
  <2>1. 1 \in Pending /\ CancelAt(1, t) /\ \A u \in Timer : ~AddAt(1, u)
    BY <1>1, <1>16 DEF AddAt, CancelAt, t
  <2>2. WebTimers' = WebTimers \ {t} /\ timers' = timers \ {t}
    BY <1>3, <1>4, <1>16
  <2>3. \A k \in Pending : CancelAt(k, t) => k = 1
    BY <2>1, <1>2 DEF Inv, Structure, OrderInv
  <2>4. \A u \in Timer : u # t => ~CancelAt(1, u)
    BY DEF CancelAt, t
  <2>5. t \in timers
    BY <2>1, <1>1, <1>2 DEF Inv, Structure, CancelInv
  <2>6. \A k \in Pending : ~AddAt(k, t)
    BY <2>5, <1>2 DEF Inv, Structure, OrderInv
  <2>7. ListInv'
    <3> SUFFICES ASSUME NEW u \in Timer
                 PROVE  (u \in timer_commList <=>
                           /\ u \in WebTimers' \/ \E i \in Pending' : AddAt(i, u)'
                           /\ ~ \E j \in Pending' : CancelAt(j, u)')
      BY <1>3 DEF ListInv
    <3>1. (\E i \in Pending' : AddAt(i, u)') <=> \E i \in Pending : AddAt(i, u)
      BY <1>5, <1>10, <1>11, <2>1
    <3>2. CASE u = t
      <4>1. u \notin timer_commList
        BY <3>2, <2>1 DEF Inv, Structure, ListInv
      <4>2. QED
        BY <3>1, <3>2, <4>1, <2>2, <2>6
    <3>3. CASE u # t
      <4>1. (\E j \in Pending' : CancelAt(j, u)') <=> \E j \in Pending : CancelAt(j, u)
        BY <1>5, <1>10, <1>11, <2>4, <3>3
      <4>2. QED
        BY <3>1, <3>3, <4>1, <2>2 DEF Inv, Structure, ListInv
    <3>4. QED
      BY <3>2, <3>3
  <2>8. OrderInv'
    <3> SUFFICES ASSUME NEW i \in Pending', NEW j \in Pending', NEW u \in Timer
                 PROVE  /\ AddAt(i, u)' => u \notin timers'
                        /\ AddAt(i, u)' /\ AddAt(j, u)' => i = j
                        /\ CancelAt(i, u)' /\ CancelAt(j, u)' => i = j
                        /\ AddAt(i, u)' /\ CancelAt(j, u)' => i < j
      BY DEF OrderInv
    <3>1. i + 1 \in Pending /\ j + 1 \in Pending /\ i \in Int /\ j \in Int
      BY <1>1, <1>11
    <3>2. AddAt(i, u)' => u \notin timers'
      BY <3>1, <1>5, <1>11, <2>2 DEF Inv, Structure, OrderInv
    <3>3. QED
      BY <3>1, <3>2, <1>5, <1>11 DEF Inv, Structure, OrderInv
  <2>9. CancelInv'
    <3> SUFFICES ASSUME NEW j \in Pending', NEW u \in Timer, CancelAt(j, u)'
                 PROVE  u \in timers' \/ \E i \in Pending' : i < j /\ AddAt(i, u)'
      BY DEF CancelInv
    <3>1. j + 1 \in Pending /\ CancelAt(j + 1, u) /\ j + 1 # 1
      BY <1>1, <1>5, <1>11
    <3>2. CASE u \in timers
      BY <3>1, <3>2, <2>2, <2>3
    <3>3. CASE u \notin timers
      <4>1. PICK i \in Pending : i < j + 1 /\ AddAt(i, u)
        BY <3>1, <3>3 DEF Inv, Structure, CancelInv
      <4>2. i # 1
        BY <4>1, <2>1
      <4>3. i - 1 \in Pending' /\ i - 1 < j
        BY <4>1, <4>2, <1>1, <1>11
      <4>4. QED
        BY <4>1, <4>2, <4>3, <1>10
    <3>4. QED
      BY <3>2, <3>3
  <2>10. ClashLive'
    <3> SUFFICES ASSUME NEW i \in Pending', NEW s \in WebTimers', NEW u \in Timer,
                        AddAt(i, u)', s.type = u.type
                 PROVE  \E j \in Pending' : j < i /\ CancelAt(j, s)'
      BY DEF ClashLive
    <3>1. i + 1 \in Pending /\ AddAt(i + 1, u) /\ s \in Timer
      BY <1>5, <1>11, <1>13, <2>2
    <3>2. s \in WebTimers /\ s # t
      BY <2>2
    <3>3. PICK j \in Pending : j < i + 1 /\ CancelAt(j, s)
      BY <3>1, <3>2 DEF Inv, Structure, ClashLive
    <3>4. j # 1
      BY <3>1, <3>2, <3>3, <2>4
    <3>5. j - 1 \in Pending' /\ j - 1 < i
      BY <3>3, <3>4, <1>1, <1>11
    <3>6. QED
      BY <3>1, <3>3, <3>4, <3>5, <1>10
  <2>11. OneTimerPerType'
    BY <2>2 DEF Inv, Structure, OneTimerPerType
  <2>12. QED
    BY <1>12, <1>14, <2>7, <2>8, <2>9, <2>10, <2>11 DEF Structure
<1>17. Structure'
  BY <1>2, <1>15, <1>16
<1>18. QED
  BY <1>6, <1>7, <1>8, <1>9, <1>17 DEF Inv
-----------------------------------------------------------------------------
(* addPollEvent, in the thread of the loop: a timer with a fresh number in *)
(* timer_confList and in the loop, out of reach of the pending functors.   *)
LEMMA AddPollEventInv == Inv /\ AddPollEvent => Inv'
<1> SUFFICES ASSUME Inv, AddPollEvent PROVE Inv'
  OBVIOUS
<1> DEFINE e == ConfEvents[configured + 1]
           t == [type |-> e.type, seq |-> created, origin |-> "conf",
                 interval |-> e.interval]
<1>1. configured + 1 \in 1..Len(ConfEvents)
  BY DEF AddPollEvent, Inv, TypeOK
<1>2. e \in [type : Types, interval : Nat]
  <2> DEFINE E == [type : Types, interval : Nat]
  <2>1. ConfEvents \in Seq(E)
    BY ConfAssumption
  <2> HIDE DEF E
  <2>2. e \in E
    BY <1>1, <2>1
  <2>3. QED
    BY <2>2 DEF E
<1>3. t \in Timer /\ t.origin = "conf" /\ t.seq = created
  BY <1>2 DEF Timer, Inv, TypeOK
<1>4. /\ timers' = timers \union {t}
      /\ timer_confList' = timer_confList \union {t}
      /\ configured' = configured + 1 /\ created' = created + 1
      /\ UNCHANGED <<functors, batch, expired, phase, stage, g_commList, param,
                     timer_commList, accepted, late>>
  BY DEF AddPollEvent, AddTimerInLoop
<1> HIDE DEF t
<1>5. TypeOK' /\ PhaseInv' /\ ConfTimersKept'
  BY <1>1, <1>3, <1>4 DEF Inv, TypeOK, PhaseInv, ConfTimersKept
<1>6. created \in Nat /\ \A s \in timers \union timer_commList : s.seq \in Nat
  BY DEF Inv, TypeOK, Timer
<1>7. \A i \in Pending : functors[i].timer.seq \in Nat
  BY FunctorFacts DEF Inv, Timer
<1>8. Numbered' /\ Origins'
  BY <1>3, <1>4, <1>6, <1>7 DEF Inv, Numbered, Origins, Pending
<1>9. WebTimers' = WebTimers
  BY <1>3, <1>4 DEF WebTimers
<1>10. Structure'
  BY <1>3, <1>4, <1>9, StructureStable DEF Inv
<1>11. QED
  BY <1>5, <1>8, <1>10 DEF Inv

(* The steps that leave functors and both the loop's and manage_fun's      *)
(* timers alone.                                                           *)
LEMMA TimersStableInv ==
    ASSUME Inv, TypeOK', PhaseInv',
           UNCHANGED <<functors, timers, timer_commList, timer_confList, created>>
    PROVE  Inv'
<1>1. WebTimers' = WebTimers
  BY DEF WebTimers
<1>2. Structure'
  BY <1>1, StructureStable DEF Inv
<1>3. Numbered' /\ Origins' /\ ConfTimersKept'
  BY DEF Inv, Numbered, Origins, ConfTimersKept, Pending
<1>4. QED
  BY <1>2, <1>3 DEF Inv

LEMMA NextInv == Inv /\ [Next]_vars => Inv'
<1> SUFFICES ASSUME Inv, [Next]_vars PROVE Inv'
  OBVIOUS
<1>1. ASSUME NEW r \in Request, Accept(r) PROVE Inv'
  <2>1. TypeOK' /\ PhaseInv'
    BY <1>1, MaxAssumption DEF Inv, TypeOK, PhaseInv, Accept, loopVars
  <2>2. QED
    BY <1>1, <2>1, TimersStableInv DEF Accept, loopVars
<1>2. CASE Take
  <2>1. TypeOK' /\ PhaseInv'
    BY <1>2 DEF Inv, TypeOK, PhaseInv, Take, loopVars
  <2>2. QED
    BY <1>2, <2>1, TimersStableInv DEF Take, loopVars
<1>3. CASE StartPolling
  BY <1>3, StartPollingInv
<1>4. CASE StopPolling
  BY <1>4, StopPollingInv
<1>5. CASE StartWithoutLoop
  <2>1. TypeOK' /\ PhaseInv'
    BY <1>5 DEF Inv, TypeOK, PhaseInv, StartWithoutLoop, loopVars
  <2>2. QED
    BY <1>5, <2>1, TimersStableInv DEF StartWithoutLoop, loopVars
<1>6. CASE IgnoreParam
  <2>1. TypeOK' /\ PhaseInv'
    BY <1>6 DEF Inv, TypeOK, PhaseInv, IgnoreParam, DeleteParam, loopVars
  <2>2. QED
    BY <1>6, <2>1, TimersStableInv DEF IgnoreParam, loopVars
<1>7. CASE CreateLoop
  <2>1. TypeOK' /\ PhaseInv'
    BY <1>7 DEF Inv, TypeOK, PhaseInv, CreateLoop, loopVars
  <2>2. QED
    BY <1>7, <2>1, TimersStableInv DEF CreateLoop, loopVars
<1>8. CASE AddPollEvent
  BY <1>8, AddPollEventInv
<1>9. CASE StartLoop
  <2>1. TypeOK' /\ PhaseInv'
    BY <1>9 DEF Inv, TypeOK, PhaseInv, StartLoop, EnterLoop
  <2>2. QED
    BY <1>9, <2>1, TimersStableInv DEF StartLoop, EnterLoop
<1>10. ASSUME NEW due \in SUBSET timers, LoopPoll(due) PROVE Inv'
  <2>1. TypeOK' /\ PhaseInv'
    BY <1>10 DEF Inv, TypeOK, PhaseInv, LoopPoll, Poll, controlVars
  <2>2. QED
    BY <1>10, <2>1, TimersStableInv DEF LoopPoll, Poll, controlVars
<1>11. ASSUME NEW t \in expired, HandleEvent(t) PROVE Inv'
  <2>1. late' \in SUBSET Timer
    BY <1>11 DEF Inv, TypeOK, HandleEvent
  <2>2. TypeOK' /\ PhaseInv'
    BY <1>11, <2>1 DEF Inv, TypeOK, PhaseInv, HandleEvent, Callback
  <2>3. QED
    BY <1>11, <2>2, TimersStableInv DEF HandleEvent, Callback
<1>12. CASE LoopTurn
  <2>1. CASE RunFunctor
    BY <1>12, <2>1, RunFunctorInv DEF LoopTurn
  <2>2. CASE TakeFunctors
    <3>1. TypeOK' /\ PhaseInv'
      BY <1>12, <2>2 DEF Inv, TypeOK, PhaseInv, LoopTurn, TakeFunctors, controlVars
    <3>2. QED
      BY <1>12, <2>2, <3>1, TimersStableInv DEF LoopTurn, TakeFunctors, controlVars
  <2>3. CASE FunctorsDone
    <3>1. TypeOK' /\ PhaseInv'
      BY <1>12, <2>3 DEF Inv, TypeOK, PhaseInv, LoopTurn, FunctorsDone, controlVars
    <3>2. QED
      BY <1>12, <2>3, <3>1, TimersStableInv DEF LoopTurn, FunctorsDone, controlVars
  <2>4. QED
    BY <1>12, <2>1, <2>2, <2>3 DEF LoopTurn
<1>13. CASE UNCHANGED vars
  <2>1. TypeOK' /\ PhaseInv'
    BY <1>13 DEF Inv, TypeOK, PhaseInv, vars, loopVars, controlVars
  <2>2. QED
    BY <1>13, <2>1, TimersStableInv DEF vars, loopVars, controlVars
<1>14. QED
  BY <1>1, <1>2, <1>3, <1>4, <1>5, <1>6, <1>7, <1>8, <1>9, <1>10, <1>11, <1>12,
     <1>13 DEF Next, Manage, Startup, LoopThread

LEMMA InvAlways == Spec => []Inv
  BY InitInv, NextInv, PTL DEF Spec

-----------------------------------------------------------------------------
(* Every variable keeps its type, for any types, events and requests.      *)
THEOREM TypeCorrect == Spec => []TypeOK
<1>1. Inv => TypeOK
  BY DEF Inv
<1>2. QED
  BY <1>1, InvAlways, PTL

(* The web never has two timers of one type firing (pollServer.cpp:104-137)*)
THEOREM OneTimer == Spec => []OneTimerPerType
<1>1. Inv => OneTimerPerType
  BY DEF Inv, Structure
<1>2. QED
  BY <1>1, InvAlways, PTL

LEMMA CancelSound == Inv => CancelFindsTimer
<1> SUFFICES ASSUME Inv, functors # << >>, Head(functors).op = "cancel"
             PROVE  Head(functors).timer \in timers
  BY DEF CancelFindsTimer
<1>1. Len(functors) \in Nat /\ 1 \in Pending /\ Head(functors) = functors[1]
  BY DEF Inv, TypeOK, Pending
<1>2. functors[1].timer \in Timer
  BY <1>1, FunctorFacts DEF Inv
<1>3. QED
  BY <1>1, <1>2 DEF Inv, Structure, CancelInv, CancelAt, Pending

(* A cancellation the loop gets to finds its timer.                        *)
THEOREM CancelEffective == Spec => []CancelFindsTimer
  BY CancelSound, InvAlways, PTL

LEMMA QuietSound == Inv => QuietAgreement
<1> SUFFICES ASSUME Inv, functors = << >> PROVE WebTimers = timer_commList
  BY DEF QuietAgreement
<1>1. Pending = {}
  BY DEF Pending
<1>2. WebTimers \subseteq Timer /\ timer_commList \subseteq Timer
  BY DEF Inv, TypeOK, WebTimers
<1>3. QED
  BY <1>1, <1>2 DEF Inv, Structure, ListInv

(* With nothing pending, the web's timers are those manage_fun has listed. *)
THEOREM QuietTimers == Spec => []QuietAgreement
  BY QuietSound, InvAlways, PTL

(* No request cancels a timer that poll.conf configured.                   *)
THEOREM ConfTimersSafe == Spec => []ConfTimersKept
<1>1. Inv => ConfTimersKept
  BY DEF Inv
<1>2. QED
  BY <1>1, InvAlways, PTL

-----------------------------------------------------------------------------
(* A timer that fired after its cancellation was queued: the cancellation  *)
(* runs before the loop polls again, and the timer is never added again.   *)
LateInv ==
    /\ \A t \in late : t.seq < created /\ \A i \in Pending : ~AddAt(i, t)
    /\ phase = "created" => late = {}
    /\ phase = "poll" => late \intersect timers = {}
    /\ phase = "callbacks" =>
         /\ late \intersect expired = {}
         /\ \A t \in late \intersect timers : \E j \in Pending : CancelAt(j, t)
    /\ phase = "functors" =>
         \A t \in late \intersect timers : \E j \in Pending : j <= batch /\ CancelAt(j, t)

LEMMA InitLateInv == Init => LateInv
  BY DEF Init, LoopInit, LateInv

Queues(f) == functors' = Append(functors, f)

(* Queueing a functor for a timer that is not late, or its cancellation.   *)
LEMMA QueueLateInv ==
    ASSUME Inv, LateInv, UNCHANGED <<late, phase, timers, batch, expired>>,
           NEW f, Queues(f),
           f.op = "add" => f.timer \notin late,
           created' \in {created, created + 1}
    PROVE  LateInv'
<1> DEFINE n == Len(functors)
<1>1. /\ n \in Nat /\ Pending = 1..n /\ Pending' = 1..(n + 1)
      /\ \A i \in 1..n : functors'[i] = functors[i]
      /\ functors'[n + 1] = f
  BY DEF Inv, TypeOK, Pending, Queues
<1> HIDE DEF n
<1>2. \A t \in late : t.seq \in Nat /\ t.seq < created /\ created \in Nat
  BY DEF Inv, TypeOK, LateInv, Timer
<1>3. \A t \in late : t.seq < created'
  BY <1>2
<1>4. \A i \in Pending', t \in late : ~AddAt(i, t)'
  <2> SUFFICES ASSUME NEW i \in Pending', NEW t \in late PROVE ~AddAt(i, t)'
    OBVIOUS
  <2>1. CASE i \in 1..n
    BY <2>1, <1>1 DEF LateInv, AddAt
  <2>2. CASE i = n + 1
    BY <2>2, <1>1 DEF AddAt
  <2>3. QED
    BY <2>1, <2>2, <1>1
<1>5. \A j \in Pending, t \in late : CancelAt(j, t) => j \in Pending' /\ CancelAt(j, t)'
  <2>1. \A j \in Pending : j \in Pending' /\ functors'[j] = functors[j]
    BY <1>1
  <2>2. QED
    BY <2>1 DEF CancelAt
<1>6. QED
  BY <1>3, <1>4, <1>5 DEF LateInv

LEMMA NextLateInv == Inv /\ Inv' /\ LateInv /\ [Next]_vars => LateInv'
<1> SUFFICES ASSUME Inv, Inv', LateInv, [Next]_vars PROVE LateInv'
  OBVIOUS
<1>1. CASE StartPolling
  <2>1. PICK t : /\ t.seq = created
                 /\ functors' = Append(functors, [op |-> "add", timer |-> t])
                 /\ created' = created + 1
                 /\ UNCHANGED <<late, phase, timers, batch, expired>>
    BY <1>1 DEF StartPolling, QueueInLoop, PushList
  <2>2. t \notin late
    BY <2>1 DEF LateInv, Inv, TypeOK
  <2>3. QED
    BY <2>1, <2>2, QueueLateInv DEF Queues
<1>2. CASE StopPolling
  <2>1. PICK t : /\ functors' = Append(functors, [op |-> "cancel", timer |-> t])
                 /\ created' = created
                 /\ UNCHANGED <<late, phase, timers, batch, expired>>
    BY <1>2 DEF StopPolling, QueueInLoop, PopList, Cancel
  <2>2. QED
    BY <2>1, QueueLateInv DEF Queues
<1>3. CASE AddPollEvent
  <2>1. PICK t : /\ t.seq = created
                 /\ timers' = timers \union {t} /\ created' = created + 1
                 /\ UNCHANGED <<functors, late, phase, batch, expired>>
    BY <1>3 DEF AddPollEvent, AddTimerInLoop
  <2>2. t \notin late
    BY <2>1 DEF LateInv, Inv, TypeOK
  <2>3. \A u \in late : u.seq < created'
    BY <2>1 DEF LateInv, Inv, TypeOK, Timer
  <2>4. QED
    BY <2>1, <2>2, <2>3 DEF LateInv, Pending, AddAt, CancelAt
<1>4. ASSUME NEW due \in SUBSET timers, LoopPoll(due) PROVE LateInv'
  BY <1>4 DEF LoopPoll, Poll, controlVars, LateInv, Pending, AddAt, CancelAt
<1>5. ASSUME NEW t \in expired, HandleEvent(t) PROVE LateInv'
  <2>1. UNCHANGED <<functors, batch, timers, phase, created>> /\ phase = "callbacks"
    BY <1>5 DEF HandleEvent, Callback
  <2>2. expired' = expired \ {t} /\ t \in timers /\ t \in Timer /\ t.seq < created
    BY <1>5 DEF HandleEvent, Callback, Inv, TypeOK, Numbered
  <2>3. CASE t \in Cancelled
    <3>1. late' = late \union {t}
      BY <1>5, <2>3 DEF HandleEvent
    <3>2. \E j \in Pending : CancelAt(j, t)
      BY <2>3 DEF Cancelled, CancelAt, Pending
    <3>3. \A i \in Pending : ~AddAt(i, t)
      BY <2>2 DEF Inv, Structure, OrderInv
    <3>4. QED
      BY <2>1, <2>2, <3>1, <3>2, <3>3 DEF LateInv, Pending, AddAt, CancelAt
  <2>4. CASE t \notin Cancelled
    BY <1>5, <2>1, <2>2, <2>4 DEF HandleEvent, LateInv, Pending, AddAt, CancelAt
  <2>5. QED
    BY <2>3, <2>4
<1>6. ASSUME TakeFunctors, UNCHANGED controlVars PROVE LateInv'
  <2>1. batch' = Len(functors) /\ \A j \in Pending : j <= batch'
    BY <1>6 DEF TakeFunctors, Pending, Inv, TypeOK
  <2>2. QED
    BY <1>6, <2>1 DEF TakeFunctors, controlVars, LateInv, Pending, AddAt, CancelAt
<1>7. ASSUME RunFunctor, UNCHANGED controlVars PROVE LateInv'
  <2>1. /\ Len(functors) \in Nat /\ 1 \in Pending /\ Head(functors) = functors[1]
        /\ \A i \in Pending' : i + 1 \in Pending /\ functors'[i] = functors[i + 1]
        /\ \A j \in Pending : j # 1 => j - 1 \in Pending' /\ functors'[j - 1] = functors[j]
    BY <1>7 DEF RunFunctor, Inv, TypeOK, Pending
  <2>2. /\ phase = "functors" /\ phase' = "functors" /\ batch' = batch - 1
        /\ UNCHANGED <<late, created>>
    BY <1>7 DEF RunFunctor, controlVars
  <2>3. functors[1].op \in {"add", "cancel"}
    BY <2>1, FunctorFacts DEF Inv
  <2>4. /\ functors[1].op = "add" => timers' = timers \union {functors[1].timer}
        /\ functors[1].op = "cancel" => timers' = timers \ {functors[1].timer}
    BY <1>7, <2>1, <2>3 DEF RunFunctor
  <2>5. \A t \in late, i \in Pending' : ~AddAt(i, t)'
    BY <2>1 DEF LateInv, AddAt
  <2>6. ASSUME NEW t \in late', t \in timers'
        PROVE  \E j \in Pending' : j <= batch' /\ CancelAt(j, t)'
    <3>1. t \in timers /\ (functors[1].op = "cancel" => t # functors[1].timer)
      BY <2>1, <2>2, <2>3, <2>4, <2>6 DEF LateInv, AddAt
    <3>2. PICK j \in Pending : j <= batch /\ CancelAt(j, t)
      BY <2>2, <2>6, <3>1 DEF LateInv
    <3>3. j # 1
      BY <3>1, <3>2 DEF CancelAt
    <3>4. j - 1 <= batch'
      BY <2>2, <3>2 DEF Pending, Inv, TypeOK
    <3>5. QED
      BY <2>1, <3>2, <3>3, <3>4 DEF CancelAt
  <2>7. QED
    BY <2>2, <2>5, <2>6 DEF LateInv
<1>8. ASSUME FunctorsDone, UNCHANGED controlVars PROVE LateInv'
  <2>1. batch = 0 /\ \A j \in Pending : ~(j <= batch)
    BY <1>8 DEF FunctorsDone, Pending
  <2>2. late \intersect timers = {}
    BY <1>8, <2>1 DEF FunctorsDone, LateInv
  <2>3. QED
    BY <1>8, <2>2 DEF FunctorsDone, controlVars, LateInv, Pending, AddAt, CancelAt
<1>9. CASE StartLoop
  BY <1>9 DEF StartLoop, EnterLoop, LateInv, Pending, AddAt, CancelAt
<1>10. ASSUME UNCHANGED <<loopVars, created, late>> PROVE LateInv'
  BY <1>10 DEF loopVars, LateInv, Pending, AddAt, CancelAt
<1>11. QED
  BY <1>1, <1>2, <1>3, <1>4, <1>5, <1>6, <1>7, <1>8, <1>9, <1>10
  DEF Next, Manage, Startup, LoopThread, LoopTurn, Accept, Take, StartWithoutLoop,
      IgnoreParam, CreateLoop, vars, controlVars

LEMMA LateSound ==
    Inv /\ LateInv /\ [Next]_vars => (expired \ expired') \intersect late = {}
<1> SUFFICES ASSUME Inv, LateInv, [Next]_vars
             PROVE  (expired \ expired') \intersect late = {}
  OBVIOUS
<1>1. CASE UNCHANGED vars
  BY <1>1 DEF vars, loopVars
<1>2. CASE phase = "callbacks"
  BY <1>2 DEF LateInv
<1>3. CASE phase # "callbacks"
  BY <1>3 DEF Inv, PhaseInv
<1>4. QED
  BY <1>1, <1>2, <1>3

(* After a type's STOP was handled its timer fires at most once more.      *)
THEOREM LateFireOnce == Spec => LateFireAtMostOnce
<1>1. Inv /\ LateInv /\ [Next]_vars => [(expired \ expired') \intersect late = {}]_vars
  BY LateSound
<1>2. Spec => [](Inv /\ LateInv)
  <2>1. Inv /\ LateInv /\ [Next]_vars => (Inv /\ LateInv)'
    BY NextInv, NextLateInv
  <2>2. QED
    BY InitInv, InitLateInv, <2>1, PTL DEF Spec
<1>3. QED
  BY <1>1, <1>2, PTL DEF Spec, LateFireAtMostOnce

-----------------------------------------------------------------------------
(* The control path implements PollService.  It rests on the invariant: a  *)
(* functor the loop runs always changes what is polled, because additions  *)
(* and cancellations of one type alternate.                                *)
LEMMA RequestsTyped == TypeOK => Requests \in Seq(Request)
  BY DEF TypeOK, Requests

LEMMA DecidedTyped ==
    ASSUME TypeOK
    PROVE  /\ Decided \in Seq({Decision(f) : f \in Functor})
           /\ Len(Decided) = Len(functors)
           /\ \A i \in Pending : Decided[i] = Decision(functors[i])
<1>1. Len(functors) \in Nat /\ \A i \in 1..Len(functors) : functors[i] \in Functor
  BY DEF TypeOK
<1>2. QED
  BY <1>1 DEF Decided, Pending

(* Queueing a functor queues its decision.                                 *)
LEMMA DecidedAppend ==
    ASSUME TypeOK, NEW f \in Functor, Queues(f)
    PROVE  Decided' = Append(Decided, Decision(f))
<1> DEFINE n == Len(functors)
           D == {Decision(g) : g \in Functor}
<1>1. /\ n \in Nat /\ functors \in Seq(Functor)
      /\ functors' \in Seq(Functor)
      /\ Len(functors') = n + 1
      /\ \A i \in 1..n : functors'[i] = functors[i]
      /\ functors'[n + 1] = f
  BY DEF TypeOK, Queues
<1>2. /\ Decided \in Seq(D) /\ Len(Decided) = n
      /\ \A i \in 1..n : Decided[i] = Decision(functors[i])
  BY DecidedTyped DEF Pending
<1>3. \A i \in 1..(n + 1) : functors'[i] \in Functor
  BY <1>1
<1>4. Decided' = [i \in 1..(n + 1) |-> Decision(functors'[i])]
  BY <1>1 DEF Decided
<1> HIDE DEF n
<1>5. Decided' \in Seq(D) /\ Len(Decided') = n + 1
  BY <1>1, <1>3, <1>4
<1> DEFINE A == Append(Decided, Decision(f))
<1>6. /\ A \in Seq(D) /\ Len(A) = n + 1
      /\ \A i \in 1..n : A[i] = Decided[i]
      /\ A[n + 1] = Decision(f)
  BY <1>1, <1>2
<1> HIDE DEF A, D
<1>7. ASSUME NEW i \in 1..(n + 1) PROVE Decided'[i] = A[i]
  <2>1. Decided'[i] = Decision(functors'[i])
    BY <1>4
  <2>2. CASE i \in 1..n
    BY <2>1, <2>2, <1>1, <1>2, <1>6
  <2>3. CASE i = n + 1
    BY <2>1, <2>3, <1>1, <1>6
  <2>4. QED
    BY <2>2, <2>3, <1>1
<1>8. Decided' = A
  BY <1>5, <1>6, <1>7, SeqEqual
<1>9. QED
  BY <1>8 DEF A

(* Running the oldest functor takes the oldest decision.                   *)
LEMMA DecidedTail ==
    ASSUME TypeOK, functors # << >>, functors' = Tail(functors)
    PROVE  /\ Decided # << >>
           /\ Head(Decided) = Decision(functors[1])
           /\ Decided' = Tail(Decided)
<1> DEFINE n == Len(functors)
           D == {Decision(g) : g \in Functor}
<1>1. /\ n \in Nat /\ n > 0 /\ functors \in Seq(Functor)
      /\ functors' \in Seq(Functor)
      /\ Len(functors') = n - 1
      /\ \A i \in 1..(n - 1) : functors'[i] = functors[i + 1]
  BY DEF TypeOK
<1>2. /\ Decided \in Seq(D) /\ Len(Decided) = n
      /\ \A i \in 1..n : Decided[i] = Decision(functors[i])
  BY DecidedTyped DEF Pending
<1>3. Decided # << >> /\ Head(Decided) = Decision(functors[1])
  BY <1>1, <1>2
<1>4. Decided' = [i \in 1..(n - 1) |-> Decision(functors'[i])]
  BY <1>1 DEF Decided
<1>5. \A i \in 1..(n - 1) : functors'[i] \in Functor
  BY <1>1
<1> HIDE DEF n
<1>6. Decided' \in Seq(D) /\ Len(Decided') = n - 1
  BY <1>1, <1>4, <1>5
<1> HIDE DEF D
<1> DEFINE T == Tail(Decided)
<1>7. /\ T \in Seq(D) /\ Len(T) = n - 1
      /\ \A i \in 1..(n - 1) : T[i] = Decided[i + 1]
  BY <1>2, <1>3, HeadTailProperties
<1> HIDE DEF T
<1>8. ASSUME NEW i \in 1..(n - 1) PROVE Decided'[i] = T[i]
  <2>1. i + 1 \in 1..n
    BY <1>1
  <2>2. QED
    BY <2>1, <1>1, <1>2, <1>4, <1>7
<1>9. Decided' = T
  BY <1>6, <1>7, <1>8, SeqEqual
<1>10. QED
  BY <1>3, <1>9 DEF T

-----------------------------------------------------------------------------
LEMMA ServiceInit == Init => Service!Init
  BY DEF Init, LoopInit, Service!Init, Requests, Decided, TypesOf, WebTimers

(* manage_fun is done with a request: the oldest one has been handled.     *)
LEMMA RequestHandled ==
    ASSUME TypeOK, param # NULL, param' = NULL, g_commList' = g_commList
    PROVE  /\ Requests # << >> /\ Head(Requests) = param
           /\ Requests' = Tail(Requests)
<1>1. param \in Request /\ g_commList \in Seq(Request)
  BY DEF TypeOK
<1>2. Requests = <<param>> \o g_commList /\ Requests' = g_commList
  BY DEF Requests
<1>3. QED
  BY <1>1, <1>2

LEMMA ServiceAccept ==
    ASSUME TypeOK, NEW r \in Request, Accept(r)
    PROVE  Service!Next
<1>1. /\ g_commList' = Append(g_commList, r)
      /\ UNCHANGED <<param, functors, timers, timer_commList>>
  BY DEF Accept, loopVars
<1>2. Requests' = Append(Requests, r)
  <2>1. CASE param = NULL
    BY <1>1, <2>1 DEF Requests
  <2>2. CASE param # NULL
    <3>1. param \in Request /\ g_commList \in Seq(Request)
      BY <2>2 DEF TypeOK
    <3>2. QED
      BY <1>1, <2>2, <3>1 DEF Requests
  <2>3. QED
    BY <2>1, <2>2
<1>3. UNCHANGED <<TypesOf(timer_commList), Decided, TypesOf(WebTimers)>>
  BY <1>1 DEF WebTimers, Decided
<1>4. QED
  BY <1>2, <1>3 DEF Service!Next, Service!Accept, Service!Request, Request

LEMMA ServiceStart ==
    ASSUME TypeOK, StartPolling
    PROVE  Service!Next
<1> DEFINE t == [type |-> param.type, seq |-> created, origin |-> "web",
                 interval |-> WebInterval]
<1>1. /\ param # NULL /\ param.state = "START" /\ param' = NULL
      /\ g_commList' = g_commList /\ timers' = timers
      /\ timer_commList' = timer_commList \union {t}
      /\ Found(timer_commList, param.type) = {}
      /\ Queues([op |-> "add", timer |-> t])
  BY DEF StartPolling, QueueInLoop, PushList, DeleteParam, Queues
<1>2. t \in Timer /\ t.type = param.type
  BY <1>1 DEF TypeOK, Timer, Request, WebInterval
<1> HIDE DEF t
<1>3. [op |-> "add", timer |-> t] \in Functor
  BY <1>2 DEF Functor
<1>4. Decided' = Append(Decided, [op |-> "add", type |-> param.type])
  BY <1>1, <1>2, <1>3, DecidedAppend DEF Decision
<1>5. /\ param.type \notin TypesOf(timer_commList)
      /\ TypesOf(timer_commList)' = TypesOf(timer_commList) \union {param.type}
      /\ TypesOf(WebTimers)' = TypesOf(WebTimers)
  BY <1>1, <1>2 DEF TypesOf, Found, WebTimers
<1>6. QED
  BY <1>1, <1>4, <1>5, RequestHandled DEF Service!Next, Service!Handle, Service!Decide

LEMMA ServiceStop ==
    ASSUME Inv, StopPolling
    PROVE  Service!Next
<1> DEFINE t == FindList(timer_commList, param.type)
<1>1. /\ param # NULL /\ param.state = "STOP" /\ param' = NULL
      /\ g_commList' = g_commList /\ timers' = timers
      /\ timer_commList' = timer_commList \ {t}
      /\ Found(timer_commList, param.type) # {}
      /\ Queues([op |-> "cancel", timer |-> t])
  BY DEF StopPolling, QueueInLoop, PopList, Cancel, DeleteParam, Queues
<1>2. t \in Timer /\ t \in timer_commList /\ t.type = param.type
  BY <1>1, FindListFinds DEF Inv, Structure
<1> HIDE DEF t
<1>3. [op |-> "cancel", timer |-> t] \in Functor
  BY <1>2 DEF Functor
<1>4. Decided' = Append(Decided, [op |-> "cancel", type |-> param.type])
  BY <1>1, <1>2, <1>3, DecidedAppend DEF Decision, Inv
<1>5. /\ param.type \in TypesOf(timer_commList)
      /\ TypesOf(timer_commList)' = TypesOf(timer_commList) \ {param.type}
      /\ TypesOf(WebTimers)' = TypesOf(WebTimers)
  BY <1>1, <1>2 DEF TypesOf, WebTimers, Inv, Structure, OnePerTypeListed
<1>6. QED
  BY <1>1, <1>4, <1>5, RequestHandled
  DEF Service!Next, Service!Handle, Service!Decide, Inv

LEMMA ServiceIgnore ==
    ASSUME TypeOK, IgnoreParam
    PROVE  Service!Next
<1>1. /\ param # NULL /\ param' = NULL /\ g_commList' = g_commList
      /\ UNCHANGED <<functors, timers, timer_commList>>
  BY DEF IgnoreParam, DeleteParam, loopVars
<1>2. Service!Redundant(param)
  BY DEF IgnoreParam, Service!Redundant, Found, TypesOf
<1>3. UNCHANGED <<TypesOf(timer_commList), Decided, TypesOf(WebTimers)>>
  BY <1>1 DEF WebTimers, Decided
<1>4. QED
  BY <1>1, <1>2, <1>3, RequestHandled DEF Service!Next, Service!Handle

(* The loop runs a functor: additions and cancellations of a type          *)
(* alternate, so it changes what is polled.                                *)
LEMMA ServiceSettle ==
    ASSUME Inv, RunFunctor, UNCHANGED controlVars
    PROVE  Service!Next
<1> DEFINE t == functors[1].timer
<1>1. /\ Len(functors) \in Nat /\ 1 \in Pending /\ Head(functors) = functors[1]
      /\ functors # << >> /\ functors' = Tail(functors)
  BY DEF RunFunctor, Inv, TypeOK, Pending
<1>2. t \in Timer /\ t.origin = "web" /\ functors[1].op \in {"add", "cancel"}
  BY <1>1, FunctorFacts DEF Inv, Origins
<1>3. /\ functors[1].op = "add" => timers' = timers \union {t}
      /\ functors[1].op = "cancel" => timers' = timers \ {t}
  BY <1>1, <1>2 DEF RunFunctor
<1>4. /\ Decided # << >> /\ Decided' = Tail(Decided)
      /\ Head(Decided) = [op |-> functors[1].op, type |-> t.type]
  BY <1>1, DecidedTail DEF Inv, Decision
<1> HIDE DEF t
<1>5. UNCHANGED <<Requests, TypesOf(timer_commList)>>
  BY DEF controlVars, Requests
<1>6. ASSUME functors[1].op = "add"
      PROVE  /\ t.type \notin TypesOf(WebTimers)
             /\ TypesOf(WebTimers)' = TypesOf(WebTimers) \union {t.type}
  <2>1. AddAt(1, t)
    BY <1>6 DEF AddAt, t
  <2>2. \A s \in WebTimers : s.type # t.type
    BY <2>1, <1>1, <1>2 DEF Inv, Structure, ClashLive, Pending
  <2>3. WebTimers' = WebTimers \union {t}
    BY <1>2, <1>3, <1>6 DEF WebTimers
  <2>4. QED
    BY <2>2, <2>3 DEF TypesOf
<1>7. ASSUME functors[1].op = "cancel"
      PROVE  /\ t.type \in TypesOf(WebTimers)
             /\ TypesOf(WebTimers)' = TypesOf(WebTimers) \ {t.type}
  <2>1. CancelAt(1, t)
    BY <1>7 DEF CancelAt, t
  <2>2. t \in WebTimers
    BY <2>1, <1>1, <1>2 DEF Inv, Structure, CancelInv, WebTimers, Pending
  <2>3. WebTimers' = WebTimers \ {t}
    BY <1>3, <1>7 DEF WebTimers
  <2>4. QED
    BY <2>2, <2>3 DEF TypesOf, Inv, Structure, OneTimerPerType
<1>8. QED
  BY <1>2, <1>4, <1>5, <1>6, <1>7 DEF Service!Next, Service!Settle

-----------------------------------------------------------------------------
(* A step that leaves the requests, the functors and the web's timers      *)
(* alone is invisible to the service.                                      *)
LEMMA ServiceStutter ==
    ASSUME UNCHANGED <<Requests, functors, timer_commList, WebTimers>>
    PROVE  UNCHANGED Service!vars
  BY DEF Service!vars, Decided, TypesOf

LEMMA ServiceStep == Inv /\ [Next]_vars => [Service!Next]_Service!vars
<1> SUFFICES ASSUME Inv, [Next]_vars PROVE [Service!Next]_Service!vars
  OBVIOUS
<1>1. TypeOK
  BY DEF Inv
<1>2. CASE \E r \in Request : Accept(r)
  BY <1>1, <1>2, ServiceAccept
<1>3. CASE StartPolling
  BY <1>1, <1>3, ServiceStart
<1>4. CASE StopPolling
  BY <1>4, ServiceStop
<1>5. CASE IgnoreParam
  BY <1>1, <1>5, ServiceIgnore
<1>6. CASE Take
  <2>1. Requests' = Requests
    <3>1. g_commList \in Seq(Request) /\ g_commList # << >>
      BY <1>6, <1>1 DEF Take, TypeOK
    <3>2. Head(g_commList) \in Request
      BY <3>1
    <3>3. g_commList = <<Head(g_commList)>> \o Tail(g_commList)
      <4>1. <<Head(g_commList)>> \o Tail(g_commList) \in Seq(Request)
        BY <3>1, <3>2
      <4>2. QED
        BY <3>1, <4>1, SeqEqual
    <3>4. QED
      BY <1>6, <3>2, <3>3, NullAssumption DEF Take, Requests
  <2>2. QED
    BY <1>6, <2>1, ServiceStutter DEF Take, loopVars, WebTimers
<1>7. CASE AddPollEvent
  <2>1. PICK t : t.origin = "conf" /\ timers' = timers \union {t}
    BY <1>7 DEF AddPollEvent, AddTimerInLoop
  <2>2. WebTimers' = WebTimers
    BY <2>1 DEF WebTimers
  <2>3. QED
    BY <1>7, <2>2, ServiceStutter DEF AddPollEvent, AddTimerInLoop, Requests
<1>8. CASE LoopTurn
  <2>1. CASE RunFunctor
    BY <1>8, <2>1, ServiceSettle DEF LoopTurn
  <2>2. CASE TakeFunctors \/ FunctorsDone
    BY <1>8, <2>2, ServiceStutter
    DEF LoopTurn, TakeFunctors, FunctorsDone, controlVars, Requests, WebTimers
  <2>3. QED
    BY <1>8, <2>1, <2>2 DEF LoopTurn
<1>9. ASSUME UNCHANGED <<g_commList, param, functors, timers, timer_commList>>
      PROVE  [Service!Next]_Service!vars
  BY <1>9, ServiceStutter DEF Requests, WebTimers
<1>10. QED
  BY <1>2, <1>3, <1>4, <1>5, <1>6, <1>7, <1>8, <1>9
  DEF Next, Manage, Startup, LoopThread, StartWithoutLoop, CreateLoop, StartLoop,
      EnterLoop, LoopPoll, Poll, HandleEvent, Callback, vars, loopVars, controlVars

(* What the web asks for takes effect in order, never twice over, and each *)
(* decision changes what is polled (pollServer.cpp:91-156): the control    *)
(* path implements the abstract service.                                   *)
THEOREM ServiceImplemented == Spec => ImplementsService
<1>1. Service!Spec <=> Service!Init /\ [][Service!Next]_Service!vars
  BY DEF Service!Spec
<1>2. QED
  BY <1>1, ServiceInit, ServiceStep, InvAlways, PTL DEF Spec, ImplementsService
=============================================================================
