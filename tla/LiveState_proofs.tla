-------------------------- MODULE LiveState_proofs --------------------------
(***************************************************************************)
(* Proofs about LiveState, for any number of polls at once and any planned *)
(* end: a report is never made up, however late it arrives.                *)
(***************************************************************************)
EXTENDS LiveState, SequenceTheorems, TLAPS

(* What holds of the record when verdict v is in it or on its way to it;   *)
(* of 9 nothing does (see SelectState).                                    *)
Justified(v) == /\ v \in {7, 8} => now > PlanEnd
                /\ v \in {5, 6} => recordFlag = v

(* Nobody starts in the future.                                            *)
RecordInv == realStartTime <= now

ReportsJustified == \A p \in Pollers : \A i \in 1 .. Len(todo[p]) : Justified(todo[p][i])

Inv == TypeOK /\ RecordInv /\ Justified(liveFlag) /\ ReportsJustified

-----------------------------------------------------------------------------
LEMMA Singleton ==
    ASSUME NEW v \in 5 .. 9
    PROVE  <<v>> \in Seq(5 .. 9) /\ Len(<<v>>) = 1 /\ <<v>>[1] = v
  OBVIOUS

LEMMA Empty == << >> \in Seq(5 .. 9) /\ Len(<< >>) = 0
  OBVIOUS

LEMMA InitInv == Init => Inv
<1> SUFFICES ASSUME Init PROVE Inv
  OBVIOUS
<1>1. todo = [p \in Pollers |-> << >>]
  BY DEF Init
<1>2. TypeOK
  <2>1. now \in Start .. MaxTime /\ liveFlag \in 0 .. 9
    BY TimeAssumption DEF Init
  <2>2. recordFlag \in {1, 5, 6} /\ realStartTime \in {0} \cup Start .. MaxTime
    BY DEF Init
  <2>3. todo \in [Pollers -> Seq(5 .. 9)]
    BY <1>1, Empty
  <2>4. ASSUME NEW p \in Pollers PROVE Len(todo[p]) <= 2
    BY <1>1, Empty
  <2>5. QED
    BY <2>1, <2>2, <2>3, <2>4 DEF TypeOK
<1>3. RecordInv /\ Justified(liveFlag)
  BY TimeAssumption DEF Init, RecordInv, Justified
<1>4. ReportsJustified
  BY <1>1 DEF ReportsJustified
<1>5. QED
  BY <1>2, <1>3, <1>4 DEF Inv

(* What is justified stays so, whatever happens.                           *)
LEMMA StillJustified ==
    ASSUME Inv, [Next]_vars, NEW v, Justified(v)
    PROVE  Justified(v)'
<1>1. now \in Nat /\ now' \in Nat /\ now' >= now /\ PlanEnd \in Nat
  BY TimeAssumption
     DEF Inv, TypeOK, Next, World, vars, record, Begin, Interrupt, Resume, Finish,
         RecorderFails, Tick, Poll, SelectState, ChangeState, ChangeFails
<1>2. recordFlag \in {5, 6} => recordFlag' = recordFlag
  BY DEF Next, World, vars, record, Begin, Interrupt, Resume, Finish,
         RecorderFails, Tick, Poll, SelectState, ChangeState, ChangeFails
<1>3. QED
  BY <1>1, <1>2 DEF Justified

LEMMA WorldInv == ASSUME Inv, World PROVE Inv'
<1>1. TypeOK' /\ RecordInv'
  <2>1. now \in Nat /\ Start \in Nat /\ MaxTime \in Nat
    BY TimeAssumption DEF Inv, TypeOK
  <2>2. CASE Begin \/ Interrupt \/ Resume \/ Finish \/ RecorderFails
    <3>1. CASE Begin
      BY <2>1, <3>1 DEF Inv, TypeOK, RecordInv, Begin
    <3>2. CASE Interrupt
      BY <2>1, <3>2 DEF Inv, TypeOK, RecordInv, Interrupt
    <3>3. CASE Resume \/ Finish \/ RecorderFails
      BY <2>1, <3>3 DEF Inv, TypeOK, RecordInv, Resume, Finish, RecorderFails
    <3>4. QED
      BY <2>2, <3>1, <3>2, <3>3
  <2>3. CASE Tick
    <3>1. now' \in Start .. MaxTime /\ now' >= now
      BY <2>1, <2>3 DEF Inv, TypeOK, Tick
    <3>2. UNCHANGED <<liveFlag, recordFlag, realStartTime, todo>>
      BY <2>3 DEF Tick, record
    <3>3. realStartTime \in Nat
      BY <2>1 DEF Inv, TypeOK
    <3>4. QED
      BY <2>1, <3>1, <3>2, <3>3 DEF Inv, TypeOK, RecordInv
  <2>4. QED
    BY <2>2, <2>3 DEF World
<1>2. todo' = todo
  BY DEF World, Begin, Interrupt, Resume, Finish, RecorderFails, Tick
<1>3. ReportsJustified'
  BY <1>2, StillJustified DEF Inv, ReportsJustified, Next
<1>4. Justified(liveFlag)'
  <2>1. CASE Begin \/ Interrupt \/ Resume \/ Finish
    BY <2>1 DEF Justified, Begin, Interrupt, Resume, Finish
  <2>2. CASE RecorderFails \/ Tick
    <3>1. liveFlag' = liveFlag
      BY <2>2 DEF RecorderFails, Tick, record
    <3>2. QED
      BY <3>1, StillJustified DEF Inv, Next, Justified
  <2>3. QED
    BY <2>1, <2>2 DEF World
<1>5. QED
  BY <1>1, <1>3, <1>4 DEF Inv

-----------------------------------------------------------------------------
(* A query yields at most two verdicts, each justified by the record.      *)
LEMMA VerdictJustified ==
    ASSUME Inv
    PROVE  LET s == StateVerdict(liveFlag, recordFlag, now, 0)
           IN  s = << >> \/ \E v \in 5 .. 9 : s = <<v>> /\ Justified(v)
<1> DEFINE s == StateVerdict(liveFlag, recordFlag, now, 0)
<1>1. CASE liveFlag = 0 /\ now > PlanEnd
  <2>1. s = <<8>>
    BY <1>1 DEF StateVerdict
  <2>2. QED
    BY <1>1, <2>1 DEF Justified
<1>2. CASE liveFlag = 1 /\ now > PlanEnd
  <2>1. s = <<7>>
    BY <1>2, TimeAssumption DEF StateVerdict, Inv, TypeOK
  <2>2. QED
    BY <1>2, <2>1 DEF Justified
<1>3. CASE liveFlag = 1 /\ now <= PlanEnd /\ recordFlag \in {5, 6}
  <2>1. s = <<recordFlag>>
    BY <1>3, TimeAssumption DEF StateVerdict, Inv, TypeOK
  <2>2. QED
    BY <1>3, <2>1 DEF Justified
<1>4. CASE liveFlag \in {3, 4} /\ now - 0 > Grace
  <2>1. s = <<9>>
    BY <1>4 DEF StateVerdict
  <2>2. QED
    BY <2>1 DEF Justified
<1>5. CASE /\ ~(liveFlag = 0 /\ now > PlanEnd)
           /\ ~(liveFlag = 1 /\ now > PlanEnd)
           /\ ~(liveFlag = 1 /\ now <= PlanEnd /\ recordFlag \in {5, 6})
           /\ ~(liveFlag \in {3, 4} /\ now - 0 > Grace)
  <2>1. s = << >>
    BY <1>5 DEF StateVerdict
  <2>2. QED
    BY <2>1
<1>6. QED
  BY <1>1, <1>2, <1>3, <1>4, <1>5

LEMMA SelectJustified ==
    ASSUME Inv
    PROVE  LET s == StartVerdict(realStartTime) \o StateVerdict(liveFlag, recordFlag, now, 0)
           IN  /\ s \in Seq(5 .. 9) /\ Len(s) <= 2
               /\ \A i \in 1 .. Len(s) : Justified(s[i])
<1> DEFINE a == StartVerdict(realStartTime)
           b == StateVerdict(liveFlag, recordFlag, now, 0)
<1>1. a = << >> \/ (a = <<8>> /\ Justified(8))
  BY TimeAssumption DEF StartVerdict, Justified, Inv, TypeOK, RecordInv
<1>2. b = << >> \/ \E v \in 5 .. 9 : b = <<v>> /\ Justified(v)
  BY VerdictJustified
<1> HIDE DEF a, b
<1>3. /\ a \in Seq(5 .. 9) /\ Len(a) <= 1 /\ Len(a) \in Nat
      /\ \A i \in 1 .. Len(a) : Justified(a[i])
  <2>1. CASE a = << >>
    BY <2>1, Empty
  <2>2. CASE a = <<8>> /\ Justified(8)
    <3>1. a \in Seq(5 .. 9) /\ Len(a) = 1 /\ a[1] = 8
      BY <2>2, Singleton
    <3>2. QED
      BY <3>1, <2>2
  <2>3. QED
    BY <1>1, <2>1, <2>2
<1>4. /\ b \in Seq(5 .. 9) /\ Len(b) <= 1 /\ Len(b) \in Nat
      /\ \A i \in 1 .. Len(b) : Justified(b[i])
  <2>1. CASE b = << >>
    BY <2>1, Empty
  <2>2. ASSUME NEW v \in 5 .. 9, b = <<v>>, Justified(v)
        PROVE  /\ b \in Seq(5 .. 9) /\ Len(b) <= 1 /\ Len(b) \in Nat
               /\ \A i \in 1 .. Len(b) : Justified(b[i])
    <3>1. b \in Seq(5 .. 9) /\ Len(b) = 1 /\ b[1] = v
      BY <2>2, Singleton
    <3>2. QED
      BY <3>1, <2>2
  <2>3. QED
    BY <1>2, <2>1, <2>2
<1>5. /\ a \o b \in Seq(5 .. 9) /\ Len(a \o b) = Len(a) + Len(b)
      /\ \A i \in 1 .. Len(a) + Len(b) :
             (a \o b)[i] = IF i <= Len(a) THEN a[i] ELSE b[i - Len(a)]
  BY <1>3, <1>4, ConcatProperties
<1>6. ASSUME NEW i \in 1 .. Len(a) + Len(b) PROVE Justified((a \o b)[i])
  <2>1. CASE i <= Len(a)
    BY <2>1, <1>3, <1>5
  <2>2. CASE i > Len(a)
    <3>1. i - Len(a) \in 1 .. Len(b)
      BY <2>2, <1>3, <1>4
    <3>2. QED
      BY <2>2, <3>1, <1>3, <1>4, <1>5
  <2>3. QED
    BY <2>1, <2>2, <1>3
<1>7. QED
  BY <1>3, <1>4, <1>5, <1>6 DEF a, b

LEMMA PollInv == ASSUME Inv, NEW p \in Pollers, Poll(p) PROVE Inv'
<1>1. Next
  BY DEF Next
<1>2. CASE SelectState(p)
  <2> DEFINE s == StartVerdict(realStartTime) \o StateVerdict(liveFlag, recordFlag, now, 0)
  <2>1. /\ s \in Seq(5 .. 9) /\ Len(s) <= 2
        /\ \A i \in 1 .. Len(s) : Justified(s[i])
    BY SelectJustified
  <2>2. /\ UNCHANGED <<now, liveFlag, recordFlag, realStartTime>>
        /\ todo' = [todo EXCEPT ![p] = s]
    BY <1>2 DEF SelectState, record
  <2> HIDE DEF s
  <2>3. QED
    BY <2>1, <2>2 DEF Inv, TypeOK, RecordInv, ReportsJustified, Justified
<1>3. CASE ChangeState(p) \/ ChangeFails(p)
  <2> DEFINE s == todo[p]
  <2>1. s \in Seq(5 .. 9) /\ Len(s) <= 2 /\ s # << >>
    BY <1>3 DEF Inv, TypeOK, ChangeState, ChangeFails
  <2>2. \A i \in 1 .. Len(s) : Justified(s[i])
    BY DEF Inv, ReportsJustified
  <2>3. todo' = [todo EXCEPT ![p] = Tail(s)]
    BY <1>3 DEF ChangeState, ChangeFails
  <2>4. UNCHANGED <<now, recordFlag, realStartTime>>
    BY <1>3 DEF ChangeState, ChangeFails, record
  <2>5. liveFlag' \in {liveFlag, Head(s)}
    BY <1>3 DEF ChangeState, ChangeFails, record
  <2> HIDE DEF s
  <2>6. /\ Head(s) = s[1] /\ Head(s) \in 5 .. 9 /\ Len(s) \in Nat /\ Len(s) >= 1
        /\ Tail(s) \in Seq(5 .. 9) /\ Len(Tail(s)) = Len(s) - 1
        /\ \A i \in 1 .. Len(s) - 1 : Tail(s)[i] = s[i + 1]
    BY <2>1
  <2>7. Justified(Head(s)) /\ \A i \in 1 .. Len(Tail(s)) : Justified(Tail(s)[i])
    BY <2>2, <2>6
  <2>8. TypeOK' /\ RecordInv'
    BY <2>1, <2>3, <2>4, <2>5, <2>6 DEF Inv, TypeOK, RecordInv
  <2>9. Justified(liveFlag)'
    BY <2>4, <2>5, <2>7 DEF Inv, Justified
  <2>10. ReportsJustified'
    <3> SUFFICES ASSUME NEW q \in Pollers, NEW i \in (1 .. Len(todo[q]))'
                 PROVE  Justified(todo[q][i])'
      BY DEF ReportsJustified
    <3>1. Justified(todo'[q][i])
      <4>1. CASE q = p
        <5>1. todo'[q] = Tail(s)
          BY <2>3, <4>1 DEF Inv, TypeOK
        <5>2. QED
          BY <5>1, <2>7
      <4>2. CASE q # p
        <5>1. todo'[q] = todo[q]
          BY <2>3, <4>2 DEF Inv, TypeOK
        <5>2. QED
          BY <5>1 DEF Inv, ReportsJustified
      <4>3. QED
        BY <4>1, <4>2
    <3>2. QED
      BY <3>1, <2>4 DEF Justified
  <2>11. QED
    BY <2>8, <2>9, <2>10 DEF Inv
<1>4. QED
  BY <1>2, <1>3 DEF Poll

LEMMA NextInv == Inv /\ [Next]_vars => Inv'
<1> SUFFICES ASSUME Inv, [Next]_vars PROVE Inv'
  OBVIOUS
<1>1. CASE UNCHANGED vars
  BY <1>1 DEF Inv, vars, record, TypeOK, RecordInv, ReportsJustified, Justified
<1>2. CASE Next
  BY <1>2, WorldInv, PollInv DEF Next
<1>3. QED
  BY <1>1, <1>2

LEMMA InvAlways == Spec => []Inv
  BY InitInv, NextInv, PTL DEF Spec

(* Every variable keeps its type: one query yields at most two reports     *)
(* (PollLiveState.cpp:79-119).                                             *)
THEOREM TypeCorrect == Spec => []TypeOK
<1>1. Inv => TypeOK
  BY DEF Inv
<1>2. QED
  BY InvAlways, <1>1, PTL

(* The verdicts 5 to 8 the pollers write into the record may be out of     *)
(* date but are never made up: 7 and 8 only after the planned end, 5 and 6 *)
(* only of a recorder that failed in this very way                         *)
(* (PollLiveState.cpp:79-110).  Nothing is said of 9, which comes too soon.*)
THEOREM NothingMadeUp == Spec => []VerdictsJustified
<1>1. Inv => VerdictsJustified
  BY DEF Inv, Justified, VerdictsJustified
<1>2. QED
  BY InvAlways, <1>1, PTL

=============================================================================
