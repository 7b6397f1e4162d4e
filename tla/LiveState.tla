----------------------------- MODULE LiveState -----------------------------
(***************************************************************************)
(* PollLiveState's query and verdicts on one live                          *)
(* (Business/PollLiveState.cpp): selectStateByliveID asks the service for  *)
(* its record of the live, pollStateByliveID decides, and                  *)
(* changeStateByliveID reports each verdict with a request of its own.     *)
(* The record goes on changing between the query and the reports, and the  *)
(* pool may run two tasks, so two of them may be at it at once.            *)
(*                                                                         *)
(* The call of selectStateByliveID in pollState is commented out: the      *)
(* module is about the class, which the server does not use this way yet.  *)
(*                                                                         *)
(* A unit of time is the 15 minutes an interrupted live is given.  The     *)
(* service sends every field; PollTasks has the answers that are odd.      *)
(***************************************************************************)
EXTENDS Naturals, Sequences

CONSTANTS Pollers,   \* tasks that may poll this live at once
          Start,     \* the time it is when a behaviour starts (seconds since 1970,
                     \* that is: any time far later than Grace)
          PlanEnd,   \* planStartTime + planDuration
          MaxTime    \* bound: the clock stops there

Grace == 1      \* 15*60

ASSUME TimeAssumption == /\ {Start, PlanEnd, MaxTime} \subseteq Nat
                         /\ Grace < Start /\ Start < PlanEnd /\ PlanEnd < MaxTime

VARIABLES now,
          liveFlag, recordFlag, realStartTime,   \* the service's record of the live
          todo                                   \* what each poller still has to report

record == <<liveFlag, recordFlag, realStartTime>>
vars == <<now, record, todo>>

(* liveFlag: 0 not started, 1 live, 3 and 4 interrupted, 5 to 9 verdicts;  *)
(* 2 stands for the states the code has no verdict on.  recordFlag: 5 and  *)
(* 6 are the recorder's errors, 1 stands for all others.                   *)
Init == /\ now = Start
        /\ liveFlag = 0
        /\ recordFlag = 1
        /\ realStartTime = 0
        /\ todo = [p \in Pollers |-> << >>]

-----------------------------------------------------------------------------
(* The service and the teacher (external).                                 *)
Begin == /\ liveFlag = 0
         /\ liveFlag' = 1
         /\ realStartTime' = now
         /\ UNCHANGED <<now, recordFlag, todo>>

Interrupt == /\ liveFlag = 1
             /\ liveFlag' \in {3, 4}
             /\ UNCHANGED <<now, recordFlag, realStartTime, todo>>

Resume == /\ liveFlag \in {3, 4}
          /\ liveFlag' = 1
          /\ UNCHANGED <<now, recordFlag, realStartTime, todo>>

Finish == /\ liveFlag = 1
          /\ liveFlag' = 2
          /\ UNCHANGED <<now, recordFlag, realStartTime, todo>>

RecorderFails == /\ recordFlag = 1
                 /\ recordFlag' \in {5, 6}
                 /\ UNCHANGED <<now, liveFlag, realStartTime, todo>>

Tick == /\ now < MaxTime
        /\ now' = now + 1
        /\ UNCHANGED <<record, todo>>

-----------------------------------------------------------------------------
(* Seeded faults: a definition whose name ends in "Fault" is a plausible   *)
(* slip in the definition whose name it begins with; it is not part of     *)
(* Next, and PROJECT.json names the property that notices it.              *)
StateVerdictUntimedFault(flag, rec, time, lastUpdataTime) ==     \* 8 at any time
    CASE flag = 0 -> <<8>>
      [] flag = 1 /\ time > PlanEnd -> <<7>>
      [] flag = 1 /\ time <= PlanEnd /\ rec \in {5, 6} -> <<rec>>
      [] flag \in {3, 4} /\ time - lastUpdataTime > Grace -> <<9>>
      [] OTHER -> << >>
StateVerdictAnyRecordFault(flag, rec, time, lastUpdataTime) ==   \* else flag = recordFlag
    CASE flag = 0 /\ time > PlanEnd -> <<8>>
      [] flag = 1 -> IF time > PlanEnd THEN <<7>> ELSE <<rec>>
      [] flag \in {3, 4} /\ time - lastUpdataTime > Grace -> <<9>>
      [] OTHER -> << >>
(* pollStateByliveID: the verdict on the state of the live.                *)
StateVerdict(flag, rec, time, lastUpdataTime) ==
    CASE flag = 0 /\ time > PlanEnd -> <<8>>
      [] flag = 1 /\ time > PlanEnd -> <<7>>
      [] flag = 1 /\ time <= PlanEnd /\ rec \in {5, 6} -> <<rec>>
      [] flag \in {3, 4} /\ time - lastUpdataTime > Grace -> <<9>>
      [] OTHER -> << >>

StartVerdictFault(start) == IF start > MaxTime THEN <<8>> ELSE << >>   \* a wrong end
(* The verdict on its actual start, which comes first, whatever the state. *)
StartVerdict(start) == IF start > PlanEnd THEN <<8>> ELSE << >>

(* selectStateByliveID passes 0 for lastUpdataTime (PollLiveState.cpp:62): *)
(* what counts for 3 and 4 is the time since 1970, so the first poll after *)
(* an interruption says 9, whatever PollLiveState.cpp:113 says of 15       *)
(* minutes.  A query that fails leaves everything as it is.                *)
SelectState(p) ==
    /\ todo[p] = << >>
    /\ todo' = [todo EXCEPT ![p] = StartVerdict(realStartTime)
                                   \o StateVerdict(liveFlag, recordFlag, now, 0)]
    /\ UNCHANGED <<now, record>>

(* changeStateByliveID: the record is overwritten with what the query led  *)
(* to, whatever it says by now ...                                         *)
ChangeState(p) ==
    /\ todo[p] # << >>
    /\ liveFlag' = Head(todo[p])
    /\ todo' = [todo EXCEPT ![p] = Tail(@)]
    /\ UNCHANGED <<now, recordFlag, realStartTime>>

(* ... or not, if the request fails.  Nobody looks at the result, and the  *)
(* next report follows in either case.                                     *)
ChangeFails(p) ==
    /\ todo[p] # << >>
    /\ todo' = [todo EXCEPT ![p] = Tail(@)]
    /\ UNCHANGED <<now, record>>

Poll(p) == SelectState(p) \/ ChangeState(p) \/ ChangeFails(p)

-----------------------------------------------------------------------------
World == Begin \/ Interrupt \/ Resume \/ Finish \/ RecorderFails \/ Tick
Next == World \/ \E p \in Pollers : Poll(p)

(* Time passes, the timer polls for ever, every request ends (curl has a   *)
(* timeout), and the service, asked again and again, accepts a report in   *)
(* the end.  Nobody has to do anything with the live.                      *)
Fairness == /\ WF_vars(Tick)
            /\ \A p \in Pollers : WF_vars(Poll(p)) /\ SF_vars(ChangeState(p))

Spec == Init /\ [][Next]_vars /\ Fairness

-----------------------------------------------------------------------------
TypeOK ==
    /\ now \in Start .. MaxTime
    /\ liveFlag \in 0 .. 9
    /\ recordFlag \in {1, 5, 6}
    /\ realStartTime \in {0} \cup Start .. MaxTime
    /\ todo \in [Pollers -> Seq(5 .. 9)] /\ \A p \in Pollers : Len(todo[p]) <= 2

(* A report may be out of date but it is never made up, however late it    *)
(* arrives: a verdict about the end of the lesson, 7 or 8, is in the record*)
(* only after the planned end, 5 or 6 only if the recorder failed in this  *)
(* very way (PollLiveState.cpp:79-110).  Of 9 there is nothing to claim:   *)
(* the code does not wait the 15 minutes that would justify it.            *)
VerdictsJustified == /\ liveFlag \in {7, 8} => now > PlanEnd
                     /\ liveFlag \in {5, 6} => recordFlag = liveFlag

(* Although reports fail and two polls interfere, no lesson stays "not     *)
(* started" or "live" for ever after its planned end                       *)
(* (PollLiveState.cpp:86-103).                                             *)
OverdueGetsVerdict == <>[](liveFlag \notin {0, 1})
(* A lesson that was started too late ends as 8: the verdicts on its state *)
(* (7, 9, 5, 6), which overwrite the 8 of the same poll, are overwritten   *)
(* by later polls, and the reports come to rest (PollLiveState.cpp:79-119).*)
LateStartEndsAs8 == <>[](realStartTime > PlanEnd => liveFlag = 8)
VerdictsSettle == OverdueGetsVerdict /\ LateStartEndsAs8
=============================================================================
