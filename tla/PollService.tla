---------------------------- MODULE PollService ----------------------------
(***************************************************************************)
(* What the /live/poll interface promises its caller: requests take effect *)
(* in the order they were accepted, a type is either polled or not polled  *)
(* (never twice over), a START of a type already started and a STOP of one *)
(* that is not are ignored, and what is polled follows the decisions in    *)
(* their order, with a delay.                                              *)
(***************************************************************************)
EXTENDS Sequences

CONSTANTS Types,      \* the poll types a request can name
          PollStates  \* the poll states a request can name

VARIABLES requests,   \* accepted, not yet decided on
          intended,   \* the types that shall be polled
          decided,    \* decisions that have not taken effect yet
          polling     \* the types that are polled

vars == <<requests, intended, decided, polling>>

Request == [type : Types, state : PollStates]

Init == requests = << >> /\ intended = {} /\ decided = << >> /\ polling = {}

Accept(r) == /\ requests' = Append(requests, r)
             /\ UNCHANGED <<intended, decided, polling>>

(* A request that changes what is intended becomes a decision.             *)
Decide(r) ==
    \/ /\ r.state = "START" /\ r.type \notin intended
       /\ intended' = intended \union {r.type}
       /\ decided' = Append(decided, [op |-> "add", type |-> r.type])
    \/ /\ r.state = "STOP" /\ r.type \in intended
       /\ intended' = intended \ {r.type}
       /\ decided' = Append(decided, [op |-> "cancel", type |-> r.type])

Redundant(r) == \/ r.state = "START" /\ r.type \in intended
                \/ r.state = "STOP" /\ r.type \notin intended
                \/ r.state \notin {"START", "STOP"}

Handle == /\ requests # << >>
          /\ requests' = Tail(requests)
          /\ \/ Decide(Head(requests))
             \/ Redundant(Head(requests)) /\ UNCHANGED <<intended, decided>>
          /\ UNCHANGED polling

(* The oldest decision takes effect; it always changes what is polled.     *)
Settle ==
    /\ decided # << >>
    /\ decided' = Tail(decided)
    /\ LET d == Head(decided) IN
         \/ /\ d.op = "add" /\ d.type \notin polling
            /\ polling' = polling \union {d.type}
         \/ /\ d.op = "cancel" /\ d.type \in polling
            /\ polling' = polling \ {d.type}
    /\ UNCHANGED <<requests, intended>>

Next == (\E r \in Request : Accept(r)) \/ Handle \/ Settle

Spec == Init /\ [][Next]_vars
=============================================================================
