---------------------------- MODULE FifoChannel ----------------------------
(***************************************************************************)
(* What the rest of the server relies on when it hands a PollParam to a    *)
(* CommonList: a reliable first-in first-out channel between the web       *)
(* thread and the thread that takes the parameters out, which owns one     *)
(* parameter at a time and deletes it.  Nothing is lost, nothing is        *)
(* delivered twice, and every parameter that was sent is delivered.        *)
(***************************************************************************)
EXTENDS Sequences

CONSTANTS Params,   \* the PollParam objects
          NULL      \* "no parameter in hand"

VARIABLES queue,    \* sent and not yet received
          inHand    \* the parameter the receiver owns, or NULL

vars == <<queue, inHand>>

Init == queue = << >> /\ inHand = NULL

Send(x) == /\ queue' = Append(queue, x)
           /\ UNCHANGED inHand

Receive == /\ inHand = NULL
           /\ queue # << >>
           /\ inHand' = Head(queue)
           /\ queue' = Tail(queue)

Dispose == /\ inHand # NULL
           /\ inHand' = NULL
           /\ UNCHANGED queue

Next == (\E x \in Params : Send(x)) \/ Receive \/ Dispose

(* The receiver keeps asking, and disposes of what it got.                 *)
Spec == Init /\ [][Next]_vars /\ WF_vars(Receive) /\ WF_vars(Dispose)
=============================================================================
