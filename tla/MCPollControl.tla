--------------------------- MODULE MCPollControl ---------------------------
(* Constants for the runs of PollControl, and a property that its          *)
(* surroundings promise and the code does not keep.                        *)
EXTENDS PollControl

CONSTANTS BROADCAST, BROADCAST_ROOM

MCConfEvents == <<[type |-> BROADCAST, interval |-> 20]>>

(* The web service is ready for a START from the moment it is up           *)
(* (pollServer.cpp:324-334): no request brings the process down.           *)
ReadyWhenUp == Alive
=============================================================================
