---------------------------- MODULE MCPollServer ----------------------------
(* Constants for the runs of PollServer.                                   *)
EXTENDS PollServer

CONSTANTS COURSE, BROADCAST_ROOM

MCConfEvents == <<[type |-> BROADCAST_ROOM, interval |-> 20]>>
=============================================================================
