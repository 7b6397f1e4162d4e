---------------------------- MODULE MCPollTasks ----------------------------
(* Symmetry for the run of PollTasks that checks safety only.              *)
EXTENDS PollTasks, TLC

Alike == Permutations(Tasks) \cup Permutations(Workers)
=============================================================================
