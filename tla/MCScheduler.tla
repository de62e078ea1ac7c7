---------------------------- MODULE MCScheduler ----------------------------
(* Instances of Scheduler for TLC: two queueing priorities below the one of *)
(* a started task, with the gap wide enough for every edit.                 *)
EXTENDS Scheduler

MCPriorities == {0, 1}
MCRunPriority == 9
=============================================================================
