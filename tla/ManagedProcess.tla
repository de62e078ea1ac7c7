---------------------------- MODULE ManagedProcess ----------------------------
(***************************************************************************)
(* What an Invocation is to those who await its task: a process that runs, *)
(* is killed, pauses and comes back, and a task that ends with it or is    *)
(* cancelled.  How a process is terminated, what is verified when, and in  *)
(* which order flags are read is left to Invocation, which implements it.  *)
(***************************************************************************)

VARIABLES
    task,   \* the task, and how it ended
    proc,   \* the process, as far as the task has noticed its exit
    kept,   \* whether the callers want it kept alive
    logs    \* whether log calls return or raise

Over == {"returned", "failed", "cancelled", "error"}

TypeOK ==
    /\ task \in {"absent", "running", "cancelling"} \cup Over
    /\ proc \in {"none", "up", "killed", "paused"}
    /\ kept \in BOOLEAN /\ logs \in {"ok", "broken"}

Init ==
    /\ task = "absent" /\ proc = "none"
    /\ kept \in BOOLEAN /\ logs = "ok"

-----------------------------------------------------------------------------
(* The callers *)

Create == task = "absent" /\ task' = "running" /\ UNCHANGED proc

Cancel == task = "running" /\ task' = "cancelling" /\ UNCHANGED proc

\* restart() of a process that runs.
Kill == proc = "up" /\ proc' = "killed" /\ UNCHANGED task

-----------------------------------------------------------------------------
(* The process and its task *)

Running == proc \in {"up", "killed"}

\* The process is started, for the first time or after a pause, and never for a
\* task that was cancelled.
Start ==
    /\ task = "running" /\ proc \in {"none", "paused"}
    /\ proc' = "up" /\ UNCHANGED task

\* Kept alive, an exit ends nothing.
Pause ==
    /\ task = "running" /\ Running /\ kept
    /\ proc' = "paused" /\ UNCHANGED task

\* Otherwise the task ends with the process, in time or not.
End(r) ==
    /\ task = "running" /\ Running /\ ~kept
    /\ task' = r /\ proc' = "none"

\* A cancelled task ends without its process, and fails only over the return code
\* of one that was not kept alive.
EndCancelled(r) ==
    /\ task = "cancelling"
    /\ r = "failed" => Running /\ ~kept
    /\ task' = r /\ proc' = "none"

\* The process cannot be started or its output not be read, or a log call raises;
\* the last is the only way in which a process outlives its task.
Break ==
    /\ task \in {"running", "cancelling"} /\ task' = "error"
    /\ proc' = "none" \/ (logs = "broken" /\ proc = "up" /\ UNCHANGED proc)

OrphanExits == task = "error" /\ proc = "up" /\ proc' = "none" /\ UNCHANGED task

-----------------------------------------------------------------------------
Step ==
    \/ Create \/ Cancel \/ Kill
    \/ Start \/ Pause
    \/ \E r \in {"returned", "failed"} : End(r)
    \/ \E r \in {"cancelled", "failed"} : EndCancelled(r)
    \/ Break \/ OrphanExits
    \/ UNCHANGED <<task, proc>>

\* keep_alive may be turned on at any moment, and the database may be lost.
Next ==
    /\ Step
    /\ kept => kept'
    /\ logs = "broken" => logs' = "broken"

Spec == Init /\ [][Next]_<<task, proc, kept, logs>>
=============================================================================
