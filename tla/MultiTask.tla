------------------------------ MODULE MultiTask ------------------------------
(***************************************************************************)
(* MultiTaskController: an owner adds tasks, waits for the first or for    *)
(* all of them, and cancels what is left.                                  *)
(*                                                                         *)
(* The tasks are ended by the components that instantiate this module.     *)
(* The exit stack holds one _stop_task callback per task, the top last;    *)
(* while the owner is "stopping" it awaits the task on top.                *)
(***************************************************************************)
EXTENDS Naturals, Sequences

CONSTANT Task  \* the tasks that can be added

VARIABLES
    task,       \* what has become of each task
    stack,      \* exit_stack
    ctl,        \* what the owner awaits
    timed,      \* whether the run_for under way has a duration
    outcome,    \* how the last run_for ended
    stopFailed  \* a callback of the exit stack has raised

mtVars == <<task, stack, ctl, timed, outcome, stopFailed>>

Alive == {"running", "cancelling"}
Over == {"returned", "failed", "timeout", "cancelled"}

Added == {t \in Task : task[t] # "absent"}
Done == {t \in Task : task[t] \in Over}

MTInit ==
    /\ task = [t \in Task |-> "absent"]
    /\ stack = <<>>
    /\ ctl = "idle" /\ timed = FALSE
    /\ outcome = "none" /\ stopFailed = FALSE

\* add_coroutine and add_task.
AddTask(t) ==
    /\ ctl = "idle" /\ task[t] = "absent"
    /\ task' = [task EXCEPT ![t] = "running"]
    /\ stack' = Append(stack, t)
    /\ UNCHANGED <<ctl, timed, outcome, stopFailed>>

\* A task ends; only a task that was cancelled ends cancelled.
TaskEnds(t, result) ==
    /\ task[t] \in Alive /\ result \in Over
    /\ result = "cancelled" => task[t] = "cancelling"
    /\ task' = [task EXCEPT ![t] = result]
    /\ UNCHANGED <<stack, ctl, timed, outcome, stopFailed>>

\* run_for up to its await; asyncio.wait refuses an empty collection.
RunFor(forAll, hasDuration) ==
    /\ ctl = "idle" /\ Added # {}
    /\ ctl' = IF forAll THEN "all" ELSE "first"
    /\ timed' = hasDuration
    /\ UNCHANGED <<task, stack, outcome, stopFailed>>

\* The results of the tasks that are done are read in any order. The first that
\* is not a result ends the reading; a TimeoutError passes for the end of the
\* duration.
Outcomes ==
    LET bad == {t \in Done : task[t] # "returned"}
    IN  IF bad = {} THEN {"returned"}
        ELSE {IF task[t] = "timeout" THEN "returned" ELSE task[t] : t \in bad}

WaitIsOver ==
    \/ timed
    \/ ctl = "first" /\ Done # {}
    \/ ctl = "all" /\ Done = Added

\* The owner goes on with another run_for; there is no await in between.
RunForAgain(forAll, hasDuration) ==
    /\ ctl \in {"first", "all"} /\ WaitIsOver /\ "returned" \in Outcomes
    /\ ctl' = IF forAll THEN "all" ELSE "first"
    /\ timed' = hasDuration /\ outcome' = "returned"
    /\ UNCHANGED <<task, stack, stopFailed>>

\* aclose() calls _stop_task from the top of the stack s: it passes over tasks
\* that are done, without an await, and cancels the next one.
StopFrom(s) ==
    LET live == {i \in DOMAIN s : task[s[i]] \in Alive}
    IN  IF live = {}
        THEN /\ ctl' = "stopped" /\ stack' = <<>>
             /\ UNCHANGED task
        ELSE LET top == CHOOSE i \in live : \A j \in live : j <= i
             IN  /\ ctl' = "stopping" /\ stack' = SubSeq(s, 1, top)
                 /\ task' = [task EXCEPT ![s[top]] = "cancelling"]

\* The last run_for ends with o, and cancel_pending_tasks begins: every owner
\* calls it next, whether run_for returned or raised.
RunForEnds(o) ==
    /\ ctl \in {"first", "all"} /\ WaitIsOver /\ o \in Outcomes
    /\ outcome' = o
    /\ StopFrom(stack)
    /\ UNCHANGED <<timed, stopFailed>>

\* The owner is cancelled in run_for, which leaves its tasks alone.
RunForCancelled ==
    /\ ctl \in {"first", "all"}
    /\ outcome' = "cancelled"
    /\ StopFrom(stack)
    /\ UNCHANGED <<timed, stopFailed>>

\* cancel_pending_tasks up to its first await, by an owner that has not waited.
CancelPendingTasks ==
    /\ ctl = "idle"
    /\ StopFrom(stack)
    /\ UNCHANGED <<timed, outcome, stopFailed>>

\* Mutant: the first callback that raises ends aclose().
StopNext_UpToAFailure ==
    /\ ctl = "stopping" /\ task[stack[Len(stack)]] \in Over
    /\ IF task[stack[Len(stack)]] \in {"failed", "timeout"}
       THEN ctl' = "stopped" /\ stack' = <<>> /\ stopFailed' = TRUE /\ UNCHANGED task
       ELSE StopFrom(SubSeq(stack, 1, Len(stack) - 1)) /\ UNCHANGED stopFailed
    /\ UNCHANGED <<timed, outcome>>

\* The task on top has ended: _stop_task raises what it raised, but not its
\* CancelledError, and aclose() goes on in either case.
StopNext ==
    /\ ctl = "stopping" /\ task[stack[Len(stack)]] \in Over
    /\ StopFrom(SubSeq(stack, 1, Len(stack) - 1))
    /\ stopFailed' = (stopFailed \/ task[stack[Len(stack)]] \in {"failed", "timeout"})
    /\ UNCHANGED <<timed, outcome>>

MTNext ==
    \/ \E t \in Task : AddTask(t) \/ \E r \in Over : TaskEnds(t, r)
    \/ \E forAll, hasDuration \in BOOLEAN :
          RunFor(forAll, hasDuration) \/ RunForAgain(forAll, hasDuration)
    \/ \E o \in Over : RunForEnds(o)
    \/ RunForCancelled
    \/ CancelPendingTasks \/ StopNext

MTSpec == MTInit /\ [][MTNext]_mtVars

-----------------------------------------------------------------------------
MTTypeOK ==
    /\ task \in [Task -> {"absent"} \cup Alive \cup Over]
    /\ stack \in Seq(Task)
    /\ ctl \in {"idle", "first", "all", "stopping", "stopped"}
    /\ timed \in BOOLEAN /\ stopFailed \in BOOLEAN
    /\ outcome \in {"none"} \cup Over

\* After cancel_pending_tasks no task is left, whatever the tasks raise.
NothingPending == ctl = "stopped" => \A t \in Task : task[t] \notin Alive

=============================================================================
