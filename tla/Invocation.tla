----------------------------- MODULE Invocation -----------------------------
(***************************************************************************)
(* One Invocation of EtherTime: a child process, the asyncio task that     *)
(* monitors it, and the callers that cancel, restart or keep it alive.     *)
(*                                                                         *)
(* The monitor task runs _run(): start, communicate until the end of the   *)
(* output and the exit, terminate, verify the return code and, when the    *)
(* process is kept alive, wait and start again.  pc is the await at which  *)
(* the monitor task is suspended; what it does between two awaits is one   *)
(* action.  The log handlers write to the database, so that a log call of  *)
(* the monitor raises once the database is lost (logs = "broken").         *)
(***************************************************************************)
EXTENDS Integers

CONSTANTS
    Codes,         \* return codes of a process, the ones of signals included
    Expected,      \* expected_return_codes
    Delays,        \* delays a restart can ask for
    DefaultDelay,  \* the default of restart_delay
    None           \* Python's None

ASSUME CodesAssumption ==
    /\ Expected \subseteq Codes
    /\ None \notin Codes

ASSUME DelaysAssumption ==
    /\ DefaultDelay \in Delays
    /\ None \notin Delays

VARIABLES
    pc,             \* where the monitor task is
    proc,           \* the process; "killed" has been sent SIGKILL
    code,           \* _process.returncode
    shouldRestart,  \* _should_restart_process
    keepAlive,      \* keep_alive
    restartDelay,   \* restart_delay
    sleep,          \* the delay the monitor task sleeps for
    skip,           \* skip_verify_return_code of the _terminate under way
    raised,         \* how _run ends if the return code is accepted
    cancelPending,  \* cancel() was called and the monitor not resumed since
    verify,         \* verify_return_code
    logs,           \* whether log calls return or raise
    result,         \* the outcome of the monitor task
    returnCode,     \* return_code
    asked,          \* history: the delay of a restart not yet carried out
    stopped         \* history: cancel() has been called

settings == <<keepAlive, verify, logs>>
vars == <<pc, proc, code, shouldRestart, restartDelay, sleep, skip, raised,
          cancelPending, result, returnCode, asked, stopped, settings>>

-----------------------------------------------------------------------------
Init ==
    /\ pc = "idle" /\ proc = "none" /\ code = None
    /\ shouldRestart = FALSE /\ keepAlive \in BOOLEAN
    /\ restartDelay = DefaultDelay /\ sleep = DefaultDelay
    /\ skip = FALSE /\ raised = "returned" /\ cancelPending = FALSE
    /\ verify \in BOOLEAN /\ logs = "ok"
    /\ result = "pending" /\ returnCode = None
    /\ asked = None /\ stopped = FALSE

\* Mutant: a return code that is not known passes for an expected one.
Outcome_UnknownIsFine(e, sk) ==
    IF logs = "broken" THEN "error"
    ELSE IF verify /\ ~sk /\ code \notin Expected \cup {None} THEN "failed"
    ELSE e

\* The end of _terminate: logging the return code raises without the database,
\* an unexpected one raises InvocationFailedException, and otherwise e happens:
\* _run returns or goes on raising what it was raising.
Outcome(e, sk) ==
    IF logs = "broken" THEN "error"
    ELSE IF verify /\ ~sk /\ code \notin Expected THEN "failed"
    ELSE e

\* The outer finally of _terminate, after which the monitor task ends.
Conclude(e, sk) ==
    /\ pc' = "done"
    /\ returnCode' = code
    /\ result' = Outcome(e, sk)

EndTask(r) == pc' = "done" /\ result' = r /\ UNCHANGED returnCode

-----------------------------------------------------------------------------
(* The monitor task *)

\* run() and run_as_task() create the task.
RunAsTask ==
    /\ pc = "idle"
    /\ pc' = "starting"
    /\ shouldRestart' = TRUE
    /\ UNCHANGED <<proc, code, restartDelay, sleep, skip, raised, cancelPending,
                   result, returnCode, asked, stopped, settings>>

\* Mutant: a cancellation does not reach the start of the process.
Start_Uncancelled ==
    /\ pc = "starting" /\ logs = "ok"
    /\ pc' = "communicating"
    /\ proc' = "live" /\ code' = None
    /\ asked' = None
    /\ UNCHANGED <<shouldRestart, restartDelay, sleep, skip, raised, result,
                   cancelPending, returnCode, stopped, settings>>

\* _start: the process has been launched.
Start ==
    /\ pc = "starting" /\ ~cancelPending /\ logs = "ok"
    /\ pc' = "communicating"
    /\ proc' = "live" /\ code' = None
    /\ asked' = None
    /\ UNCHANGED <<shouldRestart, restartDelay, sleep, skip, raised, result,
                   cancelPending, returnCode, stopped, settings>>

\* _start raises: no such program, no way to become root, or a failing log.
StartFails ==
    /\ pc = "starting" /\ ~cancelPending
    /\ EndTask("error")
    /\ UNCHANGED <<proc, code, shouldRestart, restartDelay, sleep, skip, raised,
                   cancelPending, asked, stopped, settings>>

\* Mutants: keep_alive is not read; the sleep is the one the caller asked for.
CommunicateEnds_Once ==
    /\ pc = "communicating" /\ proc = "exited" /\ ~cancelPending
    /\ shouldRestart' = FALSE
    /\ Conclude("returned", FALSE) /\ UNCHANGED <<sleep, skip>>
    /\ UNCHANGED <<proc, code, restartDelay, raised, cancelPending, asked,
                   stopped, settings>>

CommunicateEnds_SleepsAsked ==
    /\ pc = "communicating" /\ proc = "exited" /\ ~cancelPending
    /\ shouldRestart' = keepAlive
    /\ IF keepAlive /\ logs = "ok"
       THEN /\ pc' = "delay" /\ sleep' = asked /\ returnCode' = code
            /\ skip' = TRUE /\ UNCHANGED result
       ELSE /\ Conclude("returned", keepAlive) /\ UNCHANGED <<sleep, skip>>
    /\ UNCHANGED <<proc, code, restartDelay, raised, cancelPending, asked,
                   stopped, settings>>

\* Both streams ended and the process has exited.  _run reads keep_alive and
\* _terminate verifies the return code, unless the process is kept alive; there
\* is no await before the one on sleep().
CommunicateEnds ==
    /\ pc = "communicating" /\ proc = "exited" /\ ~cancelPending
    /\ shouldRestart' = keepAlive
    /\ IF keepAlive /\ logs = "ok"
       THEN /\ pc' = "delay" /\ sleep' = restartDelay /\ returnCode' = code
            /\ skip' = TRUE /\ UNCHANGED result
       ELSE /\ Conclude("returned", keepAlive) /\ UNCHANGED <<sleep, skip>>
    /\ UNCHANGED <<proc, code, restartDelay, raised, cancelPending, asked,
                   stopped, settings>>

\* The sleep is over and the loop tests its condition.
DelayElapses ==
    /\ pc = "delay" /\ ~cancelPending
    /\ IF shouldRestart THEN pc' = "starting" /\ UNCHANGED <<result, returnCode>>
                        ELSE EndTask("returned")
    /\ UNCHANGED <<proc, code, shouldRestart, restartDelay, sleep, skip, raised,
                   cancelPending, asked, stopped, settings>>

\* Mutant: the return code is verified although the process is kept alive.
Unwind_VerifiesKept(e) ==
    /\ pc = "communicating"
    /\ shouldRestart' = keepAlive /\ skip' = FALSE /\ raised' = e
    /\ IF proc = "exited" \/ logs = "broken"
       THEN Conclude(e, FALSE)
       ELSE pc' = "terminating" /\ UNCHANGED <<result, returnCode>>
    /\ UNCHANGED proc

\* e is raised in _communicate.  The finally of _run reads keep_alive and calls
\* _terminate, which sends SIGTERM to a process that still runs and waits.
\* Without the database neither SIGTERM nor SIGKILL is sent: the log call
\* before each of them raises.
Unwind(e) ==
    /\ pc = "communicating"
    /\ shouldRestart' = keepAlive /\ skip' = keepAlive /\ raised' = e
    /\ IF proc = "exited" \/ logs = "broken"
       THEN Conclude(e, keepAlive)
       ELSE pc' = "terminating" /\ UNCHANGED <<result, returnCode>>
    /\ UNCHANGED proc

\* Mutant: the kill is not in a finally.
Interrupt_NoKill(e) ==
    /\ pc \in {"terminating", "killing"}
    /\ Conclude(e, skip)
    /\ UNCHANGED <<proc, shouldRestart, skip, raised>>

\* e is raised in one of the waits of _terminate: a process that still runs is
\* killed in the finally, and nothing waits for its exit.
Interrupt(e) ==
    /\ pc \in {"terminating", "killing"}
    /\ Conclude(e, skip)
    /\ proc' = IF proc = "live" /\ logs = "ok" THEN "killed" ELSE proc
    /\ UNCHANGED <<shouldRestart, skip, raised>>

\* The monitor task is resumed after cancel().  asyncio kills a process that is
\* being created.
CancelDelivered ==
    /\ cancelPending
    /\ cancelPending' = FALSE
    /\ \/ /\ pc \in {"starting", "delay"}
          /\ EndTask("cancelled")
          /\ UNCHANGED <<proc, shouldRestart, skip, raised>>
       \/ Unwind("cancelled")
       \/ Interrupt("cancelled")
    /\ UNCHANGED <<code, restartDelay, sleep, asked, stopped, settings>>

\* A reader raises: a line that cannot be decoded, is too long or cannot be
\* logged.
ReadFails ==
    /\ ~cancelPending
    /\ Unwind("error") \/ Interrupt("error")
    /\ UNCHANGED <<code, restartDelay, sleep, cancelPending, asked, stopped,
                   settings>>

\* The process has exited within the time limit of _terminate.
Terminated ==
    /\ pc \in {"terminating", "killing"} /\ proc = "exited" /\ ~cancelPending
    /\ Conclude(raised, skip)
    /\ UNCHANGED <<proc, code, shouldRestart, restartDelay, sleep, skip, raised,
                   cancelPending, asked, stopped, settings>>

\* It has not, or its output has not ended: _terminate sends SIGKILL, if the
\* process still runs, and waits once more.
StopTimeout ==
    /\ pc = "terminating" /\ ~cancelPending
    /\ IF proc = "exited" \/ logs = "ok"
       THEN /\ pc' = "killing"
            /\ proc' = IF proc = "live" THEN "killed" ELSE proc
            /\ UNCHANGED <<result, returnCode>>
       ELSE Conclude(raised, skip) /\ UNCHANGED proc
    /\ UNCHANGED <<code, shouldRestart, restartDelay, sleep, skip, raised,
                   cancelPending, asked, stopped, settings>>

\* Mutant: the wait after SIGKILL has no time limit.
KillTimeout_Never ==
    /\ FALSE
    /\ UNCHANGED vars

\* _terminate gives up on a process that was sent SIGKILL.
KillTimeout ==
    /\ pc = "killing" /\ ~cancelPending
    /\ Conclude(raised, skip)
    /\ UNCHANGED <<proc, code, shouldRestart, restartDelay, sleep, skip, raised,
                   cancelPending, asked, stopped, settings>>

-----------------------------------------------------------------------------
(* The process, the callers and the surroundings *)

\* The process exits.  One that was sent SIGKILL may have exited by itself just
\* before, with any code.
Exit(c) ==
    /\ proc \in {"live", "killed"}
    /\ proc' = "exited" /\ code' = c
    /\ UNCHANGED <<pc, shouldRestart, restartDelay, sleep, skip, raised,
                   cancelPending, result, returnCode, asked, stopped, settings>>

\* Mutant: the delay of a restart is not kept.
Restart_DropsDelay(d) ==
    /\ shouldRestart' = TRUE
    /\ IF proc \in {"live", "killed"} /\ logs = "ok"
       THEN proc' = "killed" /\ asked' = d
       ELSE /\ UNCHANGED proc
            /\ asked' = IF asked # None /\ pc # "delay" THEN d ELSE asked
    /\ UNCHANGED <<pc, code, restartDelay, sleep, skip, raised, cancelPending,
                   result, returnCode, stopped, settings>>

\* restart() with kill and ignore_return_code.  It raises RuntimeError if there
\* is no process or it has exited, and the log error before the kill, but only
\* after both assignments: a refused call replaces the delay of a restart that
\* is still to come.
Restart(d) ==
    /\ shouldRestart' = TRUE
    /\ restartDelay' = d
    /\ IF proc \in {"live", "killed"} /\ logs = "ok"
       THEN proc' = "killed" /\ asked' = d
       ELSE /\ UNCHANGED proc
            /\ asked' = IF asked # None /\ pc # "delay" THEN d ELSE asked
    /\ UNCHANGED <<pc, code, sleep, skip, raised, cancelPending, result,
                   returnCode, stopped, settings>>

\* The time limit of run() or wait(), stop(), or the cancellation of whoever
\* awaits run(): each cancels the monitor task.
Cancel ==
    /\ pc \notin {"idle", "done"}
    /\ cancelPending' = TRUE /\ stopped' = TRUE
    /\ UNCHANGED <<pc, proc, code, shouldRestart, restartDelay, sleep, skip,
                   raised, result, returnCode, asked, settings>>

\* DeviceControl turns keep_alive on; nothing turns it off.
EngageKeepAlive ==
    /\ ~keepAlive
    /\ keepAlive' = TRUE
    /\ UNCHANGED <<pc, proc, code, shouldRestart, restartDelay, sleep, skip,
                   raised, cancelPending, result, returnCode, asked, stopped,
                   verify, logs>>

\* The connection to the database is lost: emit() raises from now on.
LogsBreak ==
    /\ logs = "ok"
    /\ logs' = "broken"
    /\ UNCHANGED <<pc, proc, code, shouldRestart, restartDelay, sleep, skip,
                   raised, cancelPending, result, returnCode, asked, stopped,
                   keepAlive, verify>>

-----------------------------------------------------------------------------
\* The steps the event loop takes by itself: a task that is ready is resumed
\* and a timer that has run out fires.  Terminated is not one of them: a child
\* of the process may hold its output open after it has exited.
Monitor ==
    \/ Start \/ StartFails
    \/ CommunicateEnds \/ DelayElapses
    \/ CancelDelivered
    \/ StopTimeout \/ KillTimeout

Next ==
    \/ RunAsTask
    \/ Monitor
    \/ Terminated
    \/ ReadFails
    \/ \E c \in Codes : Exit(c)
    \/ \E d \in Delays : Restart(d)
    \/ Cancel
    \/ EngageKeepAlive
    \/ LogsBreak

Spec == Init /\ [][Next]_vars

\* A process that was sent SIGKILL exits and its output ends (CommunicateEnds is
\* a step of Monitor); one that runs need not exit.
KilledExits == proc = "killed" /\ \E c \in Codes : Exit(c)

FairSpec == Spec /\ WF_vars(Monitor) /\ WF_vars(KilledExits)

-----------------------------------------------------------------------------
(* Properties *)

PCs == {"idle", "starting", "communicating", "terminating", "killing", "delay",
        "done"}

\* Every field holds a value of its type.  In particular the time the monitor
\* task sleeps for is always a delay, whatever was asked of the invocation.
TypeOK ==
    /\ pc \in PCs
    /\ proc \in {"none", "live", "killed", "exited"}
    /\ code \in Codes \cup {None} /\ returnCode \in Codes \cup {None}
    /\ shouldRestart \in BOOLEAN /\ keepAlive \in BOOLEAN
    /\ restartDelay \in Delays /\ sleep \in Delays
    /\ skip \in BOOLEAN /\ verify \in BOOLEAN
    /\ raised \in {"returned", "cancelled", "error"}
    /\ cancelPending \in BOOLEAN /\ stopped \in BOOLEAN
    /\ logs \in {"ok", "broken"}
    /\ result \in {"pending", "returned", "failed", "cancelled", "error"}
    /\ asked \in Delays \cup {None}

\* A monitor task that has ended, is about to start a process or waits to do so
\* leaves no process of its own running, however often it was cancelled and
\* whatever was raised while it terminated the process, as long as log calls
\* return (the finally clauses of _run and _terminate).
NoProcessLeftBehind ==
    /\ pc = "done" => proc # "live" \/ logs = "broken"
    /\ pc \in {"starting", "delay"} => proc \in {"none", "exited"}

\* The outcome of the task tells how the process ended: when return codes are
\* verified, a task that returned, or was cancelled while its process ran and was
\* not kept alive, has seen an expected return code; a failed task has not.  In
\* particular a process that was cut short is never taken for one that ended well
\* (the verification in _terminate).
OutcomeTellsReturnCode ==
    /\ result = "returned" /\ verify => returnCode \in Expected
    /\ result = "cancelled" /\ verify /\ ~skip /\ proc # "none"
           => returnCode \in Expected
    /\ result = "failed" => verify /\ returnCode \notin Expected

\* The process stays down for as long as the last caller of restart() wanted,
\* whatever the order of its exit and of further calls: the duration of an
\* injected software fault.
SleepsAsAsked == pc = "delay" /\ asked # None => sleep = asked

\* No process is started once the task has been cancelled: a keep-alive session
\* that is being shut down does not come back.
CancelIsFinal == [][stopped /\ proc # "live" => proc' # "live"]_vars

\* Cancelling ends the monitor task, even when the process ignores SIGTERM,
\* keeps its output open or does not die of SIGKILL: callers of stop() and
\* cancel_pending_tasks() await it without a time limit.
CancelEnds == stopped ~> pc = "done"

\* A process kept alive that is killed or exits is started again, unless the
\* task is cancelled or raises.
KeepAliveRevives ==
    (pc = "communicating" /\ proc \in {"killed", "exited"} /\ keepAlive)
        ~> (proc = "live" \/ stopped \/ result = "error")

\* How the task and the process look to those who await them.  A process whose exit
\* has not been noticed still runs; one that was sent SIGKILL when its task ended
\* is gone.  Whether it counts as kept alive is settled when the termination begins.
TaskSeen ==
    IF pc = "idle" THEN "absent"
    ELSE IF pc = "done" THEN result
    ELSE IF stopped THEN "cancelling" ELSE "running"

ProcSeen ==
    IF proc = "none" \/ (pc = "done" /\ proc # "live") THEN "none"
    ELSE IF pc \in {"starting", "delay"} THEN "paused"
    ELSE IF asked = None THEN "up" ELSE "killed"

KeptSeen == IF pc \in {"terminating", "killing"} THEN skip ELSE keepAlive

Managed == INSTANCE ManagedProcess
    WITH task <- TaskSeen, proc <- ProcSeen, kept <- KeptSeen

\* Whatever the order of exits, restarts, cancellations and time limits, the callers
\* see a process that is kept alive come back and its task go on, no start after a
\* cancellation, and no process without a task unless the database is lost.
ImplementsManagedProcess == Managed!Spec

\* What the comment before the kill in _terminate promises: a process that has
\* not exited when the task ends has been killed.
KilledIfStillRunning == pc = "done" => proc # "live"
=============================================================================
