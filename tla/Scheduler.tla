----------------------------- MODULE Scheduler -----------------------------
(***************************************************************************)
(* The task queue of EtherTime and the process that works through it.      *)
(*                                                                         *)
(* Tasks are rows of the table of ScheduleTask.  `scheduler.py run` reads  *)
(* the best pending row, marks it as started, runs its shell command with  *)
(* a deadline and writes the whole row back.  `scheduler.py queue...`      *)
(* inserts rows, and the pages of the Django admin read whole rows, change *)
(* one field and write whole rows.  Nothing locks a row between a read and *)
(* the write that follows it, so reads and writes are separate actions.    *)
(***************************************************************************)
EXTENDS Integers, FiniteSets

CONSTANTS
    MaxTasks,      \* bound: rows ever inserted; their ids are 1..MaxTasks
    Priorities,    \* priorities given when a task is queued
    RunPriority,   \* priority a started task is saved with (999)
    Admins,        \* requests to the admin pages that may be in progress
    MaxEdits,      \* bound: admin actions carried out
    MaxKills,      \* bound: times the scheduler process is lost or stopped
    MaxLate        \* bound: deadlines at which the command exits with code 0

ASSUME ConstantsAssumption ==
    /\ MaxTasks \in Nat
    /\ Priorities \subseteq Int
    /\ RunPriority \in Int
    /\ MaxEdits \in Nat
    /\ MaxKills \in Nat
    /\ MaxLate \in Nat

VARIABLES
    lastId,   \* the id given to the row inserted last
    rows,     \* the table; a row above lastId does not exist and is Blank
    pc,       \* what the scheduler is doing
    cur,      \* the task run_scheduler holds, NoTask if none
    snap,     \* its in-memory copy of that task's row
    orphans,  \* tasks with a command that nobody waits for any more
    admin,    \* what every admin request has read
    edits, kills, late,  \* how much of each bound is used
    touched,  \* history: rows an admin action has written
    ran,      \* history: tasks started and not cut short since
    exitedOk  \* history: tasks a command of which exited with code 0

schedVars == <<pc, cur, snap>>
bounds == <<edits, kills, late>>
vars == <<lastId, rows, pc, cur, snap, orphans, admin, edits, kills, late,
          touched, ran, exitedOk>>

-----------------------------------------------------------------------------
(* Rows *)

Tasks == 1..MaxTasks
NoTask == 0

Row == [priority : Int, paused : BOOLEAN, started : BOOLEAN,
        done : BOOLEAN, success : {"null", "true", "false"}]

\* A row as the queue commands insert it; start_time, completion_time and
\* success are null.
FreshRow(p) == [priority |-> p, paused |-> FALSE, started |-> FALSE,
                done |-> FALSE, success |-> "null"]
Blank == FreshRow(0)

Existing == 1..lastId

\* Mutant: the filter on completion_time is missing.
Pending_AlsoCompleted == {t \in Existing : ~rows[t].paused}

\* The filter of pending_tasks().
Pending == {t \in Existing : ~rows[t].done /\ ~rows[t].paused}

\* Its order: by descending priority, then by id.
Before(t, u) ==
    \/ rows[t].priority > rows[u].priority
    \/ rows[t].priority = rows[u].priority /\ t < u

IsNext(t) == t \in Pending /\ \A u \in Pending \ {t} : Before(t, u)

-----------------------------------------------------------------------------
(* Requests of the admin pages *)

AdminOps == {"none", "toggle_pause", "update_priority"}
Request == [op : AdminOps, sel : SUBSET Tasks, seen : [Tasks -> Row]]
NoRequest == [op |-> "none", sel |-> {}, seen |-> [t \in Tasks |-> Blank]]

\* The row an action saves, computed from the row it has read.
Edited(op, r) ==
    IF op = "toggle_pause" THEN [r EXCEPT !.paused = ~r.paused]
                           ELSE [r EXCEPT !.priority = r.priority + 1]

-----------------------------------------------------------------------------
Init ==
    /\ lastId = 0
    /\ rows = [t \in Tasks |-> Blank]
    /\ pc = "down" /\ cur = NoTask /\ snap = Blank
    /\ orphans = {}
    /\ admin = [a \in Admins |-> NoRequest]
    /\ edits = 0 /\ kills = 0 /\ late = 0
    /\ touched = {} /\ ran = {} /\ exitedOk = {}

\* `scheduler.py queue` inserts one row, `queue-benchmarks` inserts its list
\* with one bulk_create: n rows of the same priority and consecutive ids.
Enqueue(n, p) ==
    /\ lastId + n <= MaxTasks
    /\ lastId' = lastId + n
    /\ rows' = [t \in Tasks |-> IF t \in (lastId + 1)..(lastId + n)
                                THEN FreshRow(p) ELSE rows[t]]
    /\ UNCHANGED <<schedVars, orphans, admin, bounds, touched, ran, exitedOk>>

\* `scheduler.py run` is started by hand, for the first time or again.
StartScheduler ==
    /\ pc = "down"
    /\ pc' = "idle"
    /\ UNCHANGED <<lastId, rows, cur, snap, orphans, admin, bounds,
                   touched, ran, exitedOk>>

\* next_task() found a row.  run_scheduler holds a copy of it from here on.
PickTask(t) ==
    /\ pc = "idle"
    /\ IsNext(t)
    /\ pc' = "picked" /\ cur' = t /\ snap' = rows[t]
    /\ UNCHANGED <<lastId, rows, orphans, admin, bounds, touched, ran, exitedOk>>

\* next_task() found none: the loop asks again, without a pause.
PollAgain ==
    /\ pc = "idle"
    /\ Pending = {}
    /\ UNCHANGED vars

\* Mutants: self.priority = 999 is missing; the first save() is missing.
StartTask_KeepsPriority ==
    /\ pc = "picked"
    /\ LET r == [snap EXCEPT !.started = TRUE]
       IN  /\ snap' = r
           /\ rows' = [rows EXCEPT ![cur] = r]
    /\ pc' = "running"
    /\ ran' = ran \cup {cur}
    /\ UNCHANGED <<lastId, cur, orphans, admin, bounds, touched, exitedOk>>

StartTask_Unsaved ==
    /\ pc = "picked"
    /\ snap' = [snap EXCEPT !.started = TRUE, !.priority = RunPriority]
    /\ pc' = "running"
    /\ ran' = ran \cup {cur}
    /\ UNCHANGED <<lastId, rows, cur, orphans, admin, bounds, touched, exitedOk>>

\* The start of ScheduleTask.run: save() writes every field of the copy, then
\* the command is launched.
StartTask ==
    /\ pc = "picked"
    /\ LET r == [snap EXCEPT !.started = TRUE, !.priority = RunPriority]
       IN  /\ snap' = r
           /\ rows' = [rows EXCEPT ![cur] = r]
    /\ pc' = "running"
    /\ ran' = ran \cup {cur}
    /\ UNCHANGED <<lastId, cur, orphans, admin, bounds, touched, exitedOk>>

\* Mutant: the handler of InvocationFailedException does not set success.
Conclude_FailureUnset(success) ==
    /\ snap' = [snap EXCEPT !.success = IF success = "true" THEN "true" ELSE "null",
                            !.done = TRUE]
    /\ pc' = "finished"

\* invocation.run() is over and ScheduleTask.run knows the result.
Conclude(success) ==
    /\ snap' = [snap EXCEPT !.success = success, !.done = TRUE]
    /\ pc' = "finished"

\* Mutant: the exit code is not verified.
CommandExits_Unverified(ok) ==
    /\ pc = "running"
    /\ Conclude("true")
    /\ exitedOk' = IF ok THEN exitedOk \cup {cur} ELSE exitedOk
    /\ UNCHANGED <<lastId, rows, cur, orphans, admin, bounds, touched, ran>>

\* The command exits by itself: code 0 is success, any other code raises
\* InvocationFailedException, which run() catches.
CommandExits(ok) ==
    /\ pc = "running"
    /\ Conclude(IF ok THEN "true" ELSE "false")
    /\ exitedOk' = IF ok THEN exitedOk \cup {cur} ELSE exitedOk
    /\ UNCHANGED <<lastId, rows, cur, orphans, admin, bounds, touched, ran>>

\* Deadline (or Ctrl-C during the command): the invocation is cancelled, the
\* command is told to end and its exit code is not 0.  The signals go to the
\* shell alone, and _terminate gives up some seconds after SIGKILL: the command
\* or a part of it may be left behind.
DeadlineFails(survives) ==
    /\ pc = "running"
    /\ Conclude("false")
    /\ orphans' = IF survives THEN orphans \cup {cur} ELSE orphans
    /\ UNCHANGED <<lastId, rows, cur, admin, bounds, touched, ran, exitedOk>>

\* The same, but the command exits with code 0: it finished at that moment or
\* it handles SIGTERM.  TimeoutError is not caught by run(), it ends the
\* scheduler and leaves the row started and without a result.
DeadlineEscapes ==
    /\ pc = "running"
    /\ late < MaxLate
    /\ late' = late + 1
    /\ pc' = "down" /\ cur' = NoTask /\ snap' = Blank
    /\ ran' = ran \ {cur}
    /\ exitedOk' = exitedOk \cup {cur}
    /\ UNCHANGED <<lastId, rows, orphans, admin, edits, kills, touched>>

Deadline == (\E survives \in BOOLEAN : DeadlineFails(survives)) \/ DeadlineEscapes

\* Mutants: completion_time is missing; the loop does not let go of the task.
SaveResult_NoTime ==
    /\ pc = "finished"
    /\ rows' = [rows EXCEPT ![cur] = [snap EXCEPT !.done = FALSE]]
    /\ pc' = "idle" /\ cur' = NoTask /\ snap' = Blank
    /\ UNCHANGED <<lastId, orphans, admin, bounds, touched, ran, exitedOk>>

SaveResult_Holds ==
    /\ pc = "finished"
    /\ rows' = [rows EXCEPT ![cur] = snap]
    /\ pc' = "idle"
    /\ UNCHANGED <<lastId, cur, snap, orphans, admin, bounds, touched, ran, exitedOk>>

\* The end of ScheduleTask.run: completion_time, then save() of every field.
SaveResult ==
    /\ pc = "finished"
    /\ rows' = [rows EXCEPT ![cur] = snap]
    /\ pc' = "idle" /\ cur' = NoTask /\ snap' = Blank
    /\ UNCHANGED <<lastId, orphans, admin, bounds, touched, ran, exitedOk>>

\* The scheduler ends at any point: a signal, a reboot, Ctrl-C between two
\* commands, or a database error in save().  A command that is running is a
\* process of its own and may outlive it.
KillScheduler(survives) ==
    /\ pc # "down"
    /\ survives => pc = "running"
    /\ kills < MaxKills
    /\ kills' = kills + 1
    /\ pc' = "down" /\ cur' = NoTask /\ snap' = Blank
    /\ ran' = IF pc \in {"running", "finished"} THEN ran \ {cur} ELSE ran
    /\ orphans' = IF survives THEN orphans \cup {cur} ELSE orphans
    /\ UNCHANGED <<lastId, rows, admin, edits, late, touched, exitedOk>>

\* Nobody waits for a surviving command; it ends when it ends.
OrphanExits(t) ==
    /\ t \in orphans
    /\ orphans' = orphans \ {t}
    /\ UNCHANGED <<lastId, rows, schedVars, admin, bounds, touched, ran, exitedOk>>

\* toggle_pause or update_priority reads the selected rows ...
AdminRead(a, op, sel) ==
    /\ admin[a] = NoRequest
    /\ edits < MaxEdits
    /\ sel \subseteq Existing
    /\ edits' = edits + 1
    /\ admin' = [admin EXCEPT ![a] =
                    [op |-> op, sel |-> sel,
                     seen |-> [t \in Tasks |-> IF t \in sel THEN rows[t] ELSE Blank]]]
    /\ UNCHANGED <<lastId, rows, schedVars, orphans, kills, late, touched, ran,
                   exitedOk>>

\* ... and commits them, every field of each as it was read but one.
AdminSave(a) ==
    /\ admin[a] # NoRequest
    /\ rows' = [t \in Tasks |-> IF t \in admin[a].sel
                                THEN Edited(admin[a].op, admin[a].seen[t])
                                ELSE rows[t]]
    /\ touched' = touched \cup admin[a].sel
    /\ admin' = [admin EXCEPT ![a] = NoRequest]
    /\ UNCHANGED <<lastId, schedVars, orphans, bounds, ran, exitedOk>>

\* The action "Re-run task" inserts a copy of a row with its priority and its
\* pause flag.  (The reads and the insert are one step: the copy is new.)
Reschedule(t) ==
    /\ edits < MaxEdits
    /\ lastId < MaxTasks
    /\ edits' = edits + 1
    /\ lastId' = lastId + 1
    /\ rows' = [rows EXCEPT ![lastId + 1] =
                   [FreshRow(rows[t].priority) EXCEPT !.paused = rows[t].paused]]
    /\ touched' = touched \cup {lastId + 1}
    /\ UNCHANGED <<schedVars, orphans, admin, kills, late, ran, exitedOk>>

-----------------------------------------------------------------------------
Queueing ==
    \E n \in Tasks, p \in Priorities : Enqueue(n, p)

Scheduling ==
    \/ StartScheduler
    \/ \E t \in Existing : PickTask(t)
    \/ PollAgain
    \/ StartTask
    \/ \E ok \in BOOLEAN : CommandExits(ok)
    \/ \E survives \in BOOLEAN : DeadlineFails(survives)
    \/ DeadlineEscapes
    \/ SaveResult

Environment ==
    \/ \E survives \in BOOLEAN : KillScheduler(survives)
    \/ \E t \in Tasks : OrphanExits(t)

Administration ==
    \/ \E a \in Admins, op \in AdminOps \ {"none"}, sel \in SUBSET Existing \ {{}} :
          AdminRead(a, op, sel)
    \/ \E a \in Admins : AdminSave(a)
    \/ Admins # {} /\ \E t \in Existing : Reschedule(t)

Next == Queueing \/ Scheduling \/ Environment \/ Administration

Spec == Init /\ [][Next]_vars

\* The loop of run_scheduler goes on by itself while its process lives, and
\* the deadline of a command passes.  A command need not exit by itself, and
\* nobody has to start the scheduler again.
Fairness ==
    /\ WF_vars(\E t \in Existing : PickTask(t))
    /\ WF_vars(StartTask)
    /\ WF_vars(Deadline)
    /\ WF_vars(SaveResult)

FairSpec == Spec /\ Fairness
-----------------------------------------------------------------------------
(* Properties *)

\* Every variable is in its range; the ids of the table are contiguous and
\* what does not exist is blank.
TypeOK ==
    /\ lastId \in 0..MaxTasks
    /\ rows \in [Tasks -> Row]
    /\ \A t \in Tasks \ Existing : rows[t] = Blank
    /\ pc \in {"down", "idle", "picked", "running", "finished"}
    /\ cur \in IF pc \in {"down", "idle"} THEN {NoTask} ELSE Existing
    /\ snap \in Row
    /\ orphans \subseteq Existing
    /\ admin \in [Admins -> Request]
    /\ \A a \in Admins : admin[a].sel \subseteq Existing
    /\ edits \in 0..MaxEdits /\ kills \in 0..MaxKills /\ late \in 0..MaxLate
    /\ touched \subseteq Existing
    /\ ran \subseteq Existing
    /\ exitedOk \subseteq Existing

\* The two notions of "completed" never disagree, whatever stale rows are
\* written back: ScheduleTask.completed looks at success, pending_tasks() at
\* completion_time, and ScheduleTask.run sets them in separate statements.
CompletedAgree ==
    \A t \in Tasks : rows[t].done <=> rows[t].success # "null"

\* A task recorded as successful had a command that exited with code 0, also
\* when its deadline, a restart or an admin edit came in between.
SuccessIsReal ==
    \A t \in Tasks : rows[t].success = "true" => t \in exitedOk

\* The scheduler has started t and not yet saved its result.
Held(t) == t = cur /\ pc \in {"running", "finished"}

Unfinished(t) == rows[t].started /\ ~rows[t].done

\* If tasks are queued below the priority of a started task, at most one row
\* is started without a result: a task that was interrupted is taken up again
\* before the scheduler starts another.  Only rows that the admin pages wrote
\* are exempt (they may be paused meanwhile, or moved above it).
AtMostOneInterrupted ==
    (\A p \in Priorities : p < RunPriority) =>
        \A t, u \in Existing \ touched :
            Unfinished(t) /\ Unfinished(u) => t = u

\* A task is taken up a second time only if the scheduler was lost while it
\* held the task, or if an admin page wrote the row.
NoNeedlessRerun ==
    pc = "picked" /\ cur \notin touched => cur \notin ran

\* Every queued task gets a result, however long its command would run and
\* whatever is queued after it, unless the scheduler is down for good.
EveryTaskFinishes ==
    \A t \in Tasks : (t \in Existing) ~> (rows[t].done \/ [](pc = "down"))

\* The life of a task as its row and the scheduler show it.
Phase(t) ==
    IF t \notin Existing       THEN "absent"
    ELSE IF rows[t].done       THEN IF rows[t].success = "true" THEN "succeeded"
                                                                ELSE "failed"
    ELSE IF Held(t)            THEN "running"
    ELSE IF rows[t].started    THEN "interrupted"
                               ELSE "waiting"

Queue == INSTANCE TaskQueue WITH phase <- [t \in Tasks |-> Phase(t)]

\* Without admin edits the scheduler implements TaskQueue.
ImplementsQueue == Queue!Spec

\* doc/ethertime/scheduler.md:7 "The scheduler will run indefinitely until
\* stopped": once started, it is down only if somebody stopped it.
RunsUntilStopped == [][pc # "down" /\ pc' = "down" => kills' = kills + 1]_vars

\* doc/ethertime/scheduler.md:7 "only one task is processed at a time": no
\* command of an earlier scheduler runs beside the current one.
OneCommandAtATime == pc = "running" => orphans = {}

\* admin.py:279 "Toggle paused": whatever the scheduler does while the request
\* is under way, a result in a selected row is still there after the action.
TogglePauseKeepsResults ==
    [][\A a \in Admins :
          admin[a].op = "toggle_pause" /\ admin'[a] = NoRequest =>
              \A t \in admin[a].sel :
                  rows[t].done => /\ rows'[t].done
                                  /\ rows'[t].success = rows[t].success]_vars
=============================================================================
