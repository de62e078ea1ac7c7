# A verification development of EtherTime

EtherTime (the Python package `ptp_perf`) benchmarks clock synchronization on
clusters of small machines. An orchestrator works through a queue of tasks;
each task runs one benchmark: it restarts the cluster, opens an SSH session to
every machine, runs a synchronization daemon, load generators and fault
generators there, and writes every log line to a database. Later the logs are
parsed, analyzed and summarized.

This directory holds TLA+ models of the parts of that program whose correctness
depends on the order of events, the TLC configurations that check them, and
proofs checked by TLAPS. Paths below are relative to the root of the
repository; `invocation.py`, for example, is `src/ptp_perf/invoke/invocation.py`.
`PROJECT.json` maps every definition to its source lines.

## 1. Inventory

| Component | State | Operations | Interacts with | What makes it correct |
|---|---|---|---|---|
| Task scheduler (`scheduler.py`, `models/schedule_task.py`) | table `ScheduleTask`; the row copy the process holds | queue, pick, start, save the result | database, child process, admin pages | one task at a time, every task gets a true result, interrupted ones first |
| Queueing of benchmarks (`scheduler.py: queue_benchmarks`) | none | expand a command line into tasks | profile query, queue | the target count is reached and not exceeded, tasks interleave |
| Admin pages (`django_data/app/admin.py`) | rows read by a request | pause, prioritize, re-run, clear, analyze | every table | an action changes what its name says |
| Process invocation (`invoke/invocation.py`) | the process, the monitor task, flags | start, communicate, terminate, restart, keep alive, cancel | asyncio, the operating system, log handlers | no process left behind, the outcome is the return code's, cancel ends, keep-alive revives |
| Multi-task controller (`utilities/multi_task_controller.py`) | list of tasks, exit stack | add, wait for first/all, cancel all | orchestrator, worker, LinuxPTP | every task has ended afterwards, failures are reported |
| Orchestrator (`orchestrator.py`) | profile, endpoints, sessions | run one benchmark | sessions, device control, database | the profile's flags tell what happened |
| Worker (`benchmark.py`) | endpoint, background tasks | set the clock, run the daemon and loads for the remaining time | vendor, controller, database | a failure is visible to the orchestrator; a restart resumes |
| Vendors (`vendor/*.py`) | daemon invocations | run, restart, parse logs | invocation, controller | daemons end together; a fault hits all of them |
| Fault injection (`adapters/fault_generators.py`, `device_control.py`) | wake-up time, power switches | restart a daemon, switch power | vendor, sessions | each fault has the logged extent and none outlasts its benchmark |
| Cluster restart (`cluster_restart.py`) | none | reboot, wait for an answer | SSH | the benchmark starts on rebooted nodes |
| Log handler (`utilities/logging.py`) | endpoint | save a record | database | no record lost; must not break its caller |
| RPC (`rpc/*.py`) | registry of clients | register, unregister, stop | SSH, rpyc | a connected client is registered |
| Analysis (`commands/analyze.py`, `models/profile.py`, `models/endpoint.py`) | flags and results of a profile | convert, mark corrupt, clear | summaries | a processed profile has results; summaries follow profiles |
| Convergence detection (`profiles/analysis.py`) | none | clock step, convergence point | analysis | defined on every series |
| Summaries, queries | one row per benchmark, vendor, cluster | create, invalidate | analysis | never older than its profiles |
| Registry, configuration (`registry/*.py`, `profiles/benchmark.py`, `config.py`) | tables | look up, take a subset | every other part | whatever is queued finds its machines, faults, servers and configurations |
| Charts, Django site, commands | - | plot, serve pages | - | not modelled, see 7 |

The hard behaviours are (a) rows of the database read, kept and written back as
a whole by processes that do not lock them, (b) processes that are lost between
two writes, (c) asyncio tasks that are cancelled, possibly twice, at any await,
with `finally` clauses that await again and may raise, (d) child processes that
exit, hang, ignore signals or outlive their parent, and (e) failures recorded in
a place nobody reads. `PROJECT.json` lists them at their lines under `hazards`,
with the properties that cover them or the reason why none does.

## 2. Modules

### Scheduler

`Scheduler.tla` models the queue and the process that works through it. A row is
a record of priority, pause flag, started (start_time is set), done
(completion_time is set) and success. The scheduler's program counter:

| `pc` | in the code |
|---|---|
| `down` | no `scheduler.py run` |
| `idle` | in the loop of `run_scheduler` |
| `picked` | `next_task()` returned a row; the process holds a copy (`snap`) |
| `running` | the first `save()` is done, the command runs |
| `finished` | success and completion_time are set in the copy, not saved |

Django's `save()` writes all fields of the copy, so `StartTask` and `SaveResult`
write `snap` over the row, whatever was written there meanwhile. An admin action
is two steps: `AdminRead` takes copies of the selected rows and `AdminSave`
writes them all (one transaction) with one field changed. `CommandExits`,
`DeadlineFails` and `DeadlineEscapes` are the ways `invocation.run(timeout=...)`
ends. At the deadline the invocation is cancelled and the command terminated: an
exit code other than 0 raises InvocationFailedException, which `run()` catches;
the signals go to the shell alone and `_terminate` gives up five seconds after
SIGKILL, so the command may be left behind (`orphans`) although its task has
failed; exit code 0 (the command ended at that moment, or handles SIGTERM) makes
`asyncio.wait_for` raise TimeoutError, which nothing catches before
`StackTraceGuard` ends the process. `KillScheduler` is any other end of the
process, with or without the survival of the command.

`touched`, `ran` and `exitedOk` are history variables that no action reads.

`TaskQueue.tla` is the abstract specification: tasks run one at a time until they
have a result, and a task cut short is repeated before a new one begins. It has
no rows, copies, processes or priorities.
The refinement mapping `Phase` computes the phase of a task from its row and from
whether the scheduler holds it.

### Invocation

`Invocation.tla` models one `Invocation`: `pc` is the await at which the monitor
task (`_run`) is suspended, and everything between two awaits is one action.

| `pc` | suspended in |
|---|---|
| `starting` | `_start` (process creation), or created and not yet run |
| `communicating` | `_communicate` of `_run` |
| `terminating` | the first wait of `_terminate`, after SIGTERM |
| `killing` | its second wait, after the first timed out |
| `delay` | `asyncio.sleep(restart_delay)` |
| `done` | the task has a result |

Callers act at any moment: `Cancel` (a time limit of `run` or `wait`, `stop`, or
the cancellation of the awaiting task) sets a flag, and the monitor task meets it
when it is next resumed (`CancelDelivered`), possibly for the second time while
it is terminating. `Restart` includes the calls that are refused, because they
assign before they check. `ReadFails` is an exception of a reader. `Exit` may
come at any moment; a process that was sent SIGKILL is `killed` until then.

The log handlers save to the database. `LogsBreak` makes every later log call
raise, and the model has the log calls where the code does: before the launch,
before SIGTERM, before SIGKILL, after the wait and before the verification.
(`log_invocation` and `log_output` are on, as for daemons and sessions.)

Signals are assumed to be permitted (the worker runs as root, or the command is
not privileged).

`ManagedProcess.tla` is the abstract specification: the process as those who await
its task see it (none, up, killed, paused) and the task (running, cancelling or
how it ended). It knows no return codes, delays, verification or order of
termination. The refinement mapping (`TaskSeen`, `ProcSeen`, `KeptSeen`) counts an
exit only once the monitor task has noticed it, a restart that is still to come as
`killed`, and during `_terminate` takes the process as kept alive if it was so when
`_terminate` was called. `Break` is the one way in which a process outlives its
task, and only without the database.

`Orchestration` (`link`) and `Worker` (`proc`) have the processes of this
specification, with logs that do not break. Each instantiates it once for every
session or daemon (`Managed`), and `SessionsAreManaged` and `DaemonsAreManaged` state
that each of them behaves as it says (of a daemon, between losses of power). So
what an Invocation is shown to do and what its callers are shown to rely on is one
specification. In the worker the converse holds too (`EveryOutcomeIsTaken`): every
start, pause and end that the specification allows is one of its steps. The
sessions are narrower, because the end of an ssh follows that of the worker at its
other end.

### MultiTask

`MultiTask.tla` is `MultiTaskController`: an owner adds tasks, waits for the first
or for all of them, with a duration or without, and cancels the rest. `ctl` is
what the owner awaits. `Outcomes` are the ways `run_for` can end for the same set
of finished tasks, because it reads their results in the order of a set. The
exit stack is a sequence with one callback per task; `StopFrom` passes over the
tasks that are done and cancels the next one, so that one action again is
everything between two awaits. The module leaves the ends of the tasks to the
modules that instantiate it: `Orchestration` once (sessions and device control)
and `Worker` twice (background tasks, and the daemons of LinuxPTP). Chrony's
asyncio.TaskGroup has the same variables and actions of its own, because it
cancels all its tasks at once and collects what they raise.

### Orchestration

`Orchestration.tla` is one benchmark from `run_orchestration` on: synchronizing,
rebooting (`restart_node` of each machine with its bounded probes, against a
machine that goes down when it likes), saving the profile, opening one session
per machine, the device control, the two waits, the cancellation and the last
save. A session is an `Invocation` of ssh; here it is reduced to `link` (off, on,
in the pause of a keep-alive restart) and to the outcomes that `Invocation`
allows (`ManagedProcess`): `Invocation!OutcomeTellsReturnCode` is why a session
that ends by itself fails exactly when the remote exit code is not 0, and
`Invocation!CancelEnds` is why a cancelled one ends. `worker` is the program at
the other end, which goes on when its ssh is terminated or when ssh gives up the
connection (`ConnectionLost`: its keep-alive messages were not answered). A session
that is kept alive then connects again and starts a second worker; the first is
one of the `strays` until it ends by itself or loses power. A session that is
cancelled when its worker is over ends as cancelled or, as ssh may be terminated
with another code before it notices, as failed. `DevStarts`,
`FaultBegins` and `FaultEnds` are the parts of `DeviceControl.run` between its
sleeps; `SwitchAll` switches all machines and stops at any one of them when the
power strip refuses. `LastOn` is the `finally` of `run`: it switches on the machine
the loop variable was left at and no other, which `orchestration_dark` shows.

### Worker

`Worker.tla` is `run_worker.py`: the first start sets the clock with the help of
the chrony service, each start adds the background tasks and runs them for the
remaining time, and the program always exits with code 0. `vpc` is where the
vendor's `run()` is, `inner` the monitor tasks of its daemons and `proc` their
processes. The kinds are LinuxPTP (two daemons under a controller), Chrony (a
daemon and a tail in a TaskGroup) and the others (one daemon).

The program is started again in two ways. `PowerCycle` ends everything on the
machine at any moment; whether the chrony service runs afterwards is what the
machine does when it boots (`setup.atBoot`: `deploy/configure_node.sh` installs the
service, and whether it is enabled is left to the machine). `SessionRestarts` is a
kept-alive session that finds its program ended: the machine, and a service that
could not be stopped (`StopRaises`, `stuck`), stay as they are. Either way the later
start skips the synchronization, the only place that stops the service.
`OneDiscipline` therefore allows the daemon and the service together in exactly
these starts. Two programs on one machine (the `strays` of `Orchestration`) are not
in this module.

### Analysis

`Analysis.tla` is the command `analyze`: `convert_profile` in the steps after
which other processes can see something of it (samples deleted, flags cleared,
samples written, flags saved, summary deleted), then `summarize`. (The deletion of
a summary, the query of the endpoints and the loading of their samples are one
step, `QuerySamples`.) Processes hold
the rows as their query returned them (`copy`) and save them as a whole. The
logs of a profile are a record of what the conversion tells apart: whether the
records can be parsed, whether the slaves have samples, whether timestamps and clock steps pass their checks, the
number of sign changes, whether the metrics can be read, and the faults.
`Verdict` is the decision of `process_system_metrics_data` and
`process_timeseries_data` on it. An admin request on a profile, a second
analysis that overlaps, the loss of an analysis and that of an orchestrator
(`LoseOrchestrator`, which leaves its profile `is_running`) are incidents.

Both admin actions read the row first. `delete_analysis_output` deletes the samples
and saves the row in one transaction (`AdminClear`), `reanalyze_profile` in separate
commits (`AdminDelete`, `AdminSave`) with anything in between, and either
request may be lost (`AdminLost`). From `AdminDelete` to its next conversion the
profile is `disturbed`: it may be processed, undisturbed by any analysis and
without samples, for ever if the request is lost there.

`disturbed` (profiles whose conversion was interfered with) and `skipped` (keys
whose profiles changed with no invalidation afterwards) are history variables;
they are what `FlagsTellTheLog` and `SummariesAgree` exclude, and both are
emptied again by the code's own repair, the next conversion and invalidation.
What happens in these windows is not caught by the properties; section 5 lists it.

### Catalogue and Campaign

`Catalogue.tla` has the registered benchmarks, the clusters and machines, the
power strips with their sockets, the priorities of the machines in the election
of the master, and the vendors' templates and sample sources as values: a
translation of the tables, without names, addresses and descriptions.
Its predicates say what a benchmark needs of a cluster and of a vendor: machines
that a worker finds by their ids, roles that agree with the election, with the
failover master next in line, one socket on an existing strip for each machine
whose power is cut, one iperf server, one template for each role.

`Campaign.tla` composes it with `Analysis` and the queue: `queue_benchmarks`
looks up the tables and the profiles that count, `RunNext` and `TaskEnds` are a
scheduler with the abstraction of `TaskQueue` (which `Scheduler` is shown to
implement), and a task that runs owns one profile, which is created and closed
as `Orchestration` does it. So the count that one call of `queue_benchmarks`
finds depends on the runs, losses and analyses since the last one.

The queue is a finite set of tasks, each with its call, its iteration in the call
and the place of its combination in the iteration. `Earlier` is the order of the
ids they get: by call, then by iteration, as the sort of `queue_benchmarks` leaves
them. `IsNext` is the scheduler's order: the highest priority, then the lowest id. A
task ends (`TaskEnds`), fails before it has a profile (`FailNext`: the rsync or the
restart of a machine raises), or is lost (`TaskIsLost`); if the scheduler is lost
with it, its row is still pending with the priority of a started task and is
taken up again, with a new profile. The orchestrator need not be lost with the
task (`OrchestratorIsLeft`): it may outlive its scheduler, whose task is then
repeated beside it, or its deadline, whose task is over. It is in `left` until it
makes its last save or is lost (`LeftEnds`); a profile whose task is repeated
beside it is in the history `repeated`, because the two runs may yield two good
profiles for one task. `TargetKept` does not count those: the target is exceeded
then. `reached`, `goal` and `exact` are histories:
the iteration a call has begun, the target of a key, and the keys whose calls all
had a target, named the key once and came when the results of the earlier ones
were in. `TargetKept` is stated for those keys only; for others
`queue_benchmarks` does queue too many, because it counts results and not what
waits.

### Configurations and proofs

The modules `MC...` give the constants values. The modules `...Proofs` and
`SchedulerRefinement` hold theorems only. Definitions
whose names have an underscore and a suffix (`StartTask_Unsaved`) are
deliberately wrong variants: each is a plausible bug, placed just before the
definition it would replace, and `PROJECT.json` names the property that then
fails.

## 3. Runs

| Run | Instance | Shows |
|---|---|---|
| `scheduler_unattended` | 3 tasks, 2 priorities, 2 losses, 1 late deadline, no admin (15 thousand states) | refinement of `TaskQueue`, every task finishes |
| `scheduler_edits` | 2 tasks, 2 concurrent admin requests, 2 edits, 1 loss, 1 late deadline (2.6 million states) | results stay consistent and real under stale writes, no needless re-run, at most one interrupted task |
| `scheduler_lost_result` | 1 task, 1 edit | violated: pausing a task erases the result that was saved meanwhile |
| `scheduler_timeout_stops` | 1 task, 1 late deadline | violated: a deadline ends the scheduler |
| `scheduler_overlap` | 1 task, 1 loss | violated: a task runs beside its own earlier run |
| `invocation` | 2 return codes, 2 delays, otherwise unbounded (7 thousand states) | nothing left behind, true outcomes, kept delays, cancel is final and ends, keep-alive revives; it implements `ManagedProcess` |
| `invocation_left_behind` | the same | violated: without the database a process is not killed |
| `orchestration` | 2 machines, 2 switches, 4 kinds of benchmark, 2 probes, with and without the reboot (440 thousand states) | a profile is closed when nothing runs any more, success is earned, a second worker is only started by a session that is kept alive, no machine skips its reboot, every session is a `ManagedProcess`, every benchmark ends |
| `orchestration_dark` | the same | violated: a fault of two switches outlasts its benchmark |
| `orchestration_noted` | the same | violated: a failure that a worker has noted counts as a success |
| `worker` | every kind of vendor, with and without keep-alive, loads, faults and monitor; with and without the service at boot; 3 starts (51 thousand states) | no daemon outlives its vendor nor a task its program, the clock is set once, the service runs beside the daemon only where the code leaves it running, faults are survived, every daemon is a `ManagedProcess`, the worker ends |
| `campaign` | 2 keys, 2 profiles, 3 logs, 2 calls, 2 analyses, 1 incident (2.2 million states up to the symmetry of the analyses) | analysed only after the run, flags and summaries agree with the logs, calls keep to their target and order, everything queued has its machines, servers and templates, every conversion decides |

Properties, with what they are about, are stated at the end of each module.

**Bounds.** `MaxTasks`: with three tasks one can be interrupted, one waiting and
one arriving, at either order of priority. `MaxKills = 2` allows the loss of a
scheduler that has already taken up an interrupted task. `MaxEdits = 2` lets two
requests overlap each other and the scheduler; a second request can read what
the first has spoiled. `MaxLate` bounds the deadlines that end the scheduler.
`MCRunPriority = 9` stands for 999: it is above every priority two edits can
reach, which the real gap also is. The theorems below hold for all values.
`Invocation` has no counters: its state is finite, and one expected and one
unexpected return code and two delays are all that the code tells apart.
In `orchestration` two machines are the least where one session ends while
another runs on, and where one is kept alive and the other is not; the plans are
those that `DeviceControl` tells apart: no faults, a fault of a machine, of both
switches, and a location without machines. `MaxProbes = 2`, 20 in the code, has a
first, a last and no further attempt. Faults may repeat without a bound.
In `worker` the setups are the combinations in use (a monitored benchmark, one with
load, the software faults of each kind of vendor, one without a configuration);
three starts are the first one, a restart, and one after a restart.
In `campaign` one key has faults and one has not. Of the three logs one is good for
both; one is corrupt where a fault is missing and makes the conversion raise
elsewhere; one cannot be parsed. A call without a target, which adds one iteration
whatever there is, is left to the theorems.
The calls of `analyze` are interchangeable, hence the symmetry.
Two profiles are enough for a count of 0, 1 or 2 against a target of 1 or 2, for
a call that finds a finished profile, and for two analyses that share one
profile. One incident (a lost analysis or orchestrator, an orchestrator left behind, an
admin request with or without an end, an overlap) at any
point shows what each does on its own; the theorems on `Analysis` and `Campaign`
have no bound on any of these. The tables of `Catalogue` are the complete ones of the code.
Deadlock is checked in every run but `campaign`, where all calls, analyses and
incidents may be used up: `queue_benchmarks` and `analyze` are commands that
nobody has to give again.

**Fairness.** `Scheduler!Fairness`: the loop of a living scheduler takes its next
step (picking, starting, saving), and the deadline of a command passes. No
fairness is assumed of the command, of admin users or of whoever starts the
scheduler again; `EveryTaskFinishes` therefore excludes behaviours in which it
stays down. The bounds on losses stand for "the scheduler is not lost over
and over". The interval timer of a deadline exists because `timeout` is never
None for a row with its non-null durations. `Invocation!FairSpec`: the
event loop resumes a task that is ready and fires timers (`Monitor`), and a
process that was sent SIGKILL exits and its output ends. A process need not exit
by itself nor obey SIGTERM, and nothing makes it `Terminated` in time: `CancelEnds`
rests on the two time limits alone, so it also covers a process in
uninterruptible sleep and a grandchild that holds the pipes open. `ReadFails` and
the callers are not fair. `Orchestration!Fairness`: the event loop resumes what is
ready, timers fire, ssh notices a machine that does not answer (its options
ServerAliveInterval and ServerAliveCountMax), and a worker ends with its
remaining time, which `Worker!WorkerEnds` shows. Nothing makes a machine reboot,
a fault end, or a power strip obey. `Worker!Fairness`: the same of its event
loop, and cancelled tasks end, which for processes is `Invocation!CancelEnds`.
Daemons and loads need not exit. `Analysis` and `Campaign` state no fairness:
nobody must call the commands, and that a call ends is a loop over a finite list.

## 4. Proofs

All theorems hold for every value of the constants under the named assumptions
of the modules (numbers are numbers, None is not a return code, the setups are
setups, profiles are finitely many).

| Theorem | Argument |
|---|---|
| `SchedulerProofs!TypeCorrect` | `TypeOK` is inductive |
| `ResultsAgree`, `SuccessesAreReal` | `CompletedAgree` and `SuccessIsReal` speak of the table, but stale copies are written back into it; `ResultsInv` states the same of every copy, the scheduler's `snap` and each row an admin request has read |
| `RerunsAreNeeded` | `RerunInv`: a row no admin page wrote that ran to its end is done or held by the scheduler |
| `InterruptedComesFirst` | `InterruptedInv`: a started row has `RunPriority`, others less, and a held or picked task is the interrupted one if there is one |
| `SchedulerRefinement!Refinement` | assuming no admins and priorities below `RunPriority`; `HoldInv` relates the table to the copy, and each action maps to a step of `TaskQueue` or to a stutter |
| `RepeatedBesideItselfNeedsALoss` | `LeftInv`: without a loss of the scheduler a command is left behind only by its deadline, its task then has a result or is about to get it, and `HeldIsOpen` says that such a task is not held again. Other commands may overlap with it (item 3) |
| `ResultsAreFinal` | `HeldIsOpen`: what the scheduler holds has no result in the table, so its stale copy overwrites none; only an admin action does (item 1 below) |
| `InvocationProofs!TypeCorrect` | `TypeOK` is inductive |
| `NothingLeftBehind` | `ProcessInv` adds that nothing runs during the wait after SIGKILL and before the first start |
| `OutcomesAreTrue` | `OutcomeInv` adds what was raised during `_terminate` and that verification is skipped in a pause and in every later start |
| `DelaysAreKept` | `AskedInv` adds that while the process is watched `restart_delay` is that of the last call |
| `CancellingIsFinal` | `StoppedInv`: a delivered cancellation leaves the task in `_terminate` or done |
| `InvocationIsManaged` | `SeenInv` adds what the two views share (a process that runs has not been asked to pause, only an error ends a task before its process); each action maps to a step of `ManagedProcess` or to a stutter |
| `CancelledInThreeSteps` | the variant `StepsLeft`: every step of the monitor task lowers it after a cancellation and nothing raises it; until the end a step is due (`StepDue`) |
| `MultiTaskProofs!ControllerLeavesNothing` | `MTInv`: every task that is alive is on the exit stack, and only the one on top of a stack that is being unwound is cancelled; so an empty stack leaves nothing |
| `StopShrinks` | the variant is the length of the stack; `WaitsForCancelled`: the task on top of it is cancelled and alive, or has just ended |
| `OrchestrationProofs!TypeCorrect` | `TypeInv`: the types and `MTInv` of the controller, whose steps must be told apart for it to be kept |
| `RebootBeforeBenchmark` | `BootInv`: a machine whose restart has got past the shutdown was told to reboot |
| `ProfileIsClosed` | `CloseInv`: the stop is noted exactly when the orchestration is over, and then the controller has stopped; `MTInv` says what that means for the sessions |
| `SecondWorkersAreKept` | `StrayInv`: a session pauses only if it is kept alive, and one that has not begun has no worker yet; by `KeepInv` `keep_alive` is never taken back |
| `SuccessMeansNoFailure` | `DeviceInv`: device control was added last, so it is stopped first and no session is cancelled before it; `EarnedInv`: a failure that `run_for` did not raise is a later one, raised by the stop or of a session that was not its turn |
| `SessionsFollowTheirProcess` | `KeepInv`: only the device control sets `keep_alive`, once it runs, and nothing takes it back; each action maps to a step of every session's `ManagedProcess` or to a stutter |
| `WorkerProofs!TypeCorrect` | `TypeInv`: the types and `MTInv` for both controllers; `PhaseInv`: where the controllers are at each place of `benchmark()` and `run()`, without which neither is kept |
| `NoTaskOutlives`, `NoDaemonOutlives` | from both: the program exits with a controller that has stopped, so the vendor's task is over, so the daemons' controller has stopped or never had a task |
| `ClockHasOneMaster` | `ServiceInv`: the first start stops the service before its tasks are added, or adds none; a later one finds it only where the machine boots with it or it could not be stopped |
| `ClockIsLeftAlone` | `ClockInv`: only the first start comes to the clock, and before it nothing has run |
| `KeptAliveSurvives` | `KeepInv`: while the time of the benchmark runs, a daemon that is kept alive is not over and `run()` is not stopping, or the tail of Chrony has failed |
| `DaemonsFollowTheirProcess` | each action maps to a step of every daemon's `ManagedProcess` or to a stutter; leaving the wait and the stop only cancel, one daemon at a time, and `Kept` never changes |
| `EveryOutcomeIsTaken` | the converse: whatever `ManagedProcess` allows a daemon on its own is a step of `Worker`, but `Break` |
| `AnalysisProofs!TypeCorrect` | `KeyInv` adds that the rows processes hold keep the keys of the table |
| `OnlyClosedAnalysed` | `RunInv`: no query and no admin request that read a closed profile holds an open one, so their saves never mark a running profile as processed |
| `SummariesAreRight` | `SumInv`, below |
| `CampaignProofs!CampaignTypes` | `QueueInv`: the types with `LinkInv`, which ties the running task to its open profile |
| `CampaignIsAnalysed`, `CampaignKeepsPromises` | each action of `Campaign` maps to a step of `Analysis` or to a stutter; `LinkInv` gives the guards of `Close` and `LoseOrchestrator` |
| `TasksInterleave` | `OrderInv`, below |
| `TargetIsKept` | `TargetKept` is inductive beside `CampaignInv`, by counting, below |
| `FlagsAreRight`, `EveryConversionDecides` | `FlagInv`: what each stage of an undisturbed conversion has already done and found in the logs, and that two analyses of one profile, or the deletion of its samples by a request, disturb it |

`MultiTaskProofs` is stated for any set of tasks and is used through `INSTANCE`:
once for the sessions of `Orchestration` and twice in `Worker`, where the lemmas
`Same...` and `Daemon...` carry an action of the modelling instance to that of
the proofs. The stop picks the last task of the stack that is alive; that there
is one (`HasMaximum`) follows from the well-founded order of strict subsets of a
finite set, as the provers cannot do the induction on the length itself.

A campaign is shown to be a behaviour of `Analysis` (`CampaignIsAnalysed`): every
step of the queue, the scheduler and the orchestrators is a creation, a closing or
a loss of a profile, or leaves the profiles alone. So the theorems about `ASpec`
hold of the composition without being proved again (`CampaignKeepsPromises`).

The three invariants of the summaries and of the queue are not inductive alone:

- `SummariesAgree` speaks of what is stored; a summary is computed first and saved
  later. `SumInv` says, of every key that is not in `skipped` and whose usable
  profiles have their samples, that the stored summary counts its usable profiles,
  and so does the one that any process is about to save. Whatever changes
  the usable profiles of a key puts it in `skipped`; an invalidation takes it out,
  unless a process has counted for a summary of the key and not saved it yet
  (`Pending`).
- `Interleaved` speaks of the iteration a call has reached, and a task that is lost
  is put back behind it. `OrderInv` adds that the tasks of a call have one
  priority until they are begun, that the iteration reached is that of the
  call's running task, and that a task that was put back is not of a later one.
- `TargetKept` is a sum of three counts, the first of them of the profiles that are
  good or whose orchestrator goes on alone. It needs `LinkInv` (the profile of
  the running task is open and of its key, so that closing it moves one from one
  count to another), the finiteness of the queue, and the fact that what a
  call adds to a settled key is at most the target less the usable profiles
  (`TasksCounted`, from the cardinality theorems of the library).

The proofs have one step per action, or per group of actions that leave the
same variables alone.

Model-checked only, and why: the liveness properties (`EveryTaskFinishes`,
`CancelEnds`, `KeepAliveRevives`, `BenchmarkEnds`, `WorkerEnds`) need fairness
and ENABLED, though the variants that three of them rest on are proved
(`CancelledInThreeSteps` for one cancelled process, `StopShrinks` for the stop of a
controller, which `BenchmarkEnds` and `WorkerEnds` wait for); the properties of the tables (`FaultsHaveAPlace`,
`LoadsHaveAServer`, `VendorsAreEquipped`) have no parameters, so that their
evaluation for all entries is their proof, and they rest on a fold over the
registrations, which the provers cannot evaluate; and of course the violations.
Every other property of a passing run is a theorem.

## 5. Disagreements found

1. Pausing a task in the admin page can erase its result: the request reads the row
   before the scheduler saves it and writes all of it back afterwards, so that the
   row is pending again once it is not paused (`scheduler_lost_result`). It takes an
   admin action on that row: `ResultsAreFinal`.
2. A command that exits with code 0 at its deadline ends the scheduler
   (`scheduler_timeout_stops`).
3. After the loss of the scheduler the orphaned command and its repetition run at
   the same time (`scheduler_overlap`). For a task beside itself it takes a loss
   (`RepeatedBesideItselfNeedsALoss`); beside the next task a command may also run
   because it survived its deadline.
4. A hardware fault of several switches that is under way when the benchmark ends
   leaves all but the last of them without power (`orchestration_dark`).
5. With the database gone, `_terminate` sends no signal at all and leaves the
   process running (`invocation_left_behind`).
6. A worker whose benchmark failed notes it in an attribute of the profile that is
   no field and is not saved, and exits with code 0: the profile counts as
   successful (`orchestration_noted`).

Met on the way; most are excluded by name in the properties concerned, which do
not catch them, because no line of the repository promises otherwise:

- `restart()` of a process that is not kept alive kills it, fails its verification
  and does not start it again, because the `finally` of `_run` overwrites the request
  (`invocation.py:245`; the model has it in `CommunicateEnds`). The test
  `test_process_restart` restarts such a process and expects its output; no run
  checks it. The benchmarks with software faults set `ptp_keepalive`.
- A worker that a session or a power cycle starts again does not look at the chrony
  service, which runs beside the daemon if it was not stopped or starts with the
  machine (`OneDiscipline`).
- A connection lost under a session that is kept alive leaves two workers on the
  machine (`SecondWorkerIsKept`).
- An orchestrator that outlives its scheduler closes its profile although the task is
  repeated: two good profiles for one task (`TargetKept`).
- A restart that the fault generator asks of a daemon in its pause raises and ends
  the benchmark of that machine; `FaultsSurvived` speaks of the time before.

- `queue_benchmarks` asks only the cluster whether it supports a benchmark.
  Benchmarks with message intervals of their own are queued for Chrony and SPTP,
  and the failover for SPTP, whose workers then raise (`VendorsAreEquipped`);
  by item 6 their profiles are successful, and later corrupt for want of samples.
- On the cluster of all machines the workers find four iperf servers and raise
  (`LoadsHaveAServer`).
- A series with exactly five sign changes makes `detect_clock_convergence` index
  beyond its list; the profile is never decided (`ConversionDecides`).
- Overlapping analyses spoil each other's samples; an analysis lost between two
  saves leaves a stale summary or a processed profile without samples, and so does
  `reanalyze_profile` between its commits; a row cleared on the admin page while its
  benchmark ends stays `is_running` for ever (`FlagsTellTheLog`, `SummariesAgree`).
- A malformed record makes the parsers raise, before the check for missing faults,
  and the profile stays unprocessed (`ConversionDecides`).
- Usable profiles whose primary slave has no convergence point end `summarize`
  with a RuntimeError (`QuerySamples`).
- `--duration` and `--test` shorten a copy of the benchmark that nothing reads:
  workers and deadlines take the registered one (`orchestrator.py:116`).

## 6. Possible extensions

Two schedulers on one queue and the deletion of rows that a process holds are
the interleavings left out; both need a statement of what the code promises
first. A refinement from `Orchestration` and `Analysis` to the life of a profile
as `Campaign` uses it would turn that composition from an argument into a
theorem.

## 7. Not modelled

- **RPC** (`rpc/*.py`): nothing in the repository starts the server, and the
  program that its clients would run does not exist at this commit. Only
  `synchronize_repository` is used; it is in `Orchestration`.
- **Charts, Django site, migrations, thin command lines**: they read what is
  finished, or are configuration. No decision depends on them.
- **Statistics**: the aggregates of endpoints and summaries are floating-point
  computations in pandas. What they decide (convergence, corruption, exceptions)
  is in `Analysis` as a function of the few quantities it depends on; the series
  themselves are not.
- **Text**: patterns of log lines and templates are reduced to which lines of
  which daemon match and which template exists.
- **systemd_ntp**: it is not analyzed and has no template, so that its workers
  raise in `create_configuration_file`.
- **Admin pages**: the generic change form and deletions, of tasks as well as of
  profiles with their samples. Deleting removes what the other properties speak
  of, and the code promises nothing about a row that is deleted while a process
  holds it.
