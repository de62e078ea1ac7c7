-------------------------------- MODULE Worker --------------------------------
(***************************************************************************)
(* run_worker.py on one machine: benchmark() with its background tasks,    *)
(* the daemons of the synchronization vendor, the generator of software    *)
(* faults, and the restarts of the program by a kept-alive session.        *)
(*                                                                         *)
(* Daemons are Invocations: "inner" holds the states of their monitor      *)
(* tasks and proc their processes, with the outcomes that module           *)
(* Invocation allows.  LinuxPTP runs two of them under a controller of     *)
(* its own, Chrony runs chronyd and a tail in a TaskGroup, which cancels   *)
(* both at once, and the others await one.                                 *)
(***************************************************************************)
EXTENDS Integers, Sequences

CONSTANTS
    Setups,     \* what the profile asks of this machine, see Setup
    MaxStarts   \* bound on the starts of the worker

Kinds == {"linuxptp", "chrony", "single"}

\* The vendor's kind, whether phc2sys is used, the flags of the benchmark
\* (ptp_keepalive, artificial loads, fault_software on this machine,
\* monitor_resource_consumption), whether the vendor can be configured, and whether
\* the machine starts its chrony service when it boots.
Setup == [kind: Kinds, phc: BOOLEAN, keep: BOOLEAN, loads: SUBSET {"iperf", "stress"},
          fault: BOOLEAN, monitor: BOOLEAN, supported: BOOLEAN, atBoot: BOOLEAN]

ASSUME WorkerAssumption ==
    /\ Setups \subseteq Setup /\ MaxStarts \in Nat

BackgroundTask == {"iperf", "stress", "fault", "monitor", "vendor"}
Daemon == {"main", "aux"}

VARIABLES
    pc,         \* where benchmark() is
    setup,      \* what the profile asks for
    starts,     \* endpoint.restart_count
    first,      \* is_first_startup
    success,    \* profile.success, which is not a field of the model
    service,    \* whether the chrony service of the system runs
    stuck,      \* history: stopping it has failed since the machine was booted
    clockSets,  \* how often the clock has been set
    task, stack, ctl, timed, outcome, stopFailed,       \* background_tasks
    vpc,        \* where the vendor's run() is
    inner, istack, ictl, itimed, ioutcome, istopFailed, \* the daemons' tasks
    proc,       \* the processes of the daemons
    everRan     \* history: the daemon has run in this benchmark

tasks == <<task, stack, ctl, timed, outcome, stopFailed>>
daemons == <<inner, istack, ictl, itimed, ioutcome, istopFailed, proc>>
ntp == <<service, stuck>>
vars == <<pc, setup, starts, first, success, ntp, clockSets, tasks, vpc, daemons,
          everRan>>

W == INSTANCE MultiTask WITH Task <- BackgroundTask
V == INSTANCE MultiTask WITH Task <- Daemon, task <- inner, stack <- istack,
         ctl <- ictl, timed <- itimed, outcome <- ioutcome, stopFailed <- istopFailed

Wanted ==
    setup.loads \cup (IF setup.fault THEN {"fault"} ELSE {})
                \cup (IF setup.monitor THEN {"monitor"} ELSE {}) \cup {"vendor"}

WantedDaemons == IF setup.kind = "single" \/ (setup.kind = "linuxptp" /\ ~setup.phc)
                 THEN {"main"} ELSE Daemon

\* The state of a program that has just been started.
Fresh ==
    /\ W!MTInit /\ V!MTInit
    /\ vpc = "none" /\ proc = [d \in Daemon |-> "none"]

Init ==
    /\ pc = "down" /\ setup \in Setups
    /\ starts = 0 /\ first = TRUE /\ success = FALSE
    /\ service \in BOOLEAN /\ stuck = FALSE /\ clockSets = 0 /\ everRan = FALSE
    /\ Fresh

-----------------------------------------------------------------------------
(* benchmark() *)

\* Mutant: every start is taken for the first.
StartWorker_AlwaysFirst ==
    /\ pc = "down" /\ starts < MaxStarts
    /\ pc' = "configuring"
    /\ starts' = starts + 1 /\ first' = TRUE
    /\ UNCHANGED <<setup, success, ntp, clockSets, tasks, vpc, daemons, everRan>>

\* Mutant: the restart is counted a second time.
StartWorker_Twice ==
    /\ pc = "down" /\ starts < MaxStarts
    /\ pc' = "configuring"
    /\ starts' = starts + 2 /\ first' = (starts = 0)
    /\ UNCHANGED <<setup, success, ntp, clockSets, tasks, vpc, daemons, everRan>>

\* Up to the configuration file; the endpoint with its count is saved.
StartWorker ==
    /\ pc = "down" /\ starts < MaxStarts
    /\ pc' = "configuring"
    /\ starts' = starts + 1 /\ first' = (starts = 0)
    /\ UNCHANGED <<setup, success, ntp, clockSets, tasks, vpc, daemons, everRan>>

\* An exception before the tasks run: noted, and there is nothing to cancel.
Fails ==
    /\ pc' = "cancelling" /\ success' = FALSE
    /\ W!CancelPendingTasks

\* create_configuration_file raises for intervals or roles it has no template for.
Configure ==
    /\ pc = "configuring"
    /\ IF setup.supported
       THEN /\ pc' = IF first THEN "synchronizing" ELSE "adding"
            /\ UNCHANGED <<success, tasks>>
       ELSE Fails
    /\ UNCHANGED <<setup, starts, first, ntp, clockSets, vpc, daemons, everRan>>

\* The finally of initial_time_synchronization stops the service, or raises.
ServiceStopped == service' = FALSE /\ UNCHANGED stuck
StopRaises == service' \in BOOLEAN /\ stuck' = TRUE

\* initial_time_synchronization: the service is started, if it does not run
\* already.  When that raises, it is stopped all the same.
StartService ==
    /\ pc = "synchronizing"
    /\ \/ service' = TRUE /\ pc' = "tracking" /\ UNCHANGED <<stuck, success, tasks>>
       \/ (ServiceStopped \/ StopRaises) /\ Fails
    /\ UNCHANGED <<setup, starts, first, clockSets, vpc, daemons, everRan>>

\* Mutant: the service is only stopped after a successful synchronization, and
\* the failure is not raised.
StopService_OnSuccess ==
    /\ pc = "tracking"
    /\ service' \in BOOLEAN /\ pc' = "jumping"
    /\ UNCHANGED <<stuck, success, tasks>>
    /\ UNCHANGED <<setup, starts, first, clockSets, vpc, daemons, everRan>>

\* Its offset is small enough, or not in time; the service is stopped in either
\* case, and that may fail too.
StopService ==
    /\ pc = "tracking"
    /\ \/ ServiceStopped /\ pc' = "jumping" /\ UNCHANGED <<success, tasks>>
       \/ (ServiceStopped \/ StopRaises) /\ Fails
    /\ UNCHANGED <<setup, starts, first, clockSets, vpc, daemons, everRan>>

\* clock_jump.
ClockJump ==
    /\ pc = "jumping"
    /\ \/ clockSets' = clockSets + 1 /\ pc' = "adding" /\ UNCHANGED <<success, tasks>>
       \/ UNCHANGED clockSets /\ Fails
    /\ UNCHANGED <<setup, starts, first, ntp, vpc, daemons, everRan>>

\* The tasks are added, the vendor's as the last; none of them runs before the
\* await of run_for.
AddBackgroundTask(t) ==
    /\ pc = "adding" /\ t \in Wanted
    /\ t = "vendor" => Wanted \ {"vendor"} = W!Added
    /\ W!AddTask(t)
    /\ vpc' = IF t = "vendor" THEN "created" ELSE vpc
    /\ UNCHANGED <<pc, setup, starts, first, success, ntp, clockSets, daemons,
                   everRan>>

\* Mutant: without the duration.
Run_Untimed ==
    /\ pc = "adding" /\ W!Added = Wanted
    /\ pc' = "running" /\ W!RunFor(FALSE, FALSE)
    /\ UNCHANGED <<setup, starts, first, success, ntp, clockSets, vpc, daemons,
                   everRan>>

\* run_for(estimated_time_remaining), which is not negative.
Run ==
    /\ pc = "adding" /\ W!Added = Wanted
    /\ pc' = "running" /\ W!RunFor(FALSE, TRUE)
    /\ UNCHANGED <<setup, starts, first, success, ntp, clockSets, vpc, daemons,
                   everRan>>

\* The time is over, or a task has ended; run_for returns or raises.
RunEnds ==
    /\ pc = "running"
    /\ pc' = "cancelling"
    /\ \E o \in W!Outcomes : W!RunForEnds(o) /\ success' = (o = "returned")
    /\ UNCHANGED <<setup, starts, first, ntp, clockSets, vpc, daemons, everRan>>

CancelNext ==
    /\ pc = "cancelling" /\ W!StopNext
    /\ UNCHANGED <<pc, setup, starts, first, success, ntp, clockSets, vpc,
                   daemons, everRan>>

\* The end of benchmark(): every exception was caught, the exit code is 0.
Exit ==
    /\ pc = "cancelling" /\ ctl = "stopped"
    /\ pc' = "exited"
    /\ success' = (success /\ ~stopFailed)
    /\ UNCHANGED <<setup, starts, first, ntp, clockSets, tasks, vpc, daemons,
                   everRan>>

\* The program and all that it has started are gone.
Gone ==
    /\ pc' = "down"
    /\ task' = [t \in BackgroundTask |-> "absent"] /\ stack' = <<>>
    /\ ctl' = "idle" /\ timed' = FALSE /\ outcome' = "none" /\ stopFailed' = FALSE
    /\ inner' = [d \in Daemon |-> "absent"] /\ istack' = <<>>
    /\ ictl' = "idle" /\ itimed' = FALSE /\ ioutcome' = "none" /\ istopFailed' = FALSE
    /\ vpc' = "none" /\ proc' = [d \in Daemon |-> "none"]
    /\ UNCHANGED <<setup, starts, first, success, clockSets, everRan>>

\* The machine loses power, at any moment, and boots again.
PowerCycle ==
    /\ pc # "down" /\ Gone
    /\ service' = setup.atBoot /\ stuck' = FALSE

\* The program has ended, and the session, which is kept alive, starts it again:
\* the machine stays as it is.
SessionRestarts == pc = "exited" /\ Gone /\ UNCHANGED ntp

-----------------------------------------------------------------------------
(* Load generators and resource monitor *)

EventLoop == pc \in {"running", "cancelling"}
Frame == UNCHANGED <<pc, setup, starts, first, success, ntp, clockSets>>

\* A load generator ends, is refused its port for too long, or is cancelled: its
\* return code after SIGTERM is not an expected one.
LoadEnds(t) ==
    /\ EventLoop /\ t \in {"iperf", "stress"}
    /\ \E r \in {"returned", "failed", "cancelled"} : W!TaskEnds(t, r)
    /\ UNCHANGED <<vpc, daemons, everRan>> /\ Frame

\* ResourceMonitor.update reads the process of the vendor and raises when the vendor
\* runs two of them.
MonitorRaises == setup.kind = "linuxptp" /\ setup.phc /\ inner["aux"] # "absent"

\* An IntervalActionAdapter updates until it is cancelled, and then returns.
MonitorEnds ==
    /\ EventLoop
    /\ \/ task["monitor"] = "cancelling" /\ W!TaskEnds("monitor", "returned")
       \/ MonitorRaises /\ W!TaskEnds("monitor", "failed")
    /\ UNCHANGED <<vpc, daemons, everRan>> /\ Frame

-----------------------------------------------------------------------------
(* The vendor's daemons *)

vendorTask == <<tasks, everRan>>

\* Mutant: the process is also started for a task that was cancelled meanwhile.
DaemonStarts_Cancelled(d) ==
    /\ EventLoop /\ inner[d] \in V!Alive /\ proc[d] \in {"none", "paused"}
    /\ proc' = [proc EXCEPT ![d] = "up"]
    /\ everRan' = TRUE
    /\ UNCHANGED <<tasks, vpc, inner, istack, ictl, itimed, ioutcome, istopFailed>>
    /\ Frame

\* A daemon's process is started, for the first time or after a pause.
DaemonStarts(d) ==
    /\ EventLoop /\ inner[d] = "running" /\ proc[d] \in {"none", "paused"}
    /\ proc' = [proc EXCEPT ![d] = "up"]
    /\ everRan' = TRUE
    /\ UNCHANGED <<tasks, vpc, inner, istack, ictl, itimed, ioutcome, istopFailed>>
    /\ Frame

\* Mutant: keep_alive is set for the first daemon only.
Kept_MainOnly(d) == setup.keep /\ d = "main"

\* Daemons whose Invocation is kept alive.
Kept(d) == setup.keep /\ (d = "main" \/ setup.kind = "linuxptp")

\* A daemon exits by itself, or has been killed: kept alive it pauses, otherwise
\* its task ends according to the return code (ManagedProcess!Pause and End).  One that
\* was killed may have ended well just before.
DaemonExits(d) ==
    /\ EventLoop /\ inner[d] = "running" /\ proc[d] \in {"up", "killed"}
    /\ IF Kept(d)
       THEN /\ proc' = [proc EXCEPT ![d] = "paused"]
            /\ UNCHANGED <<inner, istack, ictl, itimed, ioutcome, istopFailed>>
       ELSE /\ proc' = [proc EXCEPT ![d] = "none"]
            /\ \E r \in {"returned", "failed"} : V!TaskEnds(d, r)
    /\ UNCHANGED <<vpc, vendorTask>> /\ Frame

\* The task of a daemon is cancelled: the process is terminated, or killed, and
\* its return code may turn the cancellation into a failure.
DaemonCancelled(d) ==
    /\ EventLoop /\ inner[d] = "cancelling"
    /\ proc' = [proc EXCEPT ![d] = "none"]
    /\ \E r \in {"cancelled", "failed"} :
          /\ r = "failed" => proc[d] \in {"up", "killed"} /\ ~Kept(d)
          /\ V!TaskEnds(d, r)
    /\ UNCHANGED <<vpc, vendorTask>> /\ Frame

\* The vendor's task ends with r.
VendorEnds(r) == vpc' = "ended" /\ W!TaskEnds("vendor", r)

\* Cancelled before it has begun.
VendorNotBegun ==
    /\ EventLoop /\ vpc = "created" /\ task["vendor"] = "cancelling"
    /\ V!Added = {} /\ VendorEnds("cancelled")
    /\ UNCHANGED <<daemons, everRan>> /\ Frame

\* run() creates the tasks of its daemons, ptp4l or chronyd first; Chrony waits
\* a second before the tail, the others have no await in between.
MayAdd(d) ==
    /\ EventLoop /\ vpc = "created" /\ d \in WantedDaemons
    /\ task["vendor"] = "running" \/ (V!Added # {} /\ setup.kind # "chrony")
    /\ d = "aux" => inner["main"] \notin {"absent", "failed"} \/ setup.kind # "chrony"

\* Mutant: phc2sys is not added to the controller of run().
VendorAdds_Loose(d) ==
    /\ MayAdd(d) /\ inner[d] = "absent"
    /\ inner' = [inner EXCEPT ![d] = "running"]
    /\ istack' = IF d = "main" THEN Append(istack, d) ELSE istack
    /\ UNCHANGED <<ictl, itimed, ioutcome, istopFailed, proc, vpc, vendorTask>> /\ Frame

VendorAdds(d) ==
    /\ MayAdd(d) /\ V!AddTask(d)
    /\ UNCHANGED <<proc, vpc, vendorTask>> /\ Frame

\* run() of LinuxPTP waits for the first daemon, the others for all of theirs.
VendorWaits ==
    /\ EventLoop /\ vpc = "created" /\ V!Added = WantedDaemons
    /\ V!RunFor(setup.kind # "linuxptp", FALSE)
    /\ vpc' = "waiting"
    /\ UNCHANGED <<proc, vendorTask>> /\ Frame

InGroup == setup.kind = "chrony"

\* The wait of run() is over: what is left is cancelled.
VendorStops ==
    /\ EventLoop /\ task["vendor"] = "running"
    /\ vpc = "waiting" /\ ~InGroup /\ \E o \in V!Outcomes : V!RunForEnds(o)
    /\ vpc' = "stopping"
    /\ UNCHANGED <<proc, vendorTask>> /\ Frame

\* The TaskGroup is aborted: all its tasks are cancelled at once, and no other
\* is added.
GroupAborts(result) ==
    /\ InGroup /\ vpc \in {"created", "waiting"}
    /\ inner' = [d \in Daemon |-> IF inner[d] \in V!Alive THEN "cancelling" ELSE inner[d]]
    /\ ictl' = "stopping" /\ ioutcome' = result
    /\ UNCHANGED <<istack, itimed, istopFailed>>

\* One of its tasks has failed.
GroupFails ==
    /\ EventLoop /\ task["vendor"] = "running"
    /\ (\E d \in Daemon : inner[d] = "failed") /\ GroupAborts("failed")
    /\ vpc' = "stopping"
    /\ UNCHANGED <<proc, vendorTask>> /\ Frame

\* The vendor's task is cancelled in its wait, or between the two tasks of the
\* group.
VendorCancelled ==
    /\ EventLoop /\ task["vendor"] = "cancelling" /\ V!Added # {}
    /\ \/ vpc = "waiting" /\ ~InGroup /\ V!RunForCancelled
       \/ GroupAborts("cancelled")
    /\ vpc' = "stopping"
    /\ UNCHANGED <<proc, vendorTask>> /\ Frame

\* All tasks of the group have ended, by themselves or after its abort; what they
\* have raised is collected, also what they raised when they were cancelled.
GroupEnds ==
    /\ EventLoop /\ InGroup /\ \A d \in Daemon : inner[d] \notin V!Alive
    /\ \/ vpc = "waiting" /\ task["vendor"] = "running" /\ ioutcome' = "returned"
       \/ vpc = "stopping" /\ ictl = "stopping" /\ UNCHANGED ioutcome
    /\ istopFailed' = (\E d \in Daemon : inner[d] = "failed")
    /\ ictl' = "stopped" /\ vpc' = "stopping"
    /\ UNCHANGED <<inner, istack, itimed, proc, vendorTask>> /\ Frame

VendorStopNext ==
    /\ EventLoop /\ vpc = "stopping" /\ ~InGroup /\ V!StopNext
    /\ UNCHANGED <<proc, vpc, vendorTask>> /\ Frame

\* run() is over.  A cancellation that reached it in the stop was swallowed.
VendorReturns ==
    /\ EventLoop /\ vpc = "stopping" /\ ictl = "stopped"
    /\ LET r == IF istopFailed THEN "failed" ELSE ioutcome
       IN  VendorEnds(r)
    /\ UNCHANGED <<daemons, everRan>> /\ Frame

-----------------------------------------------------------------------------
(* SoftwareFaultGenerator *)

\* `running` is a method of all vendors but LinuxPTP, and a method is true.
SeenRunning ==
    \/ setup.kind # "linuxptp"
    \/ inner["main"] \in V!Alive

\* The daemons that restart() of the vendor kills.
Restarted == IF setup.kind = "linuxptp" THEN WantedDaemons ELSE {"main"}

\* Invocation.restart raises for a daemon that is not there or has exited.
Refuses(d) == proc[d] \in {"none", "paused"}

\* The processes after restart(): ptp4l comes first, and when it refuses phc2sys
\* is not reached.
Kill(refused) ==
    [d \in Daemon |->
        IF d \in Restarted /\ ~Refuses(d) /\ ("main" \in refused => d = "main")
        THEN "killed" ELSE proc[d]]

\* The interval is over: the daemons are killed, to be started again after the
\* duration of the fault; a refused kill ends the generator.
InjectFault ==
    /\ EventLoop /\ task["fault"] = "running" /\ SeenRunning
    /\ LET refused == {d \in Restarted : Refuses(d)}
       IN  /\ proc' = Kill(refused)
           /\ IF refused = {} THEN UNCHANGED tasks ELSE W!TaskEnds("fault", "failed")
    /\ UNCHANGED <<vpc, inner, istack, ictl, itimed, ioutcome, istopFailed, everRan>>
    /\ Frame

FaultCancelled ==
    /\ EventLoop /\ task["fault"] = "cancelling"
    /\ W!TaskEnds("fault", "cancelled")
    /\ UNCHANGED <<vpc, daemons, everRan>> /\ Frame

-----------------------------------------------------------------------------
Benchmark ==
    \/ StartWorker \/ Configure \/ StartService \/ StopService \/ ClockJump
    \/ \E t \in BackgroundTask : AddBackgroundTask(t)
    \/ Run \/ RunEnds \/ CancelNext \/ Exit

Vendor ==
    \/ VendorNotBegun \/ \E d \in Daemon : VendorAdds(d)
    \/ VendorWaits \/ VendorStops \/ VendorCancelled \/ VendorStopNext \/ VendorReturns
    \/ GroupFails \/ GroupEnds

Stopped == pc \in {"exited", "down"} /\ starts = MaxStarts /\ UNCHANGED vars

Next ==
    \/ Benchmark \/ PowerCycle \/ SessionRestarts \/ Vendor \/ InjectFault \/ FaultCancelled
    \/ MonitorEnds \/ Stopped
    \/ \E t \in {"iperf", "stress"} : LoadEnds(t)
    \/ \E d \in Daemon : DaemonStarts(d) \/ DaemonExits(d) \/ DaemonCancelled(d)

Spec == Init /\ [][Next]_vars

\* The event loop: what is ready runs, the remaining time and the pauses pass,
\* and cancelled tasks end (Invocation!CancelEnds for the processes).  Nothing is
\* assumed of processes that run.
Fairness ==
    /\ WF_vars(Benchmark /\ pc # "down") /\ WF_vars(Vendor)
    /\ WF_vars(FaultCancelled) /\ WF_vars(task["monitor"] = "cancelling" /\ MonitorEnds)
    /\ \A t \in {"iperf", "stress"} : WF_vars(task[t] = "cancelling" /\ LoadEnds(t))
    /\ \A d \in Daemon :
          /\ WF_vars(DaemonStarts(d)) /\ WF_vars(DaemonCancelled(d))
          /\ WF_vars(proc[d] = "killed" /\ DaemonExits(d))

FairSpec == Spec /\ Fairness

-----------------------------------------------------------------------------
\* What the vendor and the fault generator see of a daemon's Invocation.  Its log
\* calls are not looked at here.
Managed(d) == INSTANCE ManagedProcess
    WITH task <- inner[d], proc <- proc[d], kept <- Kept(d), logs <- "ok"

-----------------------------------------------------------------------------
TypeOK ==
    /\ pc \in {"down", "configuring", "synchronizing", "tracking", "jumping", "adding",
               "running", "cancelling", "exited"}
    /\ setup \in Setups /\ starts \in 0 .. MaxStarts /\ clockSets \in Nat
    /\ {first, success, service, stuck, everRan} \subseteq BOOLEAN
    /\ W!MTTypeOK /\ V!MTTypeOK
    /\ vpc \in {"none", "created", "waiting", "stopping", "ended"}
    /\ proc \in [Daemon -> {"none", "up", "killed", "paused"}]

\* When the vendor's task is over, and at the latest when the program exits, no
\* daemon is left: LinuxPTP's ends with the first, Chrony's group with the last,
\* whatever failed, was killed, paused or cancelled on the way.
DaemonsEndWithVendor ==
    vpc = "ended" \/ pc = "exited" =>
        \A d \in Daemon : proc[d] = "none" /\ inner[d] \notin V!Alive

\* The program exits when all background tasks are over.
ExitsAlone == pc = "exited" => \A t \in BackgroundTask : task[t] \notin W!Alive

\* The daemon disciplines the clock together with the chrony service only in a
\* later start, which neither starts nor stops the service, and only where the
\* machine boots with it or a former start has failed to stop it; never in the start
\* that has synchronized the clock.
OneDiscipline ==
    proc["main"] = "up" /\ service => ~first /\ (setup.atBoot \/ stuck)

\* The clock is set once, and never again after a daemon has run: a restart in
\* the middle of a benchmark leaves it alone ("When restarting (due to e.g.
\* hardware fault), we leave the clock at its default", benchmark.py:38).
ClockSetFirst == [][clockSets' # clockSets => clockSets = 0 /\ ~everRan]_vars

\* A benchmark with keep-alive goes on through its software faults: whatever the
\* generator kills, and in whatever order the daemons exit and come back, the
\* vendor's task does not end in the time of the benchmark, but for the tail of
\* Chrony, which is not kept alive.
FaultsSurvived ==
    (setup.keep /\ pc = "running" /\ task["vendor"] \in W!Over) =>
        setup.kind = "chrony" /\ inner["aux"] = "failed"

\* Within one start of the program each daemon is a managed process to the vendor: it
\* is started for a task that was not cancelled, kept alive it pauses and its task
\* goes on, and a task that ends takes its process along, whichever of run(), the
\* controller and the fault generator is at work.
DaemonsAreManaged ==
    /\ \A d \in Daemon : Managed(d)!Init
    /\ [][PowerCycle \/ SessionRestarts \/ \A d \in Daemon : Managed(d)!Next]_vars

\* Once its tasks run the program comes to its end, with the time of the
\* benchmark or before it.
WorkerEnds == (pc = "running") ~> (pc \in {"exited", "down"})
=============================================================================
