---------------------------- MODULE Orchestration ----------------------------
(***************************************************************************)
(* One benchmark as its orchestrator runs it: synchronize the repository,  *)
(* reboot the cluster, save a profile, open a session to every machine,    *)
(* switch power for the hardware faults, wait, and close the profile.      *)
(*                                                                         *)
(* Sessions and the device control are tasks of a MultiTaskController.  A  *)
(* session is an Invocation of ssh; here it has the outcomes that module   *)
(* Invocation allows.  link is the ssh process and worker the program that *)
(* runs at its other end.                                                  *)
(***************************************************************************)
EXTENDS Integers, Sequences

CONSTANTS
    Machines,   \* cluster.machines, a sequence
    Switches,   \* the switches, which have a power socket and no session
    Device,     \* the task of DeviceControl
    Plans,      \* what a benchmark asks for, see Plan
    MaxProbes   \* the attempts of restart_node, 20 in the code

Machine == {Machines[i] : i \in DOMAIN Machines}
Powered == Machine \cup Switches

\* fault_hardware, the machines at fault_location, fault_ssh_keepalive.
Plan == [hardware: BOOLEAN, fault: Seq(Powered), keep: BOOLEAN]

ASSUME MachinesAssumption ==
    /\ Machines \in Seq(Machine) /\ Machines # <<>>
    /\ Machine \cap Switches = {} /\ Device \notin Powered
    /\ MaxProbes \in Nat

\* A switch has no session to keep alive, and no location is that of every
\* machine.
ASSUME PlansAssumption ==
    /\ Plans \subseteq Plan
    /\ \A p \in Plans : p.keep =>
          /\ \A i \in DOMAIN p.fault : p.fault[i] \in Machine
          /\ \E m \in Machine : \A i \in DOMAIN p.fault : p.fault[i] # m

VARIABLES
    pc,         \* where run_orchestration is
    plan,       \* what the benchmark asks for
    testMode,   \* whether the cluster is not rebooted
    check,      \* how far restart_node is with a machine
    probes,     \* its attempts so far
    boot,       \* "old" until the machine has been told to reboot
    profile,    \* the row of the profile, once it is saved
    succeeded,  \* run_successful
    opened,     \* number of sessions opened
    task, stack, ctl, timed, outcome, stopFailed,   \* the controller
    link,       \* the ssh process of a session
    keepAlive,  \* keep_alive of a session
    worker,     \* the worker program that the session of a machine started last
    strays,     \* machines where one that it started before still runs
    dev,        \* where DeviceControl is
    power,      \* what has power
    late        \* history: tasks that ended by themselves during the stop

controller == <<task, stack, ctl, timed, outcome, stopFailed>>
cluster == <<check, probes, boot>>
devices == <<dev, power, keepAlive>>
rows == <<profile, succeeded>>
programs == <<worker, strays>>
vars == <<pc, plan, testMode, cluster, rows, opened, controller, link, programs,
          devices, late>>

MT == INSTANCE MultiTask WITH Task <- Machine \cup {Device}

NoProfile == [saved |-> FALSE, running |-> FALSE, successful |-> FALSE,
              stopped |-> FALSE]

Init ==
    /\ pc = "synchronizing" /\ plan \in Plans /\ testMode \in BOOLEAN
    /\ check = [m \in Machine |-> "shutdown"]
    /\ probes = [m \in Machine |-> 0]
    /\ boot = [m \in Machine |-> "old"]
    /\ profile = NoProfile /\ succeeded = FALSE /\ opened = 0
    /\ MT!MTInit
    /\ link = [m \in Machine |-> "off"]
    /\ keepAlive = [m \in Machine |-> FALSE]
    /\ worker = [m \in Machine |-> "none"] /\ strays = {}
    /\ dev = "none" /\ power = [x \in Powered |-> TRUE]
    /\ late = {}

-----------------------------------------------------------------------------
(* Before the profile exists *)

\* The rsync to one machine succeeds or raises.
synchronize_repository == {"copied", "raised"}

\* synchronize_repositories: any failing rsync is raised when all have ended.
Synchronize ==
    /\ pc = "synchronizing"
    /\ \E result \in [Machine -> synchronize_repository] :
          pc' = IF \E m \in Machine : result[m] = "raised" THEN "aborted"
                ELSE IF testMode THEN "saving" ELSE "restarting"
    /\ UNCHANGED <<plan, testMode, cluster, rows, opened, controller, link,
                   programs, devices, late>>

RestartUnchanged ==
    UNCHANGED <<pc, plan, testMode, rows, opened, controller, link, programs,
                devices, late>>

\* The shutdown command of restart_node; a failure of it, or its 10 seconds,
\* are raised.
ShutDown(m) ==
    /\ pc = "restarting" /\ check[m] = "shutdown"
    /\ \/ /\ check' = [check EXCEPT ![m] = "probing"]
          /\ boot' = [boot EXCEPT ![m] = "told"]
       \/ /\ check' = [check EXCEPT ![m] = "raised"]
          /\ boot' \in {boot, [boot EXCEPT ![m] = "told"]}
    /\ UNCHANGED probes /\ RestartUnchanged

\* The machine goes down, and comes up again; nothing makes it do so before the
\* benchmark begins.
Reboot(m) ==
    /\ \/ /\ boot[m] = "told" /\ boot' = [boot EXCEPT ![m] = "down"]
          /\ worker' = [worker EXCEPT ![m] = "none"] /\ strays' = strays \ {m}
       \/ /\ boot[m] = "down" /\ boot' = [boot EXCEPT ![m] = "new"]
          /\ UNCHANGED programs
    /\ UNCHANGED <<pc, plan, testMode, check, probes, rows, opened, controller,
                   link, devices, late>>

\* Mutant: attempts are counted down from zero.
Probe_CountsDown(m) ==
    /\ pc = "restarting" /\ check[m] = "probing"
    /\ probes' = [probes EXCEPT ![m] = @ - 1]
    /\ check' = IF probes'[m] > 0 THEN check ELSE [check EXCEPT ![m] = "done"]
    /\ UNCHANGED boot /\ RestartUnchanged

\* An echo is answered, also by a machine that has not gone down yet, or is not.
\* After the last attempt the node counts as done all the same.
Probe(m) ==
    /\ pc = "restarting" /\ check[m] = "probing"
    /\ \/ /\ boot[m] # "down"
          /\ check' = [check EXCEPT ![m] = "done"] /\ UNCHANGED probes
       \/ /\ probes' = [probes EXCEPT ![m] = @ + 1]
          /\ check' = IF probes'[m] < MaxProbes THEN check
                      ELSE [check EXCEPT ![m] = "done"]
    /\ UNCHANGED boot /\ RestartUnchanged

\* Mutant: gather goes on with the nodes that could be restarted.
RestartCluster_IgnoreErrors ==
    /\ pc = "restarting" /\ \A m \in Machine : check[m] \in {"done", "raised"}
    /\ pc' = "saving"
    /\ check' = [m \in Machine |-> "shutdown"] /\ probes' = [m \in Machine |-> 0]
    /\ UNCHANGED <<plan, testMode, boot, rows, opened, controller, link,
                   programs, devices, late>>

\* restart_cluster: async_gather_with_progress waits for all nodes and raises
\* the first error; what restart_node kept is gone.
RestartCluster ==
    /\ pc = "restarting" /\ \A m \in Machine : check[m] \in {"done", "raised"}
    /\ pc' = IF \E m \in Machine : check[m] = "raised" THEN "aborted" ELSE "saving"
    /\ check' = [m \in Machine |-> "shutdown"] /\ probes' = [m \in Machine |-> 0]
    /\ UNCHANGED <<plan, testMode, boot, rows, opened, controller, link,
                   programs, devices, late>>

-----------------------------------------------------------------------------
(* do_benchmark *)

SaveProfile ==
    /\ pc = "saving"
    /\ pc' = "opening"
    /\ profile' = [profile EXCEPT !.saved = TRUE, !.running = TRUE]
    /\ UNCHANGED <<plan, testMode, cluster, succeeded, opened, controller, link,
                   programs, devices, late>>

\* The endpoint of the next machine is saved and its session added.
OpenSession ==
    /\ pc = "opening" /\ opened < Len(Machines)
    /\ opened' = opened + 1
    /\ MT!AddTask(Machines[opened'])
    /\ UNCHANGED <<pc, plan, testMode, cluster, rows, link, programs, devices, late>>

\* Saving an endpoint raises.
OpenFails ==
    /\ pc = "opening" /\ opened < Len(Machines)
    /\ pc' = "cancelling" /\ MT!CancelPendingTasks
    /\ UNCHANGED <<plan, testMode, cluster, rows, opened, link, programs, devices,
                   late>>

\* With all sessions added, DeviceControl follows if there are hardware faults.
AddDeviceControl ==
    /\ pc = "opening" /\ opened = Len(Machines)
    /\ plan.hardware /\ dev = "none"
    /\ MT!AddTask(Device)
    /\ dev' = "created"
    /\ UNCHANGED <<pc, plan, testMode, cluster, rows, opened, link, programs,
                   power, keepAlive, late>>

\* The first run_for, and after it the second one with its 10 seconds.
WaitForFirst ==
    /\ pc = "opening" /\ opened = Len(Machines)
    /\ plan.hardware => dev # "none"
    /\ pc' = "first" /\ MT!RunFor(FALSE, FALSE)
    /\ UNCHANGED <<plan, testMode, cluster, rows, opened, link, programs, devices,
                   late>>

\* Mutant: without the 10 seconds.
WaitForAll_Untimed ==
    /\ pc = "first"
    /\ pc' = "all" /\ MT!RunForAgain(TRUE, FALSE)
    /\ UNCHANGED <<plan, testMode, cluster, rows, opened, link, programs, devices,
                   late>>

WaitForAll ==
    /\ pc = "first"
    /\ pc' = "all" /\ MT!RunForAgain(TRUE, TRUE)
    /\ UNCHANGED <<plan, testMode, cluster, rows, opened, link, programs, devices,
                   late>>

\* Mutant: run_successful is set before the second wait.
WaitEnds_SuccessEarly ==
    /\ \E o \in MT!Outcomes :
          /\ pc = "all" \/ (pc = "first" /\ o # "returned")
          /\ MT!RunForEnds(o)
          /\ succeeded' = (pc = "all")
    /\ pc' = "cancelling"
    /\ UNCHANGED <<plan, testMode, cluster, profile, opened, link, programs,
                   devices, late>>

\* The first wait ends with the failure of a task, or the second one ends; the
\* finally clause cancels what is left.
WaitEnds ==
    /\ \E o \in MT!Outcomes :
          /\ pc = "all" \/ (pc = "first" /\ o # "returned")
          /\ MT!RunForEnds(o)
          /\ succeeded' = (pc = "all" /\ o = "returned")
    /\ pc' = "cancelling"
    /\ UNCHANGED <<plan, testMode, cluster, profile, opened, link, programs,
                   devices, late>>

CancelNext ==
    /\ pc = "cancelling" /\ MT!StopNext
    /\ UNCHANGED <<pc, plan, testMode, cluster, rows, opened, link, programs,
                   devices, late>>

\* The inner finally.
CloseProfile ==
    /\ pc = "cancelling" /\ ctl = "stopped"
    /\ profile' = [profile EXCEPT !.running = FALSE, !.stopped = TRUE,
                                !.successful = succeeded /\ ~stopFailed]
    /\ pc' = "over"
    /\ UNCHANGED <<plan, testMode, cluster, succeeded, opened, controller, link,
                   programs, devices, late>>

Ended == {"over", "aborted", "lost"}

\* The process is lost: a signal of the scheduler, a crash, a power cut.
KillOrchestrator ==
    /\ pc \notin Ended
    /\ pc' = "lost"
    /\ UNCHANGED <<plan, testMode, cluster, rows, opened, controller, link,
                   programs, devices, late>>

-----------------------------------------------------------------------------
(* Sessions, and the workers at their other end *)

Orchestrating == pc \notin Ended

\* The session of m ends; it does so by itself unless it is being cancelled.
SessionEnds(m, result) ==
    /\ MT!TaskEnds(m, result)
    /\ link' = [link EXCEPT ![m] = "off"]
    /\ late' = IF pc = "cancelling" /\ task[m] = "running" THEN late \cup {m} ELSE late

SessionFrame == UNCHANGED <<pc, plan, testMode, cluster, rows, opened, devices>>

\* ssh is started, for the first time or after the pause of a restart, and runs
\* the worker; a worker that the session has lost may still run.
Connect(m) ==
    /\ Orchestrating /\ task[m] = "running" /\ link[m] \in {"off", "pause"}
    /\ link' = [link EXCEPT ![m] = "on"]
    /\ IF power[m] /\ boot[m] # "down"
       THEN /\ worker' = [worker EXCEPT ![m] = "running"]
            /\ strays' = IF worker[m] = "running" THEN strays \cup {m} ELSE strays
       ELSE UNCHANGED programs
    /\ UNCHANGED <<controller, late>> /\ SessionFrame

\* The worker program ends: it has run for its time, or an exception was caught
\* and noted ("noted", exit code 0 as well), or one was not ("crashed").
WorkerEnds(m) ==
    /\ worker[m] = "running"
    /\ \E end \in {"finished", "noted", "crashed"} :
          worker' = [worker EXCEPT ![m] = end]
    /\ UNCHANGED <<controller, link, strays, late>> /\ SessionFrame

StrayEnds(m) ==
    /\ m \in strays /\ strays' = strays \ {m}
    /\ UNCHANGED <<controller, link, worker, late>> /\ SessionFrame

\* ssh has exited; a session that is kept alive ignores the code and pauses.
AfterSsh(m, code) ==
    \/ /\ keepAlive[m]
       /\ link' = [link EXCEPT ![m] = "pause"]
       /\ UNCHANGED <<controller, late>>
    \/ /\ ~keepAlive[m]
       /\ SessionEnds(m, IF code = 0 THEN "returned" ELSE "failed")

\* The exit code of ssh when the worker is over: the worker's own, or 255 where
\* the machine does not answer.
WorkerCode(m) ==
    CASE worker[m] \in {"finished", "noted"} -> 0
      [] worker[m] = "crashed" -> 1
      [] OTHER -> 255

\* ssh ends with the worker.
SshExits(m) ==
    /\ Orchestrating /\ task[m] = "running" /\ link[m] = "on"
    /\ worker[m] # "running"
    /\ AfterSsh(m, WorkerCode(m))
    /\ UNCHANGED programs /\ SessionFrame

\* Mutant: a session whose connection was lost is always opened again.
ConnectionLost_Retries(m) ==
    /\ Orchestrating /\ task[m] = "running" /\ link[m] = "on"
    /\ link' = [link EXCEPT ![m] = "pause"]
    /\ UNCHANGED <<controller, late, programs>> /\ SessionFrame

\* ssh gives up because its keep-alive messages are not answered, whatever the
\* worker does, which is not told.
ConnectionLost(m) ==
    /\ Orchestrating /\ task[m] = "running" /\ link[m] = "on"
    /\ AfterSsh(m, 255)
    /\ UNCHANGED programs /\ SessionFrame

\* Mutant: the return code counts also for a session that is kept alive.
SessionCancelled_CodeCounts(m) ==
    /\ Orchestrating /\ task[m] = "cancelling"
    /\ \E r \in {"cancelled", "failed"} :
          /\ r = "failed" => link[m] = "on"
          /\ r = "cancelled" => link[m] # "on" \/ worker[m] \in {"finished", "noted"}
          /\ SessionEnds(m, r)
    /\ UNCHANGED programs /\ SessionFrame

\* The session is cancelled: the return code of an ssh that is terminated is not
\* an expected one, but counts only without keep-alive; an ssh whose worker is
\* over may have exited before.  The worker is not told.
SessionCancelled(m) ==
    /\ Orchestrating /\ task[m] = "cancelling"
    /\ LET counts == link[m] = "on" /\ ~keepAlive[m]
       IN  \/ counts /\ SessionEnds(m, "failed")
           \/ /\ counts => worker[m] \in {"finished", "noted"}
              /\ SessionEnds(m, "cancelled")
    /\ UNCHANGED programs /\ SessionFrame

-----------------------------------------------------------------------------
(* DeviceControl *)

\* The machines that have been switched when toggle_machine has succeeded for the
\* first n of them.
Switched(n, state) ==
    [x \in Powered |-> IF \E i \in 1 .. n : plan.fault[i] = x THEN state ELSE power[x]]

\* A machine without power runs no worker.
ProgramsLosePower ==
    /\ worker' = [m \in Machine |-> IF power'[m] THEN worker[m] ELSE "none"]
    /\ strays' = {m \in strays : power'[m]}

DevFrame == UNCHANGED <<pc, plan, testMode, cluster, rows, opened, link, late>>

\* The finally: toggle_machine(machine, True), for the machine the loop variable
\* is at and for no other.
LastOn(pow, n, restored) ==
    IF restored THEN [pow EXCEPT ![plan.fault[n]] = TRUE] ELSE pow

\* run() ends after its loop was left at machine n, powered so far as pow says.
\* The power strip may refuse.
DevEnds(pow, n, result) ==
    \E restored \in BOOLEAN :
      /\ power' = LastOn(pow, n, restored)
      /\ ProgramsLosePower
      /\ dev' = IF restored THEN "ended" ELSE "refused"
      /\ MT!TaskEnds(Device, IF restored THEN result ELSE "failed")

\* All machines are switched, one after the other without an await; a power
\* strip may refuse, with an error or a timeout.
SwitchAll(state, next) ==
    \/ /\ power' = Switched(Len(plan.fault), state)
       /\ ProgramsLosePower
       /\ dev' = next
       /\ UNCHANGED controller
    \/ \E n \in DOMAIN plan.fault, r \in {"failed", "timeout"} :
          DevEnds(Switched(n - 1, state), n, r)

\* run() up to its first sleep, with the keep-alive of the sessions.
DevStarts ==
    /\ Orchestrating /\ dev = "created" /\ task[Device] = "running"
    /\ IF plan.fault = <<>>
       THEN /\ dev' = "ended" /\ MT!TaskEnds(Device, "failed")
            /\ UNCHANGED <<power, programs, keepAlive>>
       ELSE /\ SwitchAll(TRUE, "interval")
            /\ keepAlive' = [m \in Machine |->
                  plan.keep /\ \E i \in DOMAIN plan.fault : plan.fault[i] = m]
    /\ DevFrame

\* The interval is over: the fault begins.
FaultBegins ==
    /\ Orchestrating /\ dev = "interval" /\ task[Device] = "running"
    /\ SwitchAll(FALSE, "fault")
    /\ UNCHANGED keepAlive /\ DevFrame

\* The duration is over: "resolved" is logged for all, then the loop begins
\* again with switching them on.
FaultEnds ==
    /\ Orchestrating /\ dev = "fault" /\ task[Device] = "running"
    /\ SwitchAll(TRUE, "interval")
    /\ UNCHANGED keepAlive /\ DevFrame

\* Cancelled before it began, or in one of its sleeps, where every loop has run
\* to its last machine.
DevCancelled ==
    /\ Orchestrating /\ task[Device] = "cancelling"
    /\ IF dev = "created"
       THEN /\ dev' = "ended" /\ MT!TaskEnds(Device, "cancelled")
            /\ UNCHANGED <<power, programs>>
       ELSE DevEnds(power, Len(plan.fault), "cancelled")
    /\ UNCHANGED keepAlive /\ DevFrame

-----------------------------------------------------------------------------
Terminated == pc \in Ended /\ UNCHANGED vars

Orchestrate ==
    \/ Synchronize \/ RestartCluster \/ SaveProfile
    \/ OpenSession \/ OpenFails \/ AddDeviceControl
    \/ WaitForFirst \/ WaitForAll \/ WaitEnds
    \/ CancelNext \/ CloseProfile

DeviceControl == DevStarts \/ FaultBegins \/ FaultEnds \/ DevCancelled

Next ==
    \/ Orchestrate \/ KillOrchestrator \/ Terminated \/ DeviceControl
    \/ \E m \in Machine : \/ ShutDown(m) \/ Reboot(m) \/ Probe(m)
                          \/ Connect(m) \/ WorkerEnds(m) \/ StrayEnds(m)
                          \/ SshExits(m) \/ ConnectionLost(m) \/ SessionCancelled(m)

Spec == Init /\ [][Next]_vars

\* The event loop runs what is ready and the timers fire: those of the commands
\* of the restart, of ssh's own keep-alive messages, of a worker's remaining
\* time, and those of the termination of a session.  A connection need not be lost.
Fairness ==
    /\ WF_vars(Orchestrate) /\ WF_vars(DevStarts) /\ WF_vars(DevCancelled)
    /\ \A m \in Machine : /\ WF_vars(ShutDown(m)) /\ WF_vars(Probe(m))
                          /\ WF_vars(Connect(m)) /\ WF_vars(WorkerEnds(m))
                          /\ WF_vars(SshExits(m)) /\ WF_vars(SessionCancelled(m))

FairSpec == Spec /\ Fairness
-----------------------------------------------------------------------------
\* What the orchestrator sees of a session's Invocation, which runs ssh.
SshSeen(m) == CASE link[m] = "off" -> "none"
                [] link[m] = "on" -> "up"
                [] link[m] = "pause" -> "paused"

Managed(m) == INSTANCE ManagedProcess
    WITH task <- task[m], proc <- SshSeen(m), kept <- keepAlive[m], logs <- "ok"

-----------------------------------------------------------------------------
TypeOK ==
    /\ pc \in Ended \cup {"synchronizing", "restarting", "saving", "opening", "first",
                        "all", "cancelling"}
    /\ plan \in Plans /\ testMode \in BOOLEAN /\ succeeded \in BOOLEAN
    /\ check \in [Machine -> {"shutdown", "probing", "done", "raised"}]
    /\ probes \in [Machine -> Nat]
    /\ boot \in [Machine -> {"old", "told", "down", "new"}]
    /\ profile \in [saved : BOOLEAN, running : BOOLEAN, successful : BOOLEAN,
                    stopped : BOOLEAN]
    /\ opened \in 0 .. Len(Machines)
    /\ MT!MTTypeOK
    /\ link \in [Machine -> {"off", "on", "pause"}]
    /\ keepAlive \in [Machine -> BOOLEAN]
    /\ worker \in [Machine -> {"none", "running", "finished", "noted", "crashed"}]
    /\ strays \subseteq Machine
    /\ dev \in {"none", "created", "interval", "fault", "ended", "refused"}
    /\ power \in [Powered -> BOOLEAN]
    /\ late \subseteq Machine

\* A profile is closed only when no session and no device control is left, and
\* it is closed whatever they raised: do_benchmark's two finally clauses.
ProfileClosed ==
    /\ pc = "over" =>
          /\ ~profile.running /\ profile.stopped
          /\ \A t \in Machine \cup {Device} : task[t] \notin MT!Alive
    /\ profile.saved => (profile.stopped <=> pc = "over")

\* A profile is successful only if no session and no device control failed,
\* with the two exceptions that the controller makes: a session that fails by
\* itself while another is being stopped, and failures behind a TimeoutError.
SuccessIsEarned ==
    profile.successful =>
        \/ \E t \in Machine \cup {Device} : task[t] = "timeout"
        \/ \A t \in Machine \cup {Device} : task[t] = "failed" => t \in late

\* A second worker runs beside the first one, and measures and steers the clock
\* together with it, only on a machine whose session DeviceControl keeps alive:
\* any other session ends when its connection is lost and is not opened again.
SecondWorkerIsKept == \A m \in strays : keepAlive[m]

\* A benchmark is not started while a node of the cluster has not been told to
\* reboot, unless the reboot is left out.
NoneSkipsTheReboot ==
    (profile.saved /\ ~testMode) => \A m \in Machine : boot[m] # "old"

\* Each session is a managed process to the orchestrator: ssh is started for a
\* session that was not cancelled, a session that is kept alive by DeviceControl
\* stays so and ends neither with ssh nor with its return code, and one that ends
\* takes ssh along.
SessionsAreManaged ==
    /\ \A m \in Machine : Managed(m)!Init
    /\ [][\A m \in Machine : Managed(m)!Next]_vars

\* The profile of a benchmark that has begun is closed, unless its orchestrator
\* is lost: sessions that are kept alive and workers cut off do not hold it up.
BenchmarkEnds == (pc = "opening") ~> (pc \in {"over", "lost"})

\* A benchmark that a worker noted as failed is not successful, as the comment
\* at benchmark.py:75 has it: "On error, note down that the benchmark failed".
FailureIsNoted ==
    (pc = "over" /\ profile.successful) => \A m \in Machine : worker[m] # "noted"

\* device_control.py:99 "Each fault is scheduled at a fixed interval and lasts for a
\* fixed duration, where the machine is turned off.": none is left when the
\* benchmark is over and DeviceControl was stopped, with every switch obeyed.
FaultsHaveEnded ==
    (pc = "over" /\ task[Device] = "cancelled") => \A x \in Powered : power[x]
=============================================================================
