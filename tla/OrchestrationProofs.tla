------------------------- MODULE OrchestrationProofs -------------------------
(***************************************************************************)
(* Theorems about Orchestration for any cluster, any plans and any number  *)
(* of attempts, and their proofs.                                          *)
(***************************************************************************)
EXTENDS Orchestration, TLAPS

AnyTask == Machine \cup {Device}

P == INSTANCE MultiTaskProofs WITH Task <- AnyTask

-----------------------------------------------------------------------------
(* The controller *)

USE DEF AnyTask

\* The steps that this module takes of the controller are those of the lemmas.
LEMMA SameAdd == ASSUME NEW t, MT!AddTask(t) PROVE P!AddTask(t)
BY DEF MT!AddTask, P!AddTask

LEMMA SameEnds == ASSUME NEW t, NEW r, MT!TaskEnds(t, r) PROVE P!TaskEnds(t, r)
BY DEF MT!TaskEnds, P!TaskEnds, MT!Alive, P!Alive, MT!Over, P!Over

LEMMA SameRunFor ==
    ASSUME NEW f \in BOOLEAN, NEW d \in BOOLEAN, MT!RunFor(f, d) \/ MT!RunForAgain(f, d)
    PROVE  P!RunFor(f, d) \/ P!RunForAgain(f, d)
BY DEF MT!RunFor, P!RunFor, MT!RunForAgain, P!RunForAgain, MT!WaitIsOver, P!WaitIsOver,
       MT!Added, P!Added, MT!Done, P!Done, MT!Outcomes, P!Outcomes, MT!Over, P!Over

LEMMA SameRunForEnds == ASSUME NEW o, MT!RunForEnds(o) PROVE P!RunForEnds(o)
BY DEF MT!RunForEnds, P!RunForEnds, MT!WaitIsOver, P!WaitIsOver, MT!Added, P!Added,
       MT!Done, P!Done, MT!Outcomes, P!Outcomes, MT!Over, P!Over, MT!StopFrom, P!StopFrom,
       MT!Alive, P!Alive

LEMMA SameCancel == MT!CancelPendingTasks => P!CancelPendingTasks
BY DEF MT!CancelPendingTasks, P!CancelPendingTasks, MT!StopFrom, P!StopFrom, MT!Alive, P!Alive

LEMMA SameStopNext == MT!StopNext => P!StopNext
BY DEF MT!StopNext, P!StopNext, MT!StopFrom, P!StopFrom, MT!Alive, P!Alive, MT!Over, P!Over

LEMMA OutcomeType == MT!MTTypeOK => MT!Outcomes \subseteq MT!Over
BY DEF MT!Outcomes, MT!Over, MT!Done, MT!MTTypeOK

\* What a step of the orchestration does to the controller.
ControllerStep ==
    \/ \E t \in AnyTask : P!AddTask(t)
    \/ \E t \in AnyTask, r \in P!Over : P!TaskEnds(t, r)
    \/ \E f, d \in BOOLEAN : P!RunFor(f, d) \/ P!RunForAgain(f, d)
    \/ \E o \in P!Over : P!RunForEnds(o)
    \/ P!CancelPendingTasks \/ P!StopNext
    \/ UNCHANGED controller

LEMMA ControllerInv == ASSUME P!MTInv, ControllerStep PROVE P!MTInv'
<1>1. ASSUME NEW t \in AnyTask, P!AddTask(t) PROVE P!MTInv'
    BY <1>1, P!AddTaskInv
<1>2. ASSUME NEW t \in AnyTask, NEW r \in P!Over, P!TaskEnds(t, r) PROVE P!MTInv'
    BY <1>2, P!TaskEndsInv
<1>3. ASSUME NEW f \in BOOLEAN, NEW d \in BOOLEAN, P!RunFor(f, d) \/ P!RunForAgain(f, d)
      PROVE  P!MTInv'
    BY <1>3, P!RunForInv
<1>4. ASSUME (\E o \in P!Over : P!RunForEnds(o)) \/ P!CancelPendingTasks
      PROVE  P!MTInv'
    BY <1>4, P!StopInv
<1>5. CASE P!StopNext
    BY <1>5, P!StopNextInv
<1>6. CASE UNCHANGED controller
    BY <1>6 DEF controller, P!MTInv, P!MTTypeOK, P!OnStack
<1> QED
    BY <1>1, <1>2, <1>3, <1>4, <1>5, <1>6 DEF ControllerStep

\* The controller's part of an action, with everything else left out.
LEMMA NextController ==
    ASSUME P!MTInv, opened \in 0 .. Len(Machines), [Next]_vars
    PROVE  ControllerStep
<1> USE MachinesAssumption
<1>1. MT!MTTypeOK
    BY DEF P!MTInv, P!MTTypeOK, MT!MTTypeOK, P!Alive, MT!Alive, P!Over, MT!Over
<1>2. MT!Over = P!Over
    BY DEF MT!Over, P!Over
<1>3. CASE Synchronize \/ RestartCluster \/ SaveProfile \/ CloseProfile \/ KillOrchestrator
           \/ Terminated \/ UNCHANGED vars
    BY <1>3 DEF Synchronize, RestartCluster, SaveProfile, CloseProfile, KillOrchestrator,
                Terminated, vars, ControllerStep
<1>4. CASE OpenSession
  <2>1. opened + 1 \in DOMAIN Machines /\ opened' = opened + 1
      BY <1>4 DEF OpenSession
  <2>2. PICK t \in Machine : t = Machines[opened + 1]
      BY <2>1 DEF Machine
  <2>3. MT!AddTask(t)
      BY <1>4, <2>1, <2>2 DEF OpenSession, MT!AddTask
  <2> QED
      BY <2>2, <2>3, SameAdd DEF ControllerStep
<1>5. CASE OpenFails
    BY <1>5, SameCancel DEF OpenFails, ControllerStep
<1>6. CASE AddDeviceControl
    BY <1>6, SameAdd DEF AddDeviceControl, ControllerStep
<1>7. CASE WaitForFirst
  <2>1. MT!RunFor(FALSE, FALSE)
      BY <1>7 DEF WaitForFirst
  <2>2. P!RunFor(FALSE, FALSE) \/ P!RunForAgain(FALSE, FALSE)
      BY <2>1, SameRunFor
  <2> QED
      BY <2>2 DEF ControllerStep
<1>8. CASE WaitForAll
  <2>1. MT!RunForAgain(TRUE, TRUE)
      BY <1>8 DEF WaitForAll
  <2>2. P!RunFor(TRUE, TRUE) \/ P!RunForAgain(TRUE, TRUE)
      BY <2>1, SameRunFor
  <2> QED
      BY <2>2 DEF ControllerStep
<1>9. CASE WaitEnds
  <2>1. PICK o \in MT!Outcomes : MT!RunForEnds(o)
      BY <1>9 DEF WaitEnds
  <2>2. o \in P!Over
      BY <1>1, <1>2, <2>1, OutcomeType
  <2> QED
      BY <2>1, <2>2, SameRunForEnds DEF ControllerStep
<1>10. CASE CancelNext
    BY <1>10, SameStopNext DEF CancelNext, ControllerStep
<1>11. ASSUME NEW m \in Machine, \/ ShutDown(m) \/ Reboot(m) \/ Probe(m) \/ Connect(m)
                                 \/ WorkerEnds(m) \/ StrayEnds(m)
       PROVE  ControllerStep
    BY <1>11 DEF ShutDown, Reboot, Probe, Connect, WorkerEnds, StrayEnds, RestartUnchanged,
                 ControllerStep
<1>12. ASSUME NEW m \in Machine, SshExits(m) \/ ConnectionLost(m) \/ SessionCancelled(m)
       PROVE  ControllerStep
  <2>1. \/ UNCHANGED controller
        \/ \E r \in {"returned", "failed", "cancelled"} : MT!TaskEnds(m, r)
      BY <1>12 DEF SshExits, ConnectionLost, AfterSsh, SessionCancelled, SessionEnds
  <2> QED
      BY <2>1, SameEnds DEF ControllerStep, P!Over
<1>13. CASE DeviceControl
  <2>1. \/ UNCHANGED controller
        \/ \E r \in {"timeout", "failed", "cancelled"} : MT!TaskEnds(Device, r)
      BY <1>13 DEF DeviceControl, DevStarts, FaultBegins, FaultEnds, DevCancelled, SwitchAll,
                   DevEnds
  <2> QED
      BY <2>1, SameEnds DEF ControllerStep, P!Over
<1> QED
    BY <1>3, <1>4, <1>5, <1>6, <1>7, <1>8, <1>9, <1>10, <1>11, <1>12, <1>13
    DEF Next, Orchestrate

-----------------------------------------------------------------------------
(* Types *)

\* TypeOK, with the invariant of the controller for its types.
TypeInv ==
    /\ pc \in Ended \cup {"synchronizing", "restarting", "saving", "opening", "first",
                        "all", "cancelling"}
    /\ plan \in Plans /\ testMode \in BOOLEAN /\ succeeded \in BOOLEAN
    /\ check \in [Machine -> {"shutdown", "probing", "done", "raised"}]
    /\ probes \in [Machine -> Nat]
    /\ boot \in [Machine -> {"old", "told", "down", "new"}]
    /\ profile \in [saved : BOOLEAN, running : BOOLEAN, successful : BOOLEAN,
                    stopped : BOOLEAN]
    /\ opened \in 0 .. Len(Machines)
    /\ P!MTInv
    /\ link \in [Machine -> {"off", "on", "pause"}]
    /\ keepAlive \in [Machine -> BOOLEAN]
    /\ worker \in [Machine -> {"none", "running", "finished", "noted", "crashed"}]
    /\ strays \subseteq Machine
    /\ dev \in {"none", "created", "interval", "fault", "ended", "refused"}
    /\ power \in [Powered -> BOOLEAN]
    /\ late \subseteq Machine

LEMMA TypeInvOK == TypeInv => TypeOK
BY DEF TypeInv, TypeOK, P!MTInv, P!MTTypeOK, MT!MTTypeOK, P!Alive, MT!Alive, P!Over, MT!Over

LEMMA InitType == Init => TypeInv
<1> SUFFICES ASSUME Init PROVE TypeInv
    OBVIOUS
<1>1. P!MTInv
  <2>1. P!MTInit
      BY DEF Init, MT!MTInit, P!MTInit
  <2> QED
      BY <2>1, P!InitMT
<1>2. 0 \in 0 .. Len(Machines)
    BY MachinesAssumption
<1> QED
    BY <1>1, <1>2 DEF Init, TypeInv, NoProfile

\* What switching does to the power, the workers and the state of DeviceControl.
LEMMA DevEndsType ==
    ASSUME TypeInv, NEW pow \in [Powered -> BOOLEAN], NEW n, NEW r, DevEnds(pow, n, r)
    PROVE  /\ power' \in [Powered -> BOOLEAN] /\ dev' \in {"ended", "refused"}
           /\ worker' \in [Machine -> {"none", "running", "finished", "noted", "crashed"}]
           /\ strays' \subseteq strays
<1>1. PICK restored \in BOOLEAN :
         /\ power' = LastOn(pow, n, restored)
         /\ ProgramsLosePower
         /\ dev' = IF restored THEN "ended" ELSE "refused"
    BY DEF DevEnds
<1>2. power' \in [Powered -> BOOLEAN]
    BY <1>1 DEF LastOn
<1>3. worker' \in [Machine -> {"none", "running", "finished", "noted", "crashed"}]
    BY <1>1, <1>2 DEF ProgramsLosePower, TypeInv
<1>4. strays' \subseteq strays
    BY <1>1 DEF ProgramsLosePower
<1> QED
    BY <1>1, <1>2, <1>3, <1>4

LEMMA SwitchAllType ==
    ASSUME TypeInv, NEW state \in BOOLEAN, NEW next \in {"interval", "fault"},
           SwitchAll(state, next)
    PROVE  /\ power' \in [Powered -> BOOLEAN] /\ dev' \in {next, "ended", "refused"}
           /\ worker' \in [Machine -> {"none", "running", "finished", "noted", "crashed"}]
           /\ strays' \subseteq strays
<1>1. \A n : Switched(n, state) \in [Powered -> BOOLEAN]
    BY DEF Switched, TypeInv
<1>2. CASE \E n \in DOMAIN plan.fault, r \in {"failed", "timeout"} :
              DevEnds(Switched(n - 1, state), n, r)
  <2>1. PICK n \in DOMAIN plan.fault, r \in {"failed", "timeout"} :
           DevEnds(Switched(n - 1, state), n, r)
      BY <1>2
  <2>2. PICK pow \in [Powered -> BOOLEAN] : pow = Switched(n - 1, state)
      BY <1>1
  <2>3. DevEnds(pow, n, r)
      BY <2>1, <2>2
  <2> QED
      BY <2>3, DevEndsType
<1>3. CASE /\ power' = Switched(Len(plan.fault), state)
           /\ ProgramsLosePower
           /\ dev' = next
  <2>1. power' \in [Powered -> BOOLEAN]
      BY <1>1, <1>3
  <2>2. worker' \in [Machine -> {"none", "running", "finished", "noted", "crashed"}]
      BY <1>3, <2>1 DEF ProgramsLosePower, TypeInv
  <2>3. strays' \subseteq strays
      BY <1>3 DEF ProgramsLosePower
  <2> QED
      BY <1>3, <2>1, <2>2, <2>3
<1> QED
    BY <1>2, <1>3 DEF SwitchAll

LEMMA DeviceControlType ==
    ASSUME TypeInv, DeviceControl
    PROVE  /\ power' \in [Powered -> BOOLEAN]
           /\ dev' \in {"none", "created", "interval", "fault", "ended", "refused"}
           /\ worker' \in [Machine -> {"none", "running", "finished", "noted", "crashed"}]
           /\ strays' \subseteq strays
           /\ keepAlive' \in [Machine -> BOOLEAN]
           /\ UNCHANGED <<pc, plan, testMode, cluster, rows, opened, link, late>>
<1> USE DEF TypeInv, DevFrame, programs
<1>1. CASE DevStarts
  <2>1. plan.keep \in BOOLEAN
      BY PlansAssumption DEF Plan
  <2>2. keepAlive' \in [Machine -> BOOLEAN]
    <3>1. CASE plan.fault = <<>>
        BY <1>1, <3>1 DEF DevStarts
    <3>2. CASE plan.fault # <<>>
      <4>1. keepAlive' = [m \in Machine |->
                             plan.keep /\ \E i \in DOMAIN plan.fault : plan.fault[i] = m]
          BY <1>1, <3>2 DEF DevStarts
      <4>2. \A m \in Machine :
               (plan.keep /\ \E i \in DOMAIN plan.fault : plan.fault[i] = m) \in BOOLEAN
          BY <2>1
      <4> QED
          BY <4>1, <4>2
    <3> QED
        BY <3>1, <3>2
  <2> QED
      BY <1>1, <2>2, SwitchAllType DEF DevStarts
<1>2. CASE FaultBegins
    BY <1>2, SwitchAllType DEF FaultBegins
<1>3. CASE FaultEnds
    BY <1>3, SwitchAllType DEF FaultEnds
<1>4. CASE DevCancelled
  <2>1. PICK n : n = Len(plan.fault)
      OBVIOUS
  <2>2. PICK pow \in [Powered -> BOOLEAN] : pow = power
      OBVIOUS
  <2>3. CASE dev = "created"
      BY <1>4, <2>3 DEF DevCancelled
  <2>4. CASE dev # "created"
    <3>1. DevEnds(pow, n, "cancelled")
        BY <1>4, <2>1, <2>2, <2>4 DEF DevCancelled
    <3> QED
        BY <1>4, <3>1, DevEndsType DEF DevCancelled
  <2> QED
      BY <2>3, <2>4
<1> QED
    BY <1>1, <1>2, <1>3, <1>4 DEF DeviceControl

\* What the restart of a machine and what a session may change.
LEMMA RestartKeepsType ==
    ASSUME TypeInv, P!MTInv', RestartUnchanged,
           check' \in [Machine -> {"shutdown", "probing", "done", "raised"}],
           probes' \in [Machine -> Nat],
           boot' \in [Machine -> {"old", "told", "down", "new"}]
    PROVE  TypeInv'
BY DEF TypeInv, Ended, RestartUnchanged, rows, devices, programs

LEMMA SessionKeepsType ==
    ASSUME TypeInv, P!MTInv', SessionFrame,
           link' \in [Machine -> {"off", "on", "pause"}],
           worker' \in [Machine -> {"none", "running", "finished", "noted", "crashed"}],
           strays' \subseteq Machine, late' \subseteq Machine
    PROVE  TypeInv'
BY DEF TypeInv, Ended, SessionFrame, cluster, rows, devices

LEMMA NextType == TypeInv /\ [Next]_vars => TypeInv'
<1> SUFFICES ASSUME TypeInv, [Next]_vars PROVE TypeInv'
    OBVIOUS
<1>1. P!MTInv'
    BY NextController, ControllerInv DEF TypeInv
<1> USE <1>1, MachinesAssumption
        DEF TypeInv, Ended, cluster, devices, rows, programs
<1>2. CASE Synchronize
    BY <1>2 DEF Synchronize
<1>3. CASE RestartCluster
    BY <1>3 DEF RestartCluster
<1>4. CASE SaveProfile
    BY <1>4 DEF SaveProfile
<1>5. CASE CloseProfile
  <2>1. stopFailed \in BOOLEAN
      BY DEF P!MTInv, P!MTTypeOK
  <2> QED
      BY <1>5, <2>1 DEF CloseProfile
<1>6. CASE KillOrchestrator \/ Terminated \/ UNCHANGED vars
    BY <1>6 DEF KillOrchestrator, Terminated, vars
<1>7. CASE OpenSession
    BY <1>7 DEF OpenSession
<1>8. CASE OpenFails \/ AddDeviceControl
    BY <1>8 DEF OpenFails, AddDeviceControl
<1>9. CASE WaitForFirst \/ WaitForAll \/ CancelNext
    BY <1>9 DEF WaitForFirst, WaitForAll, CancelNext
<1>10. CASE WaitEnds
  <2>1. succeeded' \in BOOLEAN /\ pc' = "cancelling"
      BY <1>10 DEF WaitEnds
  <2>2. UNCHANGED <<plan, testMode, cluster, profile, opened, link, programs, devices, late>>
      BY <1>10 DEF WaitEnds
  <2> QED
      BY <2>1, <2>2
<1> HIDE DEF TypeInv
<1>t. /\ check \in [Machine -> {"shutdown", "probing", "done", "raised"}]
      /\ probes \in [Machine -> Nat]
      /\ boot \in [Machine -> {"old", "told", "down", "new"}]
      /\ link \in [Machine -> {"off", "on", "pause"}]
      /\ worker \in [Machine -> {"none", "running", "finished", "noted", "crashed"}]
      /\ strays \subseteq Machine /\ late \subseteq Machine
    BY DEF TypeInv
<1>11. ASSUME NEW m \in Machine, ShutDown(m) PROVE TypeInv'
  <2>1. /\ check' \in [Machine -> {"shutdown", "probing", "done", "raised"}]
        /\ boot' \in [Machine -> {"old", "told", "down", "new"}]
      BY <1>11, <1>t DEF ShutDown
  <2>2. probes' = probes /\ RestartUnchanged
      BY <1>11 DEF ShutDown
  <2> QED
      BY <1>t, <2>1, <2>2, RestartKeepsType
<1>12. ASSUME NEW m \in Machine, Reboot(m) PROVE TypeInv'
  <2>1. boot' \in [Machine -> {"old", "told", "down", "new"}]
      BY <1>12, <1>t DEF Reboot
  <2>2. /\ worker' \in [Machine -> {"none", "running", "finished", "noted", "crashed"}]
        /\ strays' \subseteq Machine
      BY <1>12, <1>t DEF Reboot, programs
  <2>3. UNCHANGED <<pc, plan, testMode, check, probes, rows, opened, link, devices, late>>
      BY <1>12 DEF Reboot
  <2> QED
      BY <2>1, <2>2, <2>3 DEF TypeInv
<1>13. ASSUME NEW m \in Machine, Probe(m) PROVE TypeInv'
  <2>1. probes' \in [Machine -> Nat]
    <3>1. probes' \in {probes, [probes EXCEPT ![m] = probes[m] + 1]}
        BY <1>13 DEF Probe
    <3>2. probes[m] + 1 \in Nat
        BY <1>t
    <3> QED
        BY <1>t, <3>1, <3>2
  <2>2. check' \in [Machine -> {"shutdown", "probing", "done", "raised"}]
    <3>1. check' \in {check, [check EXCEPT ![m] = "done"]}
        BY <1>13 DEF Probe
    <3> QED
        BY <1>t, <3>1
  <2>3. boot' = boot /\ RestartUnchanged
      BY <1>13 DEF Probe
  <2> QED
      BY <1>t, <2>1, <2>2, <2>3, RestartKeepsType
<1>14. ASSUME NEW m \in Machine, Connect(m) PROVE TypeInv'
  <2>1. /\ link' \in [Machine -> {"off", "on", "pause"}]
        /\ worker' \in [Machine -> {"none", "running", "finished", "noted", "crashed"}]
        /\ strays' \subseteq Machine
      BY <1>14, <1>t DEF Connect, programs
  <2>2. late' = late /\ SessionFrame
      BY <1>14 DEF Connect
  <2> QED
      BY <1>t, <2>1, <2>2, SessionKeepsType
<1>15. ASSUME NEW m \in Machine, WorkerEnds(m) \/ StrayEnds(m) PROVE TypeInv'
  <2>1. /\ worker' \in [Machine -> {"none", "running", "finished", "noted", "crashed"}]
        /\ strays' \subseteq Machine
    <3>1. CASE WorkerEnds(m)
      <4>1. PICK end \in {"finished", "noted", "crashed"} :
                worker' = [worker EXCEPT ![m] = end]
          BY <3>1 DEF WorkerEnds
      <4>2. strays' = strays
          BY <3>1 DEF WorkerEnds
      <4> QED
          BY <4>1, <4>2, <1>t
    <3>2. CASE StrayEnds(m)
        BY <3>2, <1>t DEF StrayEnds
    <3> QED
        BY <1>15, <3>1, <3>2
  <2>2. link' = link /\ late' = late /\ SessionFrame
      BY <1>15 DEF WorkerEnds, StrayEnds
  <2> QED
      BY <1>t, <2>1, <2>2, SessionKeepsType
<1>16. ASSUME NEW m \in Machine, SshExits(m) \/ ConnectionLost(m) \/ SessionCancelled(m)
       PROVE  TypeInv'
  <2>1. /\ link' \in {[link EXCEPT ![m] = "pause"], [link EXCEPT ![m] = "off"]}
        /\ late' \in {late, late \cup {m}}
      BY <1>16 DEF SshExits, ConnectionLost, AfterSsh, SessionCancelled, SessionEnds
  <2>2. UNCHANGED <<worker, strays>> /\ SessionFrame
      BY <1>16 DEF SshExits, ConnectionLost, SessionCancelled, programs
  <2>3. link' \in [Machine -> {"off", "on", "pause"}] /\ late' \subseteq Machine
      BY <1>t, <2>1
  <2> QED
      BY <1>t, <2>2, <2>3, SessionKeepsType
<1>17. CASE DeviceControl
    BY <1>17, DeviceControlType DEF TypeInv
<1> QED
    BY <1>2, <1>3, <1>4, <1>5, <1>6, <1>7, <1>8, <1>9, <1>10, <1>11, <1>12, <1>13, <1>14,
       <1>15, <1>16, <1>17
    DEF Next, Orchestrate

\* The state of every behaviour is of its type, and the controller of the sessions
\* is as MultiTaskController leaves it.
THEOREM TypeCorrect == Spec => []TypeOK
<1>1. Init => TypeInv
    BY InitType
<1>2. TypeInv /\ [Next]_vars => TypeInv'
    BY NextType
<1> QED
    BY <1>1, <1>2, TypeInvOK, PTL DEF Spec

-----------------------------------------------------------------------------
(* The reboot and the end of the profile *)

\* Every machine has been told to reboot when the restart has let it go, and all
\* have when the profile is saved.
BootInv ==
    /\ pc = "synchronizing" => \A m \in Machine : check[m] = "shutdown"
    /\ pc = "restarting" =>
          \A m \in Machine : check[m] \in {"probing", "done"} => boot[m] # "old"
    /\ ~testMode /\ (pc = "saving" \/ profile.saved) => \A m \in Machine : boot[m] # "old"

\* The stop is over and noted exactly when the orchestration is.
CloseInv ==
    /\ pc \in {"synchronizing", "restarting", "saving"} => ~profile.saved
    /\ profile.stopped <=> pc = "over"
    /\ pc = "over" => ~profile.running /\ ctl = "stopped"

LEMMA InitInvs == Init => BootInv /\ CloseInv
BY DEF Init, NoProfile, BootInv, CloseInv

\* Actions that leave the row, the phase and the restart alone.
LEMMA BootKept ==
    ASSUME BootInv, UNCHANGED <<pc, testMode, check, boot, profile>> PROVE BootInv'
BY DEF BootInv

LEMMA NextBoot == TypeInv /\ BootInv /\ [Next]_vars => BootInv'
<1> SUFFICES ASSUME TypeInv, BootInv, [Next]_vars PROVE BootInv'
    OBVIOUS
<1> USE DEF TypeInv, cluster, rows
<1>1. CASE Synchronize
    BY <1>1 DEF Synchronize, BootInv
<1>2. CASE RestartCluster
    BY <1>2 DEF RestartCluster, BootInv
<1>3. CASE SaveProfile
    BY <1>3 DEF SaveProfile, BootInv
<1>4. CASE CloseProfile
    BY <1>4 DEF CloseProfile, BootInv
<1>5. CASE KillOrchestrator \/ Terminated \/ UNCHANGED vars
    BY <1>5, BootKept DEF KillOrchestrator, Terminated, vars, BootInv
<1>6. CASE OpenFails \/ WaitForFirst \/ WaitForAll
    BY <1>6 DEF OpenFails, WaitForFirst, WaitForAll, BootInv
<1>7. CASE WaitEnds
    BY <1>7 DEF WaitEnds, BootInv
<1>8. CASE OpenSession \/ AddDeviceControl \/ CancelNext \/ DeviceControl
    BY <1>8, BootKept, DeviceControlType DEF OpenSession, AddDeviceControl, CancelNext
<1>9. ASSUME NEW m \in Machine, ShutDown(m) PROVE BootInv'
  <2>1. pc = "restarting" /\ UNCHANGED <<pc, testMode, profile>>
      BY <1>9 DEF ShutDown, RestartUnchanged
  <2>2. \/ check'[m] = "probing" /\ boot'[m] = "told"
        \/ check'[m] = "raised" /\ boot'[m] \in {boot[m], "told"}
      BY <1>9 DEF ShutDown
  <2>3. \A n \in Machine \ {m} : check'[n] = check[n] /\ boot'[n] = boot[n]
      BY <1>9 DEF ShutDown
  <2> HIDE DEF TypeInv
  <2> QED
      BY <2>1, <2>2, <2>3 DEF BootInv
<1>10. ASSUME NEW m \in Machine, Reboot(m) PROVE BootInv'
    BY <1>10 DEF Reboot, BootInv
<1>11. ASSUME NEW m \in Machine, Probe(m) PROVE BootInv'
    BY <1>11 DEF Probe, RestartUnchanged, BootInv
<1>12. ASSUME NEW m \in Machine,
              \/ Connect(m) \/ WorkerEnds(m) \/ StrayEnds(m)
              \/ SshExits(m) \/ ConnectionLost(m) \/ SessionCancelled(m)
       PROVE  BootInv'
    BY <1>12, BootKept DEF Connect, WorkerEnds, StrayEnds, SshExits, ConnectionLost,
       SessionCancelled, SessionFrame
<1> QED
    BY <1>1, <1>2, <1>3, <1>4, <1>5, <1>6, <1>7, <1>8, <1>9, <1>10, <1>11, <1>12
    DEF Next, Orchestrate

LEMMA CloseKept == ASSUME CloseInv, UNCHANGED <<pc, profile, ctl>> PROVE CloseInv'
BY DEF CloseInv

\* The end of a task is no matter of the owner's.
LEMMA SessionsKeepOwner ==
    ASSUME NEW m \in Machine, \/ Connect(m) \/ WorkerEnds(m) \/ StrayEnds(m)
                              \/ SshExits(m) \/ ConnectionLost(m) \/ SessionCancelled(m)
    PROVE  UNCHANGED <<pc, profile, ctl, stack, stopFailed, succeeded>>
BY DEF SshExits, ConnectionLost, AfterSsh, StrayEnds, SessionCancelled, SessionEnds, Connect, WorkerEnds, SessionFrame, MT!TaskEnds,
       controller, rows

LEMMA DeviceKeepsOwner ==
    ASSUME DeviceControl
    PROVE  UNCHANGED <<pc, profile, ctl, stack, stopFailed, succeeded>>
BY DEF DeviceControl, DevStarts, FaultBegins, FaultEnds, DevCancelled, SwitchAll, DevEnds,
       DevFrame, MT!TaskEnds, controller, rows

LEMMA NextClose == TypeInv /\ CloseInv /\ [Next]_vars => CloseInv'
<1> SUFFICES ASSUME TypeInv, CloseInv, [Next]_vars PROVE CloseInv'
    OBVIOUS
<1> USE DEF TypeInv, rows, controller
<1>1. CASE Synchronize
    BY <1>1 DEF Synchronize, CloseInv
<1>2. CASE RestartCluster
    BY <1>2 DEF RestartCluster, CloseInv
<1>3. CASE SaveProfile
    BY <1>3 DEF SaveProfile, CloseInv
<1>4. CASE CloseProfile
    BY <1>4 DEF CloseProfile, CloseInv
<1>5. CASE KillOrchestrator
    BY <1>5 DEF KillOrchestrator, CloseInv, Ended
<1>6. CASE Terminated \/ UNCHANGED vars
    BY <1>6, CloseKept DEF Terminated, vars
<1>7. CASE OpenFails \/ WaitForFirst \/ WaitForAll \/ WaitEnds
    BY <1>7 DEF OpenFails, WaitForFirst, WaitForAll, WaitEnds, CloseInv
<1>8. CASE OpenSession \/ AddDeviceControl \/ CancelNext
    BY <1>8 DEF OpenSession, AddDeviceControl, CancelNext, CloseInv
<1>9. CASE DeviceControl
    BY <1>9, CloseKept, DeviceKeepsOwner
<1>10. ASSUME NEW m \in Machine, ShutDown(m) \/ Reboot(m) \/ Probe(m) PROVE CloseInv'
    BY <1>10, CloseKept DEF ShutDown, Reboot, Probe, RestartUnchanged
<1>11. ASSUME NEW m \in Machine,
              \/ Connect(m) \/ WorkerEnds(m) \/ StrayEnds(m)
              \/ SshExits(m) \/ ConnectionLost(m) \/ SessionCancelled(m)
       PROVE  CloseInv'
    BY <1>11, CloseKept, SessionsKeepOwner
<1> QED
    BY <1>1, <1>2, <1>3, <1>4, <1>5, <1>6, <1>7, <1>8, <1>9, <1>10, <1>11
    DEF Next, Orchestrate

\* No benchmark is begun on a machine that has not been told to reboot, for
\* restart_cluster raises what any node raises.
THEOREM RebootBeforeBenchmark == Spec => []NoneSkipsTheReboot
<1>1. Init => TypeInv /\ BootInv
    BY InitType, InitInvs
<1>2. TypeInv /\ BootInv /\ [Next]_vars => TypeInv' /\ BootInv'
    BY NextType, NextBoot
<1>3. BootInv => NoneSkipsTheReboot
    BY DEF BootInv, NoneSkipsTheReboot
<1> QED
    BY <1>1, <1>2, <1>3, PTL DEF Spec

\* The finally clauses of do_benchmark: the profile is closed when no session and no
\* device control is left, whatever they raise, and closed by nothing else.
THEOREM ProfileIsClosed == Spec => []ProfileClosed
<1>1. Init => TypeInv /\ CloseInv
    BY InitType, InitInvs
<1>2. TypeInv /\ CloseInv /\ [Next]_vars => TypeInv' /\ CloseInv'
    BY NextType, NextClose
<1>3. TypeInv /\ CloseInv => ProfileClosed
  <2>1. P!MTInv => P!NothingPending
      BY P!MTInvNothing
  <2> QED
      BY <2>1 DEF TypeInv, CloseInv, ProfileClosed, P!NothingPending, P!Alive, MT!Alive
<1> QED
    BY <1>1, <1>2, <1>3, PTL DEF Spec

-----------------------------------------------------------------------------
(* Success *)

\* DeviceControl is added last, so that it is stopped first, ...
DeviceInv ==
    /\ dev = "none" => task[Device] = "absent"
    /\ dev # "none" => opened = Len(Machines)
    /\ pc \in {"opening", "first", "all"} /\ dev # "none" =>
          stack # <<>> /\ Device = stack[Len(stack)]
    /\ pc \in {"synchronizing", "restarting", "saving"} => dev = "none"
    /\ pc = "cancelling" => task[Device] # "running"

TopOfStop(t) == ctl = "stopping" /\ t = stack[Len(stack)]

\* ... and a failure during the stop is one of the task on top, which the stop
\* raises, or of a session that was not its turn.
EarnedSoFar ==
    \/ \E t \in AnyTask : task[t] = "timeout"
    \/ stopFailed
    \/ \A t \in AnyTask : task[t] = "failed" => t \in late \/ TopOfStop(t)

Earned ==
    \/ \E t \in AnyTask : task[t] = "timeout"
    \/ \A t \in AnyTask : task[t] = "failed" => t \in late

EarnedInv ==
    /\ succeeded => pc \in {"cancelling", "over", "lost"}
    /\ pc = "cancelling" /\ succeeded => EarnedSoFar
    /\ profile.successful => pc = "over" /\ Earned

LEMMA InitEarned == Init => DeviceInv /\ EarnedInv
BY DEF Init, NoProfile, DeviceInv, EarnedInv, MT!MTInit

\* Some actions leave all of it alone.
LEMMA EarnedKept ==
    ASSUME DeviceInv, EarnedInv,
           UNCHANGED <<pc, dev, opened, task, stack, ctl, stopFailed, succeeded, profile, late>>
    PROVE  DeviceInv' /\ EarnedInv'
BY DEF DeviceInv, EarnedInv, EarnedSoFar, Earned, TopOfStop

\* A session that ends.
LEMMA SessionEarned ==
    ASSUME TypeInv, DeviceInv, EarnedInv, NEW m \in Machine, Orchestrating,
           NEW r \in {"returned", "failed", "cancelled"}, SessionEnds(m, r), SessionFrame
    PROVE  DeviceInv' /\ EarnedInv'
<1> USE MachinesAssumption DEF TypeInv, P!MTInv, P!MTTypeOK, rows, devices
<1>1. /\ task' = [task EXCEPT ![m] = r] /\ task[m] \in {"running", "cancelling"}
      /\ UNCHANGED <<pc, dev, opened, stack, ctl, stopFailed, succeeded, profile>>
    BY DEF SessionEnds, SessionFrame, MT!TaskEnds, MT!Alive
<1>2. m # Device /\ Device \in AnyTask /\ m \in AnyTask
    BY DEF Powered
<1>3. DeviceInv'
    BY <1>1, <1>2 DEF DeviceInv
<1>4. late \subseteq late' /\ (pc = "cancelling" /\ task[m] = "running" => m \in late')
    BY DEF SessionEnds
<1>5. task[m] = "cancelling" => TopOfStop(m)
    BY <1>2 DEF TopOfStop
<1>6. ASSUME pc = "cancelling", EarnedSoFar PROVE EarnedSoFar'
  <2>1. CASE \E t \in AnyTask : task[t] = "timeout"
      BY <1>1, <2>1 DEF EarnedSoFar
  <2>2. CASE stopFailed
      BY <1>1, <2>2 DEF EarnedSoFar
  <2>3. CASE \A t \in AnyTask : task[t] = "failed" => t \in late \/ TopOfStop(t)
      BY <1>1, <1>2, <1>4, <1>5, <1>6, <2>3 DEF EarnedSoFar, TopOfStop
  <2> QED
      BY <1>6, <2>1, <2>2, <2>3 DEF EarnedSoFar
<1>7. ~profile.successful
    BY DEF EarnedInv, Orchestrating, Ended
<1>8. EarnedInv'
    BY <1>1, <1>6, <1>7 DEF EarnedInv
<1> QED
    BY <1>3, <1>8

\* DeviceControl that ends, or goes on.
LEMMA DeviceEarned ==
    ASSUME TypeInv, DeviceInv, EarnedInv, DeviceControl
    PROVE  DeviceInv' /\ EarnedInv'
<1> USE MachinesAssumption DEF TypeInv, P!MTInv, P!MTTypeOK
<1>1. /\ UNCHANGED <<pc, opened, stack, ctl, stopFailed, succeeded, profile, late>>
      /\ pc \notin Ended
    BY DeviceKeepsOwner DEF DeviceControl, DevStarts, FaultBegins, FaultEnds, DevCancelled,
       DevFrame, rows, Orchestrating
<1>2. /\ task' = task \/ \E r \in {"timeout", "failed", "cancelled"} :
                             task' = [task EXCEPT ![Device] = r]
      /\ task[Device] \in {"running", "cancelling"}
    BY DEF DeviceControl, DevStarts, FaultBegins, FaultEnds, DevCancelled, SwitchAll, DevEnds,
       MT!TaskEnds, MT!Alive, controller
<1>3. dev # "none" /\ dev' # "none"
    BY <1>2, SwitchAllType
    DEF DeviceInv, DeviceControl, DevStarts, FaultBegins, FaultEnds, DevCancelled, DevEnds
<1>4. DeviceInv'
    BY <1>1, <1>2, <1>3 DEF DeviceInv
<1>5. pc = "cancelling" => TopOfStop(Device)
    BY <1>2 DEF DeviceInv, TopOfStop
<1>6. ASSUME pc = "cancelling", EarnedSoFar PROVE EarnedSoFar'
  <2>1. CASE \E t \in AnyTask : task[t] = "timeout"
      BY <1>2, <2>1 DEF EarnedSoFar
  <2>2. CASE stopFailed
      BY <1>1, <2>2 DEF EarnedSoFar
  <2>3. CASE \A t \in AnyTask : task[t] = "failed" => t \in late \/ TopOfStop(t)
      BY <1>1, <1>2, <1>5, <1>6, <2>3 DEF EarnedSoFar, TopOfStop
  <2> QED
      BY <1>6, <2>1, <2>2, <2>3 DEF EarnedSoFar
<1>7. ~profile.successful
    BY <1>1 DEF EarnedInv, Ended
<1>8. EarnedInv'
    BY <1>1, <1>6, <1>7 DEF EarnedInv
<1> QED
    BY <1>4, <1>8

\* The stop begins.  Nothing has failed when run_for has returned, or a TimeoutError
\* was read first.
LEMMA StopEarned ==
    ASSUME TypeInv, DeviceInv, EarnedInv, WaitEnds \/ OpenFails
    PROVE  DeviceInv' /\ EarnedInv'
<1> USE MachinesAssumption DEF TypeInv, devices, rows
<1>1. (\E o \in P!Over : P!RunForEnds(o)) \/ P!RunForCancelled \/ P!CancelPendingTasks
  <2>1. MT!MTTypeOK /\ MT!Over = P!Over
      BY DEF P!MTInv, P!MTTypeOK, MT!MTTypeOK, P!Alive, MT!Alive, P!Over, MT!Over
  <2> QED
      BY <2>1, OutcomeType, SameRunForEnds, SameCancel DEF WaitEnds, OpenFails
<1>2. \A t \in AnyTask : task'[t] = task[t] \/ (task[t] \in P!Alive /\ task'[t] = "cancelling")
    BY <1>1, P!StopFate
<1>3. /\ pc' = "cancelling" /\ pc \in {"opening", "first", "all"}
      /\ UNCHANGED <<dev, opened, late, profile>>
    BY DEF WaitEnds, OpenFails
<1>4. task'[Device] # "running" /\ (dev = "none" => task'[Device] = "absent")
  <2>1. CASE dev = "none"
      BY <1>2, <2>1 DEF DeviceInv, P!Alive
  <2>2. CASE dev # "none" /\ task[Device] = "running"
    <3>1. stack # <<>> /\ Device = stack[Len(stack)]
        BY <1>3, <2>2 DEF DeviceInv
    <3>2. task'[Device] = "cancelling"
        BY <1>1, <2>2, <3>1, P!TopCancelled DEF P!Alive
    <3> QED
        BY <2>2, <3>2
  <2>3. CASE dev # "none" /\ task[Device] # "running"
      BY <1>2, <2>3
  <2> QED
      BY <2>1, <2>2, <2>3
<1>5. DeviceInv'
    BY <1>3, <1>4 DEF DeviceInv
<1>6. ~profile'.successful
    BY <1>3 DEF EarnedInv
<1>7. CASE OpenFails
    BY <1>3, <1>5, <1>6, <1>7 DEF OpenFails, EarnedInv
<1>8. CASE WaitEnds
  <2> SUFFICES ASSUME succeeded' PROVE EarnedSoFar'
      BY <1>3, <1>5, <1>6 DEF EarnedInv
  <2>1. "returned" \in MT!Outcomes
      BY <1>8 DEF WaitEnds
  <2>2. \/ \E t \in AnyTask : task[t] = "timeout"
        \/ \A t \in AnyTask : task[t] # "failed"
      BY <2>1 DEF MT!Outcomes, MT!Done, MT!Over
  <2> HIDE DEF TypeInv
  <2>3. \A t \in AnyTask : /\ task[t] = "timeout" => task'[t] = "timeout"
                           /\ task'[t] = "failed" => task[t] = "failed"
      BY <1>2 DEF P!Alive
  <2>4. \/ \E t \in AnyTask : task'[t] = "timeout"
        \/ \A t \in AnyTask : task'[t] # "failed"
      BY <2>2, <2>3
  <2> QED
      BY <2>4 DEF EarnedSoFar
<1> QED
    BY <1>7, <1>8

\* The stop goes on: it raises the failure of the task that was on top.
LEMMA CancelNextEarned ==
    ASSUME TypeInv, DeviceInv, EarnedInv, CancelNext
    PROVE  DeviceInv' /\ EarnedInv'
<1> USE MachinesAssumption DEF TypeInv, devices, rows
<1>1. P!StopNext
    BY SameStopNext DEF CancelNext
<1>2. \A t \in AnyTask : task'[t] = task[t] \/ (task[t] \in P!Alive /\ task'[t] = "cancelling")
    BY <1>1, P!StopFate
<1>3. pc = "cancelling" /\ UNCHANGED <<pc, dev, opened, late, profile, succeeded>>
    BY DEF CancelNext
<1>4. DeviceInv'
    BY <1>2, <1>3 DEF DeviceInv, P!Alive
<1>5. /\ ctl = "stopping"
      /\ stopFailed' = (stopFailed \/ task[stack[Len(stack)]] \in {"failed", "timeout"})
    BY <1>1 DEF P!StopNext
<1>6. ASSUME EarnedSoFar PROVE EarnedSoFar'
  <2> HIDE DEF TypeInv
  <2>0. \A t \in AnyTask : /\ task[t] = "timeout" => task'[t] = "timeout"
                           /\ task'[t] = "failed" => task[t] = "failed"
      BY <1>2 DEF P!Alive
  <2>1. CASE \E t \in AnyTask : task[t] = "timeout"
      BY <2>0, <2>1 DEF EarnedSoFar
  <2>2. CASE stopFailed \/ task[stack[Len(stack)]] \in {"failed", "timeout"}
      BY <1>5, <2>2 DEF EarnedSoFar
  <2>3. CASE /\ \A t \in AnyTask : task[t] = "failed" => t \in late \/ TopOfStop(t)
             /\ task[stack[Len(stack)]] \notin {"failed", "timeout"}
    <3>1. \A t \in AnyTask : task[t] = "failed" => t \in late
        BY <2>3 DEF TopOfStop
    <3> QED
        BY <1>3, <2>0, <3>1 DEF EarnedSoFar
  <2> QED
      BY <1>6, <2>1, <2>2, <2>3 DEF EarnedSoFar
<1>7. ~profile.successful
    BY <1>3 DEF EarnedInv
<1>8. EarnedInv'
    BY <1>3, <1>6, <1>7 DEF EarnedInv
<1> QED
    BY <1>4, <1>8

LEMMA NextEarned ==
    TypeInv /\ CloseInv /\ DeviceInv /\ EarnedInv /\ [Next]_vars => DeviceInv' /\ EarnedInv'
<1> SUFFICES ASSUME TypeInv, CloseInv, DeviceInv, EarnedInv, [Next]_vars
             PROVE  DeviceInv' /\ EarnedInv'
    OBVIOUS
<1> USE MachinesAssumption DEF TypeInv, devices, rows, controller, cluster
<1>1. CASE Synchronize \/ RestartCluster \/ SaveProfile
  <2>1. /\ pc \in {"synchronizing", "restarting", "saving"}
        /\ pc' \in {"aborted", "restarting", "saving", "opening"}
        /\ profile'.successful = profile.successful
        /\ UNCHANGED <<dev, opened, controller, succeeded>>
      BY <1>1 DEF Synchronize, RestartCluster, SaveProfile
  <2>2. DeviceInv'
      BY <2>1 DEF DeviceInv
  <2>3. EarnedInv'
      BY <2>1 DEF EarnedInv
  <2> QED
      BY <2>2, <2>3
<1>2. CASE OpenSession
  <2>1. PICK t \in Machine : t = Machines[opened + 1]
      BY <1>2 DEF OpenSession, Machine
  <2>2. /\ task' = [task EXCEPT ![t] = "running"] /\ opened < Len(Machines)
        /\ pc = "opening" /\ UNCHANGED <<pc, dev, profile, succeeded>>
      BY <1>2, <2>1 DEF OpenSession, MT!AddTask
  <2>3. dev = "none" /\ t # Device /\ Device \in AnyTask
      BY <2>2 DEF DeviceInv, Powered
  <2>4. DeviceInv'
      BY <2>2, <2>3 DEF DeviceInv, P!MTInv, P!MTTypeOK
  <2>5. EarnedInv'
      BY <2>2 DEF EarnedInv
  <2> QED
      BY <2>4, <2>5
<1>3. CASE AddDeviceControl
  <2>1. /\ stack' = Append(stack, Device) /\ stack \in Seq(AnyTask) /\ pc = "opening"
        /\ dev' = "created" /\ opened = Len(Machines)
        /\ UNCHANGED <<pc, opened, profile, succeeded>>
      BY <1>3 DEF AddDeviceControl, MT!AddTask, P!MTInv, P!MTTypeOK
  <2>2. stack' # <<>> /\ Device = stack'[Len(stack')]
    <3>1. Len(stack') = Len(stack) + 1 /\ stack'[Len(stack) + 1] = Device
        BY <2>1
    <3> QED
        BY <2>1, <3>1
  <2> QED
      BY <2>1, <2>2 DEF DeviceInv, EarnedInv
<1>4. CASE WaitForFirst \/ WaitForAll
    BY <1>4 DEF WaitForFirst, WaitForAll, MT!RunFor, MT!RunForAgain, DeviceInv, EarnedInv
<1>5. CASE WaitEnds \/ OpenFails
    BY <1>5, StopEarned
<1>6. CASE CancelNext
    BY <1>6, CancelNextEarned
<1>7. CASE CloseProfile
  <2>1. /\ pc = "cancelling" /\ pc' = "over" /\ ctl = "stopped"
        /\ UNCHANGED <<dev, opened, succeeded, controller, late>>
      BY <1>7 DEF CloseProfile
  <2>2. profile'.successful => succeeded /\ ~stopFailed
      BY <1>7 DEF CloseProfile
  <2>3. DeviceInv'
      BY <2>1 DEF DeviceInv
  <2>4. succeeded /\ ~stopFailed => Earned'
      BY <2>1 DEF EarnedInv, EarnedSoFar, Earned, TopOfStop
  <2> QED
      BY <2>1, <2>2, <2>3, <2>4 DEF EarnedInv
<1>8. CASE KillOrchestrator
    BY <1>8 DEF KillOrchestrator, DeviceInv, EarnedInv, Ended
<1>9. CASE Terminated \/ UNCHANGED vars
    BY <1>9, EarnedKept DEF Terminated, vars
<1>10. CASE DeviceControl
    BY <1>10, DeviceEarned
<1>11. ASSUME NEW m \in Machine,
              \/ ShutDown(m) \/ Reboot(m) \/ Probe(m)
              \/ Connect(m) \/ WorkerEnds(m) \/ StrayEnds(m)
       PROVE  DeviceInv' /\ EarnedInv'
    BY <1>11, EarnedKept DEF ShutDown, Reboot, Probe, RestartUnchanged, Connect, WorkerEnds,
       StrayEnds, SessionFrame
<1>12. ASSUME NEW m \in Machine, SshExits(m) \/ ConnectionLost(m)
       PROVE  DeviceInv' /\ EarnedInv'
  <2>1. CASE keepAlive[m]
      BY <1>12, <2>1, EarnedKept DEF SshExits, ConnectionLost, AfterSsh, SessionFrame
  <2>2. CASE ~keepAlive[m]
    <3>1. PICK r \in {"returned", "failed", "cancelled"} : SessionEnds(m, r)
        BY <1>12, <2>2 DEF SshExits, ConnectionLost, AfterSsh
    <3> QED
        BY <1>12, <3>1, SessionEarned DEF SshExits, ConnectionLost
  <2> QED
      BY <2>1, <2>2
<1>13. ASSUME NEW m \in Machine, SessionCancelled(m) PROVE DeviceInv' /\ EarnedInv'
  <2>1. PICK r \in {"returned", "failed", "cancelled"} : SessionEnds(m, r)
      BY <1>13 DEF SessionCancelled
  <2> QED
      BY <1>13, <2>1, SessionEarned DEF SessionCancelled
<1> QED
    BY <1>1, <1>2, <1>3, <1>4, <1>5, <1>6, <1>7, <1>8, <1>9, <1>10, <1>11, <1>12, <1>13
    DEF Next, Orchestrate

\* A profile is only marked as successful if no session and no device control has
\* failed, except for what run_for and cancel_pending_tasks lose: failures behind a
\* TimeoutError, and those of sessions that end while another one is being stopped.
THEOREM SuccessMeansNoFailure == Spec => []SuccessIsEarned
<1>1. Init => TypeInv /\ CloseInv /\ DeviceInv /\ EarnedInv
    BY InitType, InitInvs, InitEarned
<1>2. TypeInv /\ CloseInv /\ DeviceInv /\ EarnedInv /\ [Next]_vars
      => TypeInv' /\ CloseInv' /\ DeviceInv' /\ EarnedInv'
    BY NextType, NextClose, NextEarned
<1>3. EarnedInv => SuccessIsEarned
    BY DEF EarnedInv, Earned, SuccessIsEarned
<1> QED
    BY <1>1, <1>2, <1>3, PTL DEF Spec

-----------------------------------------------------------------------------
(* The sessions are managed processes *)

\* No session is kept alive before DeviceControl has begun, which it does once.
KeepInv == dev \in {"none", "created"} => \A m \in Machine : ~keepAlive[m]

LEMMA NextKeep == TypeInv /\ KeepInv /\ [Next]_vars => KeepInv'
<1> SUFFICES ASSUME TypeInv, KeepInv, [Next]_vars PROVE KeepInv'
    OBVIOUS
<1> USE DEF KeepInv, devices
<1>1. CASE Orchestrate
  <2>1. UNCHANGED keepAlive /\ (dev' = dev \/ dev = "none")
      BY <1>1 DEF Orchestrate, Synchronize, RestartCluster, SaveProfile, OpenSession, OpenFails,
         AddDeviceControl, WaitForFirst, WaitForAll, WaitEnds, CancelNext, CloseProfile
  <2> QED
      BY <2>1
<1>2. CASE DeviceControl
  <2>1. dev' \notin {"none", "created"}
      BY <1>2, SwitchAllType DEF DeviceControl, DevStarts, FaultBegins, FaultEnds, DevCancelled,
         DevEnds
  <2> QED
      BY <2>1
<1>3. CASE KillOrchestrator \/ Terminated \/ UNCHANGED vars
    BY <1>3 DEF KillOrchestrator, Terminated, vars
<1>4. ASSUME NEW m \in Machine, \/ ShutDown(m) \/ Reboot(m) \/ Probe(m) \/ Connect(m)
                                \/ WorkerEnds(m) \/ StrayEnds(m) \/ SshExits(m)
                                \/ ConnectionLost(m) \/ SessionCancelled(m)
      PROVE  KeepInv'
    BY <1>4 DEF ShutDown, Reboot, Probe, RestartUnchanged, Connect, WorkerEnds, StrayEnds,
       SshExits, ConnectionLost, SessionCancelled, SessionFrame
<1> QED
    BY <1>1, <1>2, <1>3, <1>4 DEF Next

\* Keep-alive is turned on by DeviceControl and off by nothing.
LEMMA KeptStays ==
    ASSUME TypeInv, KeepInv, [Next]_vars, NEW m \in Machine, keepAlive[m]
    PROVE  keepAlive'[m]
<1> USE DEF devices
<1>1. dev # "created"
    BY DEF KeepInv
<1>2. CASE Orchestrate
    BY <1>2 DEF Orchestrate, Synchronize, RestartCluster, SaveProfile, OpenSession, OpenFails,
       AddDeviceControl, WaitForFirst, WaitForAll, WaitEnds, CancelNext, CloseProfile
<1>3. CASE DeviceControl
    BY <1>1, <1>3 DEF DeviceControl, DevStarts, FaultBegins, FaultEnds, DevCancelled
<1>4. CASE KillOrchestrator \/ Terminated \/ UNCHANGED vars
    BY <1>4 DEF KillOrchestrator, Terminated, vars
<1>5. ASSUME NEW n \in Machine, \/ ShutDown(n) \/ Reboot(n) \/ Probe(n) \/ Connect(n)
                                \/ WorkerEnds(n) \/ StrayEnds(n) \/ SshExits(n)
                                \/ ConnectionLost(n) \/ SessionCancelled(n)
      PROVE  keepAlive'[m]
    BY <1>5 DEF ShutDown, Reboot, Probe, RestartUnchanged, Connect, WorkerEnds, StrayEnds,
       SshExits, ConnectionLost, SessionCancelled, SessionFrame
<1> QED
    BY <1>2, <1>3, <1>4, <1>5 DEF Next

LEMMA StutterManaged ==
    ASSUME NEW m, task'[m] = task[m], link'[m] = link[m]
    PROVE  Managed(m)!Step
BY DEF Managed!Step, SshSeen

\* The end of one session is that of its process, and of no other.
LEMMA EndTouchesOne ==
    ASSUME TypeInv, NEW n \in Machine, NEW r, SessionEnds(n, r), NEW m \in Machine
    PROVE  /\ m # n => task'[m] = task[m] /\ link'[m] = link[m]
           /\ m = n => task'[m] = r /\ SshSeen(m)' = "none"
BY DEF SessionEnds, MT!TaskEnds, TypeInv, P!MTInv, P!MTTypeOK, SshSeen

LEMMA NextManaged ==
    ASSUME TypeInv, [Next]_vars, NEW m \in Machine
    PROVE  Managed(m)!Step
<1> USE DEF controller
<1>1. CASE \/ Synchronize \/ RestartCluster \/ SaveProfile \/ WaitForFirst \/ WaitForAll
           \/ CloseProfile \/ KillOrchestrator \/ Terminated \/ UNCHANGED vars
  <2>1. UNCHANGED <<task, link>>
      BY <1>1 DEF Synchronize, RestartCluster, SaveProfile, WaitForFirst, WaitForAll,
         CloseProfile, KillOrchestrator, Terminated, vars, MT!RunFor, MT!RunForAgain
  <2> QED
      BY <2>1, StutterManaged
<1>2. CASE OpenSession \/ AddDeviceControl
  <2>1. PICK t : MT!AddTask(t)
      BY <1>2 DEF OpenSession, AddDeviceControl
  <2>2. task[t] = "absent" /\ task' = [task EXCEPT ![t] = "running"] /\ link' = link
      BY <1>2, <2>1 DEF OpenSession, AddDeviceControl, MT!AddTask
  <2>3. task'[m] = task[m] \/ (task[m] = "absent" /\ task'[m] = "running")
      BY <2>2 DEF TypeInv, P!MTInv, P!MTTypeOK
  <2> QED
      BY <2>2, <2>3, StutterManaged DEF Managed!Step, Managed!Create, SshSeen
<1>3. CASE OpenFails \/ WaitEnds \/ CancelNext
  <2>1. \/ \E o \in P!Over : P!RunForEnds(o)
        \/ P!RunForCancelled \/ P!CancelPendingTasks \/ P!StopNext
    <3>1. MT!MTTypeOK /\ MT!Over = P!Over
        BY DEF TypeInv, P!MTInv, P!MTTypeOK, MT!MTTypeOK, P!Alive, MT!Alive, P!Over, MT!Over
    <3> QED
        BY <1>3, <3>1, OutcomeType, SameRunForEnds, SameCancel, SameStopNext
        DEF OpenFails, WaitEnds, CancelNext
  <2>2. task'[m] = task[m] \/ (task[m] \in P!Alive /\ task'[m] = "cancelling")
      BY <2>1, P!StopFate DEF TypeInv
  <2>3. link' = link
      BY <1>3 DEF OpenFails, WaitEnds, CancelNext
  <2> QED
      BY <2>2, <2>3, StutterManaged DEF Managed!Step, Managed!Cancel, SshSeen, P!Alive
<1>4. CASE DeviceControl
  <2>1. /\ link' = link
        /\ task' = task \/ \E r : task' = [task EXCEPT ![Device] = r]
      BY <1>4 DEF DeviceControl, DevStarts, FaultBegins, FaultEnds, DevCancelled, SwitchAll,
         DevEnds, DevFrame, MT!TaskEnds
  <2>2. m # Device
      BY MachinesAssumption DEF Powered
  <2> QED
      BY <2>1, <2>2, StutterManaged DEF TypeInv, P!MTInv, P!MTTypeOK
<1>5. ASSUME NEW n \in Machine, \/ ShutDown(n) \/ Reboot(n) \/ Probe(n)
                                \/ WorkerEnds(n) \/ StrayEnds(n)
      PROVE  Managed(m)!Step
  <2>1. UNCHANGED <<task, link>>
      BY <1>5 DEF ShutDown, Reboot, Probe, RestartUnchanged, WorkerEnds, StrayEnds
  <2> QED
      BY <2>1, StutterManaged
<1>6. ASSUME NEW n \in Machine, Connect(n) PROVE Managed(m)!Step
  <2>1. /\ task[n] = "running" /\ link[n] \in {"off", "pause"}
        /\ task' = task /\ link' = [link EXCEPT ![n] = "on"]
      BY <1>6 DEF Connect
  <2>2. CASE m = n
    <3>1. SshSeen(m) \in {"none", "paused"} /\ SshSeen(m)' = "up"
        BY <2>1, <2>2 DEF SshSeen, TypeInv
    <3> QED
        BY <2>1, <2>2, <3>1 DEF Managed!Step, Managed!Start
  <2>3. CASE m # n
      BY <2>1, <2>3, StutterManaged DEF TypeInv
  <2> QED
      BY <2>2, <2>3
<1>7. ASSUME NEW n \in Machine, SshExits(n) \/ ConnectionLost(n) PROVE Managed(m)!Step
  <2>1. task[n] = "running" /\ link[n] = "on" /\ SshSeen(n) = "up"
      BY <1>7 DEF SshExits, ConnectionLost, SshSeen
  <2>2. CASE keepAlive[n]
    <3>1. task' = task /\ link' = [link EXCEPT ![n] = "pause"]
        BY <1>7, <2>2 DEF SshExits, ConnectionLost, AfterSsh
    <3>2. CASE m = n
      <4>1. SshSeen(m)' = "paused"
          BY <3>1, <3>2 DEF SshSeen, TypeInv
      <4> QED
          BY <2>1, <2>2, <3>1, <3>2, <4>1 DEF Managed!Step, Managed!Pause, Managed!Running
    <3>3. CASE m # n
        BY <3>1, <3>3, StutterManaged DEF TypeInv
    <3> QED
        BY <3>2, <3>3
  <2>3. CASE ~keepAlive[n]
    <3>1. PICK r \in {"returned", "failed"} : SessionEnds(n, r)
        BY <1>7, <2>3 DEF SshExits, ConnectionLost, AfterSsh
    <3>2. CASE m = n
      <4>1. Managed(m)!End(r)
          BY <2>1, <2>3, <3>1, <3>2, EndTouchesOne DEF Managed!End, Managed!Running
      <4> QED
          BY <4>1 DEF Managed!Step
    <3>3. CASE m # n
        BY <3>1, <3>3, EndTouchesOne, StutterManaged
    <3> QED
        BY <3>2, <3>3
  <2> QED
      BY <2>2, <2>3
<1>8. ASSUME NEW n \in Machine, SessionCancelled(n) PROVE Managed(m)!Step
  <2>1. PICK r \in {"cancelled", "failed"} :
           /\ task[n] = "cancelling" /\ SessionEnds(n, r)
           /\ r = "failed" => link[n] = "on" /\ ~keepAlive[n]
      BY <1>8 DEF SessionCancelled
  <2>2. CASE m = n
    <3>1. Managed(m)!EndCancelled(r)
      <4>1. task[m] = "cancelling" /\ task'[m] = r /\ SshSeen(m)' = "none"
          BY <2>1, <2>2, EndTouchesOne
      <4>2. r = "failed" => SshSeen(m) = "up" /\ ~keepAlive[m]
          BY <2>1, <2>2 DEF SshSeen
      <4> QED
          BY <4>1, <4>2 DEF Managed!EndCancelled, Managed!Running
    <3> QED
        BY <3>1 DEF Managed!Step
  <2>3. CASE m # n
      BY <2>1, <2>3, EndTouchesOne, StutterManaged
  <2> QED
      BY <2>2, <2>3
<1> QED
    BY <1>1, <1>2, <1>3, <1>4, <1>5, <1>6, <1>7, <1>8 DEF Next, Orchestrate

\* The sessions behave like what module ManagedProcess says of an Invocation, in
\* every order of their ends, of the power cuts and of the stop.
THEOREM SessionsFollowTheirProcess == Spec => SessionsAreManaged
<1>1. Init => TypeInv /\ KeepInv /\ \A m \in Machine : Managed(m)!Init
    BY InitType DEF Init, MT!MTInit, KeepInv, Managed!Init, SshSeen
<1>2. TypeInv /\ KeepInv /\ [Next]_vars => TypeInv' /\ KeepInv'
    BY NextType, NextKeep
<1>3. TypeInv /\ KeepInv /\ [Next]_vars => [\A m \in Machine : Managed(m)!Next]_vars
  <2> SUFFICES ASSUME TypeInv, KeepInv, [Next]_vars, NEW m \in Machine PROVE Managed(m)!Next
      OBVIOUS
  <2>1. Managed(m)!Step
      BY NextManaged
  <2>2. keepAlive[m] => keepAlive'[m]
      BY KeptStays
  <2> QED
      BY <2>1, <2>2 DEF Managed!Next
<1> QED
    BY <1>1, <1>2, <1>3, PTL DEF Spec, SessionsAreManaged

-----------------------------------------------------------------------------
(* Workers whose connection was lost *)

\* A session pauses only if it is kept alive, and one that has not begun has no
\* worker yet.
StrayInv ==
    /\ \A m \in Machine : link[m] = "pause" => keepAlive[m]
    /\ \A m \in Machine : task[m] \in {"absent", "running"} /\ link[m] = "off"
                              => worker[m] # "running"
    /\ SecondWorkerIsKept

LEMMA StrayKept ==
    ASSUME TypeInv, StrayInv, \A m \in Machine : keepAlive[m] => keepAlive'[m],
           \A m \in Machine : \/ task'[m] = task[m]
                               \/ task'[m] \notin {"absent", "running"}
                               \/ task[m] = "absent",
           \A m \in Machine : link'[m] = link[m],
           \A m \in Machine : worker'[m] = "running" => worker[m] = "running",
           strays' \subseteq strays
    PROVE  StrayInv'
BY DEF StrayInv, SecondWorkerIsKept, TypeInv

LEMMA NextStray == TypeInv /\ KeepInv /\ StrayInv /\ [Next]_vars => StrayInv'
<1> SUFFICES ASSUME TypeInv, KeepInv, StrayInv, [Next]_vars PROVE StrayInv'
    OBVIOUS
<1>k. \A m \in Machine : keepAlive[m] => keepAlive'[m]
    BY KeptStays
<1> USE DEF controller, programs
<1>1. CASE \/ Synchronize \/ RestartCluster \/ SaveProfile \/ WaitForFirst \/ WaitForAll
           \/ CloseProfile \/ KillOrchestrator \/ Terminated \/ UNCHANGED vars
  <2>1. UNCHANGED <<task, link, worker, strays>>
      BY <1>1 DEF Synchronize, RestartCluster, SaveProfile, WaitForFirst, WaitForAll,
         CloseProfile, KillOrchestrator, Terminated, vars, MT!RunFor, MT!RunForAgain
  <2> QED
      BY <1>k, <2>1, StrayKept
<1>2. CASE OpenSession \/ AddDeviceControl
  <2>1. PICK t : MT!AddTask(t)
      BY <1>2 DEF OpenSession, AddDeviceControl
  <2>2. /\ task[t] = "absent" /\ task' = [task EXCEPT ![t] = "running"]
        /\ UNCHANGED <<link, worker, strays>>
      BY <1>2, <2>1 DEF OpenSession, AddDeviceControl, MT!AddTask
  <2>3. \A m \in Machine : task'[m] = task[m] \/ task[m] = "absent"
      BY <2>2 DEF TypeInv, P!MTInv, P!MTTypeOK
  <2> QED
      BY <1>k, <2>2, <2>3, StrayKept
<1>3. CASE OpenFails \/ WaitEnds \/ CancelNext
  <2>1. \/ \E o \in P!Over : P!RunForEnds(o)
        \/ P!RunForCancelled \/ P!CancelPendingTasks \/ P!StopNext
    <3>1. MT!MTTypeOK /\ MT!Over = P!Over
        BY DEF TypeInv, P!MTInv, P!MTTypeOK, MT!MTTypeOK, P!Alive, MT!Alive, P!Over, MT!Over
    <3> QED
        BY <1>3, <3>1, OutcomeType, SameRunForEnds, SameCancel, SameStopNext
        DEF OpenFails, WaitEnds, CancelNext
  <2>2. \A m \in Machine : task'[m] = task[m] \/ task'[m] = "cancelling"
      BY <2>1, P!StopFate DEF TypeInv
  <2>3. UNCHANGED <<link, worker, strays>>
      BY <1>3 DEF OpenFails, WaitEnds, CancelNext
  <2> QED
      BY <1>k, <2>2, <2>3, StrayKept
<1>4. CASE DeviceControl
  <2>1. /\ link' = link
        /\ task' = task \/ \E r : task' = [task EXCEPT ![Device] = r]
      BY <1>4 DEF DeviceControl, DevStarts, FaultBegins, FaultEnds, DevCancelled, SwitchAll,
         DevEnds, DevFrame, MT!TaskEnds
  <2>2. Device \notin Machine
      BY MachinesAssumption DEF Powered
  <2>3. \A m \in Machine : task'[m] = task[m]
      BY <2>1, <2>2 DEF TypeInv, P!MTInv, P!MTTypeOK
  <2>4. UNCHANGED programs \/ ProgramsLosePower
      BY <1>4 DEF DeviceControl, DevStarts, FaultBegins, FaultEnds, DevCancelled, SwitchAll,
         DevEnds
  <2>5. /\ strays' \subseteq strays
        /\ \A m \in Machine : worker'[m] = "running" => worker[m] = "running"
      BY <2>4 DEF ProgramsLosePower
  <2> QED
      BY <1>k, <2>1, <2>3, <2>5, StrayKept
<1>5. ASSUME NEW n \in Machine, \/ ShutDown(n) \/ Reboot(n) \/ Probe(n)
                                \/ WorkerEnds(n) \/ StrayEnds(n)
      PROVE  StrayInv'
  <2>1. UNCHANGED <<task, link>> /\ strays' \subseteq strays
      BY <1>5 DEF ShutDown, Reboot, Probe, RestartUnchanged, WorkerEnds, StrayEnds
  <2>2. \A m \in Machine : worker'[m] = "running" => worker[m] = "running"
      BY <1>5 DEF ShutDown, Reboot, Probe, RestartUnchanged, WorkerEnds, StrayEnds, TypeInv
  <2> QED
      BY <1>k, <2>1, <2>2, StrayKept
<1>6. ASSUME NEW n \in Machine, Connect(n) PROVE StrayInv'
  <2>1. /\ task[n] = "running" /\ link[n] \in {"off", "pause"}
        /\ task' = task /\ link' = [link EXCEPT ![n] = "on"]
      BY <1>6 DEF Connect
  <2>2. \A m \in Machine : m # n => worker'[m] = worker[m]
      BY <1>6 DEF Connect, TypeInv
  <2>3. strays' = strays \/ (strays' = strays \cup {n} /\ worker[n] = "running")
      BY <1>6 DEF Connect
  <2>4. worker[n] = "running" => keepAlive[n]
      BY <2>1 DEF StrayInv
  <2> QED
      BY <1>k, <2>1, <2>2, <2>3, <2>4 DEF StrayInv, SecondWorkerIsKept, TypeInv
<1>7. ASSUME NEW n \in Machine, SshExits(n) \/ ConnectionLost(n) \/ SessionCancelled(n)
      PROVE  StrayInv'
  <2>1. \/ keepAlive[n] /\ link' = [link EXCEPT ![n] = "pause"] /\ task' = task
        \/ \E r \in {"returned", "failed", "cancelled"} : SessionEnds(n, r)
      BY <1>7 DEF SshExits, ConnectionLost, AfterSsh, SessionCancelled
  <2>2. UNCHANGED <<worker, strays>>
      BY <1>7 DEF SshExits, ConnectionLost, SessionCancelled
  <2>3. CASE keepAlive[n] /\ link' = [link EXCEPT ![n] = "pause"] /\ task' = task
      BY <1>k, <2>2, <2>3 DEF StrayInv, SecondWorkerIsKept, TypeInv
  <2>4. CASE \E r \in {"returned", "failed", "cancelled"} : SessionEnds(n, r)
    <3>1. PICK r \in {"returned", "failed", "cancelled"} : SessionEnds(n, r)
        BY <2>4
    <3>2. /\ link'[n] = "off" /\ task'[n] \notin {"absent", "running"}
          /\ \A m \in Machine \ {n} : task'[m] = task[m] /\ link'[m] = link[m]
        BY <3>1 DEF SessionEnds, MT!TaskEnds, TypeInv, P!MTInv, P!MTTypeOK
    <3>3. \A m \in Machine : link'[m] = "pause" => keepAlive'[m]
        BY <1>k, <3>2 DEF StrayInv
    <3>4. \A m \in Machine : task'[m] \in {"absent", "running"} /\ link'[m] = "off"
                                  => worker'[m] # "running"
        BY <2>2, <3>2 DEF StrayInv
    <3>5. SecondWorkerIsKept'
        BY <1>k, <2>2 DEF StrayInv, SecondWorkerIsKept, TypeInv
    <3> QED
        BY <3>3, <3>4, <3>5 DEF StrayInv
  <2> QED
      BY <2>1, <2>3, <2>4
<1> QED
    BY <1>1, <1>2, <1>3, <1>4, <1>5, <1>6, <1>7 DEF Next, Orchestrate

\* A second worker is started beside one that lost its connection only for a session
\* that DeviceControl keeps alive: every other session ends with its connection.
THEOREM SecondWorkersAreKept == Spec => []SecondWorkerIsKept
<1>1. Init => TypeInv /\ KeepInv /\ StrayInv
    BY InitType DEF Init, MT!MTInit, KeepInv, StrayInv, SecondWorkerIsKept
<1>2. TypeInv /\ KeepInv /\ StrayInv /\ [Next]_vars => TypeInv' /\ KeepInv' /\ StrayInv'
    BY NextType, NextKeep, NextStray
<1>3. StrayInv => SecondWorkerIsKept
    BY DEF StrayInv
<1> QED
    BY <1>1, <1>2, <1>3, PTL DEF Spec
=============================================================================
