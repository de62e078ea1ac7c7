----------------------------- MODULE WorkerProofs -----------------------------
(***************************************************************************)
(* Theorems about Worker for any setups and any number of starts, and      *)
(* their proofs.                                                           *)
(***************************************************************************)
EXTENDS Worker, TLAPS

B == INSTANCE MultiTaskProofs WITH Task <- BackgroundTask
D == INSTANCE MultiTaskProofs WITH Task <- Daemon, task <- inner, stack <- istack,
         ctl <- ictl, timed <- itimed, outcome <- ioutcome, stopFailed <- istopFailed

-----------------------------------------------------------------------------
(* The controller of the background tasks *)

LEMMA SameAdd == ASSUME NEW t, W!AddTask(t) PROVE B!AddTask(t)
BY DEF W!AddTask, B!AddTask

LEMMA SameEnds == ASSUME NEW t, NEW r, W!TaskEnds(t, r) PROVE B!TaskEnds(t, r)
BY DEF W!TaskEnds, B!TaskEnds, W!Alive, B!Alive, W!Over, B!Over

LEMMA SameRunFor == W!RunFor(FALSE, TRUE) => B!RunFor(FALSE, TRUE)
BY DEF W!RunFor, B!RunFor, W!Added, B!Added

LEMMA SameRunForEnds == ASSUME NEW o, W!RunForEnds(o) PROVE B!RunForEnds(o)
BY DEF W!RunForEnds, B!RunForEnds, W!WaitIsOver, B!WaitIsOver, W!Added, B!Added,
       W!Done, B!Done, W!Outcomes, B!Outcomes, W!Over, B!Over, W!StopFrom, B!StopFrom,
       W!Alive, B!Alive

LEMMA SameCancel == W!CancelPendingTasks => B!CancelPendingTasks
BY DEF W!CancelPendingTasks, B!CancelPendingTasks, W!StopFrom, B!StopFrom, W!Alive, B!Alive

LEMMA SameStopNext == W!StopNext => B!StopNext
BY DEF W!StopNext, B!StopNext, W!StopFrom, B!StopFrom, W!Alive, B!Alive, W!Over, B!Over

LEMMA OutcomeType == B!MTInv => W!Outcomes \subseteq B!Over
BY DEF W!Outcomes, W!Over, B!Over, W!Done, B!MTInv, B!MTTypeOK

\* What a step of the worker does to the controller of its background tasks.
BackgroundStep ==
    \/ \E t \in BackgroundTask : B!AddTask(t)
    \/ \E t \in BackgroundTask, r \in B!Over : B!TaskEnds(t, r)
    \/ B!RunFor(FALSE, TRUE)
    \/ \E o \in B!Over : B!RunForEnds(o)
    \/ B!CancelPendingTasks \/ B!StopNext
    \/ B!MTInit'
    \/ UNCHANGED tasks

LEMMA BackgroundInv == ASSUME B!MTInv, BackgroundStep PROVE B!MTInv'
<1>1. ASSUME NEW t \in BackgroundTask, B!AddTask(t) PROVE B!MTInv'
    BY <1>1, B!AddTaskInv
<1>2. ASSUME NEW t \in BackgroundTask, NEW r \in B!Over, B!TaskEnds(t, r) PROVE B!MTInv'
    BY <1>2, B!TaskEndsInv
<1>3. CASE B!RunFor(FALSE, TRUE)
    BY <1>3, B!RunForInv
<1>4. ASSUME (\E o \in B!Over : B!RunForEnds(o)) \/ B!CancelPendingTasks
      PROVE  B!MTInv'
    BY <1>4, B!StopInv
<1>5. CASE B!StopNext
    BY <1>5, B!StopNextInv
<1>6. CASE B!MTInit'
    BY <1>6, B!InitMT, PTL
<1>7. CASE UNCHANGED tasks
    BY <1>7 DEF tasks, B!MTInv, B!MTTypeOK, B!OnStack
<1> QED
    BY <1>1, <1>2, <1>3, <1>4, <1>5, <1>6, <1>7 DEF BackgroundStep

-----------------------------------------------------------------------------
(* The daemons, under the controller of their vendor or in its TaskGroup *)

LEMMA SetupStays == ASSUME [Next]_vars PROVE setup' = setup
BY DEF Next, Benchmark, StartWorker, Configure, StartService, StopService, ClockJump,
   AddBackgroundTask, Run, RunEnds, CancelNext, Exit, PowerCycle, SessionRestarts, Gone,
   Vendor, VendorNotBegun, VendorAdds, VendorWaits, VendorStops, VendorCancelled,
   VendorStopNext, VendorReturns, GroupFails, GroupEnds, InjectFault, FaultCancelled,
   MonitorEnds, LoadEnds, DaemonStarts, DaemonExits, DaemonCancelled, Stopped, Frame, vars

LEMMA DaemonAdd == ASSUME NEW d, V!AddTask(d) PROVE D!AddTask(d)
BY DEF V!AddTask, D!AddTask

LEMMA DaemonEnds == ASSUME NEW d, NEW r, V!TaskEnds(d, r) PROVE D!TaskEnds(d, r)
BY DEF V!TaskEnds, D!TaskEnds, V!Alive, D!Alive, V!Over, D!Over

LEMMA DaemonRunFor ==
    ASSUME NEW f \in BOOLEAN, V!RunFor(f, FALSE) PROVE D!RunFor(f, FALSE)
BY DEF V!RunFor, D!RunFor, V!Added, D!Added

LEMMA DaemonRunForEnds == ASSUME NEW o, V!RunForEnds(o) PROVE D!RunForEnds(o)
BY DEF V!RunForEnds, D!RunForEnds, V!WaitIsOver, D!WaitIsOver, V!Added, D!Added,
       V!Done, D!Done, V!Outcomes, D!Outcomes, V!Over, D!Over, V!StopFrom, D!StopFrom,
       V!Alive, D!Alive

LEMMA DaemonRunForCancelled == V!RunForCancelled => D!RunForCancelled
BY DEF V!RunForCancelled, D!RunForCancelled, V!StopFrom, D!StopFrom, V!Alive, D!Alive

LEMMA DaemonStopNext == V!StopNext => D!StopNext
BY DEF V!StopNext, D!StopNext, V!StopFrom, D!StopFrom, V!Alive, D!Alive, V!Over, D!Over

LEMMA DaemonOutcomeType == D!MTTypeOK => V!Outcomes \subseteq D!Over
BY DEF V!Outcomes, V!Over, D!Over, V!Done, D!MTTypeOK

\* The controller is left by its wait, or by its cancellation.
DaemonsStop == D!RunForCancelled \/ \E o \in D!Over : D!RunForEnds(o)

GroupAborted == \E result \in D!Over : GroupAborts(result)

\* A TaskGroup has come to its end.
GroupOver ==
    /\ InGroup /\ \A d \in Daemon : inner[d] \notin D!Alive
    /\ ictl' = "stopped" /\ ioutcome' \in {"none"} \cup D!Over /\ istopFailed' \in BOOLEAN
    /\ UNCHANGED <<inner, istack, itimed>>

DaemonStep ==
    \/ \E d \in Daemon : D!AddTask(d)
    \/ \E d \in Daemon, r \in D!Over : D!TaskEnds(d, r)
    \/ \E f \in BOOLEAN : D!RunFor(f, FALSE)
    \/ ~InGroup /\ (DaemonsStop \/ D!StopNext)
    \/ GroupAborted \/ GroupOver
    \/ D!MTInit'
    \/ UNCHANGED <<inner, istack, ictl, itimed, ioutcome, istopFailed>>

\* A group cancels its tasks only when it is aborted, and ends after them.
GroupInv ==
    /\ D!MTTypeOK
    /\ \A d \in Daemon : inner[d] = "cancelling" => ictl = "stopping"
    /\ ictl = "stopped" => \A d \in Daemon : inner[d] \notin D!Alive

DaemonsInv == IF InGroup THEN GroupInv ELSE D!MTInv

LEMMA DaemonsType == DaemonsInv => D!MTTypeOK
BY DEF DaemonsInv, GroupInv, D!MTInv

\* Whichever it is, a task is cancelled only in the stop, and none is left by it.
LEMMA DaemonsLeft ==
    ASSUME DaemonsInv, NEW d \in Daemon
    PROVE  /\ inner[d] = "cancelling" => ictl = "stopping"
           /\ ictl = "stopped" => inner[d] \notin D!Alive
<1>1. CASE InGroup
    BY <1>1 DEF DaemonsInv, GroupInv
<1>2. CASE ~InGroup
    BY <1>2, D!MTInvNothing DEF DaemonsInv, D!MTInv, D!NothingPending
<1> QED
    BY <1>1, <1>2

LEMMA ControllerInv == ASSUME D!MTInv, DaemonStep, ~InGroup PROVE D!MTInv'
<1>1. ASSUME NEW d \in Daemon, D!AddTask(d) PROVE D!MTInv'
    BY <1>1, D!AddTaskInv
<1>2. ASSUME NEW d \in Daemon, NEW r \in D!Over, D!TaskEnds(d, r) PROVE D!MTInv'
    BY <1>2, D!TaskEndsInv
<1>3. ASSUME NEW f \in BOOLEAN, D!RunFor(f, FALSE) PROVE D!MTInv'
    BY <1>3, D!RunForInv
<1>4. CASE DaemonsStop
    BY <1>4, D!StopInv DEF DaemonsStop
<1>5. CASE D!StopNext
    BY <1>5, D!StopNextInv
<1>6. CASE D!MTInit'
    BY <1>6, D!InitMT, PTL
<1>7. CASE UNCHANGED <<inner, istack, ictl, itimed, ioutcome, istopFailed>>
    BY <1>7 DEF D!MTInv, D!MTTypeOK, D!OnStack
<1> QED
    BY <1>1, <1>2, <1>3, <1>4, <1>5, <1>6, <1>7 DEF DaemonStep, GroupAborted, GroupAborts,
       GroupOver

LEMMA InitGroup == D!MTInit => GroupInv
BY D!InitMT DEF GroupInv, D!MTInv, D!MTInit, D!Alive

LEMMA InGroupInv == ASSUME GroupInv, DaemonStep, InGroup PROVE GroupInv'
<1> USE DEF GroupInv, D!MTTypeOK
<1>1. ASSUME NEW d \in Daemon, D!AddTask(d) PROVE GroupInv'
    BY <1>1 DEF D!AddTask, D!Alive
<1>2. ASSUME NEW d \in Daemon, NEW r \in D!Over, D!TaskEnds(d, r) PROVE GroupInv'
    BY <1>2 DEF D!TaskEnds, D!Alive, D!Over
<1>3. ASSUME NEW f \in BOOLEAN, D!RunFor(f, FALSE) PROVE GroupInv'
    BY <1>3 DEF D!RunFor
<1>4. CASE GroupAborted
  <2>1. PICK result \in D!Over : GroupAborts(result)
      BY <1>4 DEF GroupAborted
  <2>2. inner' \in [Daemon -> {"absent"} \cup D!Alive \cup D!Over]
      BY <2>1 DEF GroupAborts, V!Alive, D!Alive
  <2> QED
      BY <2>1, <2>2 DEF GroupAborts
<1>5. CASE GroupOver
    BY <1>5 DEF GroupOver, D!Alive
<1>6. CASE D!MTInit'
    BY <1>6, InitGroup, PTL
<1>7. CASE UNCHANGED <<inner, istack, ictl, itimed, ioutcome, istopFailed>>
    BY <1>7
<1> QED
    BY <1>1, <1>2, <1>3, <1>4, <1>5, <1>6, <1>7 DEF DaemonStep

LEMMA DaemonInv == ASSUME DaemonsInv, DaemonStep, setup' = setup PROVE DaemonsInv'
BY ControllerInv, InGroupInv DEF DaemonsInv, InGroup

-----------------------------------------------------------------------------
(* Types and phases *)

DaemonsAbsent == ictl = "idle" /\ \A d \in Daemon : inner[d] = "absent"

\* TypeOK, with the invariants of the controllers for their types.
TypeInv ==
    /\ pc \in {"down", "configuring", "synchronizing", "tracking", "jumping", "adding",
               "running", "cancelling", "exited"}
    /\ setup \in Setups /\ starts \in 0 .. MaxStarts /\ clockSets \in Nat
    /\ first \in BOOLEAN /\ success \in BOOLEAN /\ everRan \in BOOLEAN
    /\ service \in BOOLEAN /\ stuck \in BOOLEAN
    /\ B!MTInv /\ D!MTTypeOK /\ DaemonsInv
    /\ vpc \in {"none", "created", "waiting", "stopping", "ended"}
    /\ proc \in [Daemon -> {"none", "up", "killed", "paused"}]

\* Where the controllers are when benchmark() and run() are at their places.
PhaseInv ==
    /\ pc \in {"down", "configuring", "synchronizing", "tracking", "jumping"} =>
          ctl = "idle" /\ vpc = "none"
    /\ pc = "adding" => ctl = "idle" /\ vpc \in {"none", "created"} /\ DaemonsAbsent
    /\ pc = "running" => ctl = "first"
    /\ pc = "cancelling" => ctl \in {"stopping", "stopped"}
    /\ pc = "exited" => ctl = "stopped"
    /\ vpc = "none" => task["vendor"] = "absent" /\ DaemonsAbsent
    /\ vpc = "created" => ictl = "idle"
    /\ vpc = "waiting" => ictl \in {"first", "all"}
    /\ vpc = "stopping" => ictl \in {"stopping", "stopped"}
    /\ vpc = "ended" => ictl = "stopped" \/ DaemonsAbsent
    /\ vpc \in {"created", "waiting", "stopping"} => task["vendor"] \in {"running", "cancelling"}
    /\ \A d \in Daemon : proc[d] # "none" => inner[d] \in {"running", "cancelling"}

LEMMA TypeInvOK == TypeInv => TypeOK
BY DEF TypeInv, TypeOK, B!MTInv, B!MTTypeOK, W!MTTypeOK, B!Alive, W!Alive, B!Over, W!Over,
       D!MTTypeOK, V!MTTypeOK, D!Alive, V!Alive, D!Over, V!Over

LEMMA FreshDaemons == D!MTInit => D!MTTypeOK /\ DaemonsInv
BY D!InitMT, InitGroup DEF DaemonsInv, D!MTInv

LEMMA FreshType == Fresh => B!MTInv /\ D!MTTypeOK /\ DaemonsInv
<1> SUFFICES ASSUME Fresh PROVE B!MTInv /\ D!MTTypeOK /\ DaemonsInv
    OBVIOUS
<1>1. B!MTInit /\ D!MTInit
    BY DEF Fresh, W!MTInit, B!MTInit, V!MTInit, D!MTInit
<1> QED
    BY <1>1, B!InitMT, FreshDaemons

LEMMA InitType == Init => TypeInv /\ PhaseInv
<1> SUFFICES ASSUME Init PROVE TypeInv /\ PhaseInv
    OBVIOUS
<1>1. TypeInv
  <2>1. B!MTInv /\ D!MTTypeOK /\ DaemonsInv
      BY FreshType DEF Init
  <2>2. 0 \in 0 .. MaxStarts
      BY WorkerAssumption
  <2> QED
      BY <2>1, <2>2 DEF Init, Fresh, TypeInv
<1>2. PhaseInv
    BY DEF Init, Fresh, W!MTInit, V!MTInit, PhaseInv, DaemonsAbsent, BackgroundTask
<1> QED
    BY <1>1, <1>2

LEMMA GoneIsFresh == ASSUME Gone PROVE B!MTInit' /\ D!MTInit'
BY DEF Gone, B!MTInit, D!MTInit

\* The background tasks' part of an action.
LEMMA NextBackground ==
    ASSUME TypeInv, [Next]_vars
    PROVE  BackgroundStep
<1> USE DEF daemons, vendorTask, Frame
<1>1. CASE StartWorker \/ Exit \/ Stopped \/ UNCHANGED vars
    BY <1>1 DEF StartWorker, Exit, Stopped, vars, BackgroundStep, tasks
<1>2. CASE Configure \/ StartService \/ StopService \/ ClockJump
    BY <1>2, SameCancel DEF Configure, StartService, StopService, ClockJump, Fails, BackgroundStep
<1>3. ASSUME NEW t \in BackgroundTask, AddBackgroundTask(t) PROVE BackgroundStep
    BY <1>3, SameAdd DEF AddBackgroundTask, BackgroundStep
<1>4. CASE Run
    BY <1>4, SameRunFor DEF Run, BackgroundStep
<1>5. CASE RunEnds
    BY <1>5, OutcomeType, SameRunForEnds DEF RunEnds, BackgroundStep, TypeInv
<1>6. CASE CancelNext
    BY <1>6, SameStopNext DEF CancelNext, BackgroundStep
<1>7. CASE PowerCycle \/ SessionRestarts
    BY <1>7, GoneIsFresh DEF PowerCycle, SessionRestarts, BackgroundStep
<1>8. ASSUME NEW t \in {"iperf", "stress"}, LoadEnds(t) PROVE BackgroundStep
  <2>1. PICK r \in {"returned", "failed", "cancelled"} : W!TaskEnds(t, r)
      BY <1>8 DEF LoadEnds
  <2> QED
      BY <2>1, SameEnds DEF BackgroundStep, BackgroundTask, B!Over
<1>9. CASE MonitorEnds \/ FaultCancelled \/ InjectFault
  <2>1. \/ UNCHANGED tasks
        \/ \E t \in {"monitor", "fault"}, r \in {"returned", "failed", "cancelled"} :
              W!TaskEnds(t, r)
      BY <1>9 DEF MonitorEnds, FaultCancelled, InjectFault, tasks
  <2> QED
      BY <2>1, SameEnds DEF BackgroundStep, BackgroundTask, B!Over
<1>10. CASE VendorNotBegun \/ VendorReturns
  <2>1. \E r : W!TaskEnds("vendor", r)
      BY <1>10 DEF VendorNotBegun, VendorReturns, VendorEnds
  <2>2. PICK r : W!TaskEnds("vendor", r)
      BY <2>1
  <2>3. r \in B!Over
      BY <2>2 DEF W!TaskEnds, W!Over, B!Over
  <2> QED
      BY <2>2, <2>3, SameEnds DEF BackgroundStep, BackgroundTask
<1>11. CASE VendorWaits \/ VendorStops \/ VendorCancelled \/ VendorStopNext
            \/ GroupFails \/ GroupEnds \/ \E d \in Daemon : VendorAdds(d)
    BY <1>11 DEF VendorWaits, VendorStops, VendorCancelled, VendorStopNext, VendorAdds,
                 GroupFails, GroupEnds, BackgroundStep
<1>12. ASSUME NEW d \in Daemon, DaemonStarts(d) \/ DaemonExits(d) \/ DaemonCancelled(d)
       PROVE  BackgroundStep
    BY <1>12 DEF DaemonStarts, DaemonExits, DaemonCancelled, BackgroundStep
<1> QED
    BY <1>1, <1>2, <1>3, <1>4, <1>5, <1>6, <1>7, <1>8, <1>9, <1>10, <1>11, <1>12
    DEF Next, Benchmark, Vendor

\* The ways in which run() of a vendor comes to its end.
Stopping ==
    \/ ~InGroup /\ (DaemonsStop \/ D!StopNext)
    \/ GroupAborted \/ GroupOver

LEMMA VendorUnwinds ==
    ASSUME TypeInv,
           VendorStops \/ VendorCancelled \/ VendorStopNext \/ GroupFails \/ GroupEnds
    PROVE  Stopping
<1>1. CASE VendorStops
  <2>1. PICK o \in V!Outcomes : V!RunForEnds(o)
      BY <1>1 DEF VendorStops
  <2>2. o \in D!Over
      BY <2>1, DaemonOutcomeType DEF TypeInv
  <2> QED
      BY <1>1, <2>1, <2>2, DaemonRunForEnds DEF VendorStops, Stopping, DaemonsStop
<1>2. CASE VendorCancelled
    BY <1>2, DaemonRunForCancelled
    DEF VendorCancelled, Stopping, DaemonsStop, GroupAborted, D!Over, GroupAborts
<1>3. CASE VendorStopNext
    BY <1>3, DaemonStopNext DEF VendorStopNext, Stopping
<1>4. CASE GroupFails
    BY <1>4 DEF GroupFails, Stopping, GroupAborted, D!Over
<1>5. CASE GroupEnds
  <2>1. ioutcome' \in {"none"} \cup D!Over
      BY <1>5 DEF GroupEnds, TypeInv, D!MTTypeOK, D!Over
  <2>2. istopFailed' \in BOOLEAN
      BY <1>5 DEF GroupEnds
  <2> QED
      BY <1>5, <2>1, <2>2 DEF GroupEnds, GroupOver, Stopping, V!Alive, D!Alive
<1> QED
    BY <1>1, <1>2, <1>3, <1>4, <1>5

\* The daemons' part of an action.
LEMMA NextDaemons ==
    ASSUME TypeInv, PhaseInv, [Next]_vars
    PROVE  DaemonStep
<1> USE DEF daemons, vendorTask, Frame, TypeInv
<1>1. CASE Benchmark \/ Stopped \/ UNCHANGED vars
    BY <1>1 DEF Benchmark, StartWorker, Configure, StartService, StopService, ClockJump,
       AddBackgroundTask, Run, RunEnds, CancelNext, Exit, Stopped, vars, DaemonStep
<1>2. CASE PowerCycle \/ SessionRestarts
    BY <1>2, GoneIsFresh DEF PowerCycle, SessionRestarts, DaemonStep
<1>3. CASE MonitorEnds \/ FaultCancelled \/ InjectFault \/ \E t \in {"iperf", "stress"} : LoadEnds(t)
    BY <1>3 DEF MonitorEnds, FaultCancelled, InjectFault, LoadEnds, DaemonStep
<1>4. CASE VendorNotBegun \/ VendorReturns
    BY <1>4 DEF VendorNotBegun, VendorReturns, DaemonStep
<1>5. ASSUME NEW d \in Daemon, VendorAdds(d) PROVE DaemonStep
    BY <1>5, DaemonAdd DEF VendorAdds, DaemonStep
<1>6. CASE VendorWaits
    BY <1>6, DaemonRunFor DEF VendorWaits, DaemonStep
<1>7. CASE VendorStops \/ VendorCancelled \/ VendorStopNext \/ GroupFails \/ GroupEnds
  <2>1. Stopping
      BY <1>7, VendorUnwinds
  <2> QED
      BY <2>1 DEF Stopping, DaemonStep
<1>10. ASSUME NEW d \in Daemon, DaemonStarts(d) PROVE DaemonStep
    BY <1>10 DEF DaemonStarts, DaemonStep
<1>11. ASSUME NEW d \in Daemon, DaemonExits(d) \/ DaemonCancelled(d) PROVE DaemonStep
  <2>1. \/ UNCHANGED <<inner, istack, ictl, itimed, ioutcome, istopFailed>>
        \/ \E r \in {"returned", "failed", "cancelled"} : V!TaskEnds(d, r)
      BY <1>11 DEF DaemonExits, DaemonCancelled
  <2> QED
      BY <2>1, DaemonEnds DEF DaemonStep, D!Over
<1> QED
    BY <1>1, <1>2, <1>3, <1>4, <1>5, <1>6, <1>7, <1>10, <1>11 DEF Next, Vendor

\* What the vendor and its daemons may change.
LEMMA VendorKeepsType ==
    ASSUME TypeInv, B!MTInv', D!MTTypeOK', DaemonsInv', Frame, everRan' \in BOOLEAN,
           vpc' \in {"none", "created", "waiting", "stopping", "ended"},
           proc' \in [Daemon -> {"none", "up", "killed", "paused"}]
    PROVE  TypeInv'
BY DEF TypeInv, Frame, ntp

LEMMA NextType == TypeInv /\ PhaseInv /\ [Next]_vars => TypeInv'
<1> SUFFICES ASSUME TypeInv, PhaseInv, [Next]_vars PROVE TypeInv'
    OBVIOUS
<1>1. B!MTInv'
    BY NextBackground, BackgroundInv DEF TypeInv
<1>2. D!MTTypeOK' /\ DaemonsInv'
    BY NextDaemons, DaemonInv, SetupStays, DaemonsType, PTL DEF TypeInv
<1> USE <1>1, <1>2, WorkerAssumption DEF TypeInv, Frame, daemons, vendorTask, ntp
<1>3. CASE StartWorker
    BY <1>3 DEF StartWorker
<1>4. CASE Configure
    BY <1>4 DEF Configure, Fails
<1>5. CASE StartService
    BY <1>5 DEF StartService, Fails, ServiceStopped, StopRaises
<1>6. CASE StopService
    BY <1>6 DEF StopService, Fails, ServiceStopped, StopRaises
<1>7. CASE ClockJump
  <2>1. clockSets' = clockSets + 1 \/ clockSets' = clockSets
      BY <1>7 DEF ClockJump
  <2>2. clockSets' \in Nat
      BY <2>1
  <2>3. pc' \in {"adding", "cancelling"} /\ success' \in BOOLEAN
      BY <1>7 DEF ClockJump, Fails
  <2> QED
      BY <1>7, <2>2, <2>3 DEF ClockJump
<1>8. ASSUME NEW t \in BackgroundTask, AddBackgroundTask(t) PROVE TypeInv'
    BY <1>8 DEF AddBackgroundTask
<1>9. CASE Run \/ CancelNext
    BY <1>9 DEF Run, CancelNext
<1>10. CASE RunEnds
  <2>1. pc' = "cancelling" /\ success' \in BOOLEAN
      BY <1>10 DEF RunEnds
  <2> QED
      BY <1>10, <2>1 DEF RunEnds
<1>11. CASE Exit
  <2>1. pc' = "exited" /\ success' \in BOOLEAN
      BY <1>11 DEF Exit, B!MTInv, B!MTTypeOK
  <2> QED
      BY <1>11, <2>1 DEF Exit
<1>12. CASE PowerCycle \/ SessionRestarts
  <2>1. setup.atBoot \in BOOLEAN
      BY DEF Setup
  <2>2. service' \in BOOLEAN /\ stuck' \in BOOLEAN
      BY <1>12, <2>1 DEF PowerCycle, SessionRestarts
  <2> QED
      BY <1>12, <2>2 DEF PowerCycle, SessionRestarts, Gone
<1>t. /\ vpc \in {"none", "created", "waiting", "stopping", "ended"} /\ everRan \in BOOLEAN
      /\ proc \in [Daemon -> {"none", "up", "killed", "paused"}]
    OBVIOUS
<1> HIDE DEF TypeInv
<1>13. CASE VendorNotBegun \/ VendorReturns \/ VendorWaits \/ VendorStops \/ VendorCancelled
            \/ VendorStopNext \/ GroupFails \/ GroupEnds \/ \E d \in Daemon : VendorAdds(d)
  <2>1. vpc' \in {vpc, "waiting", "stopping", "ended"} /\ UNCHANGED <<proc, everRan>> /\ Frame
      BY <1>13 DEF VendorNotBegun, VendorReturns, VendorEnds, VendorWaits, VendorStops,
                   VendorCancelled, VendorStopNext, VendorAdds, GroupFails, GroupEnds
  <2> QED
      BY <1>1, <1>2, <1>t, <2>1, VendorKeepsType
<1>14. CASE InjectFault
  <2>1. proc' \in [Daemon -> {"none", "up", "killed", "paused"}]
      BY <1>14, <1>t DEF InjectFault, Kill
  <2>2. vpc' = vpc /\ everRan' = everRan /\ Frame
      BY <1>14 DEF InjectFault
  <2> QED
      BY <1>1, <1>2, <1>t, <2>1, <2>2, VendorKeepsType
<1>15. CASE FaultCancelled \/ MonitorEnds \/ \E t \in {"iperf", "stress"} : LoadEnds(t)
  <2>1. UNCHANGED <<vpc, proc, everRan>> /\ Frame
      BY <1>15 DEF FaultCancelled, MonitorEnds, LoadEnds
  <2> QED
      BY <1>1, <1>2, <1>t, <2>1, VendorKeepsType
<1>16. ASSUME NEW d \in Daemon, DaemonStarts(d) \/ DaemonExits(d) \/ DaemonCancelled(d)
       PROVE  TypeInv'
  <2>1. /\ proc' \in {[proc EXCEPT ![d] = "up"], [proc EXCEPT ![d] = "paused"],
                     [proc EXCEPT ![d] = "none"]}
        /\ everRan' \in {everRan, TRUE} /\ vpc' = vpc /\ Frame
      BY <1>16 DEF DaemonStarts, DaemonExits, DaemonCancelled
  <2>2. proc' \in [Daemon -> {"none", "up", "killed", "paused"}]
      BY <1>t, <2>1
  <2> QED
      BY <1>1, <1>2, <1>t, <2>1, <2>2, VendorKeepsType
<1>17. CASE Stopped \/ UNCHANGED vars
    BY <1>17 DEF Stopped, vars, tasks, TypeInv
<1> QED
    BY <1>3, <1>4, <1>5, <1>6, <1>7, <1>8, <1>9, <1>10, <1>11, <1>12, <1>13, <1>14, <1>15,
       <1>16, <1>17
    DEF Next, Benchmark, Vendor

\* The stop of the background tasks begins or goes on.
LEMMA StopPhase ==
    ASSUME TypeInv,
           (\E o \in B!Over : B!RunForEnds(o)) \/ B!RunForCancelled \/ B!CancelPendingTasks
              \/ B!StopNext
    PROVE  /\ ctl' \in {"stopping", "stopped"}
           /\ task["vendor"] = "absent" => task'["vendor"] = "absent"
           /\ task["vendor"] \in {"running", "cancelling"} =>
                 task'["vendor"] \in {"running", "cancelling"}
<1>1. ctl' \in {"stopping", "stopped"}
    BY DEF B!RunForEnds, B!RunForCancelled, B!CancelPendingTasks, B!StopNext, B!StopFrom
<1>2. \A t \in BackgroundTask : task'[t] = task[t] \/ (task[t] \in B!Alive /\ task'[t] = "cancelling")
    BY B!StopFate DEF TypeInv
<1> QED
    BY <1>1, <1>2 DEF B!Alive, BackgroundTask

\* That of the daemons.
LEMMA DaemonsStopFate ==
    ASSUME TypeInv, Stopping, NEW d \in Daemon
    PROVE  inner'[d] = inner[d] \/ (inner[d] \in D!Alive /\ inner'[d] = "cancelling")
<1>1. CASE ~InGroup /\ (DaemonsStop \/ D!StopNext)
    BY <1>1, D!StopFate DEF DaemonsStop, TypeInv, DaemonsInv
<1>2. CASE GroupAborted \/ GroupOver
    BY <1>2 DEF GroupAborted, GroupAborts, GroupOver, V!Alive, D!Alive
<1> QED
    BY <1>1, <1>2 DEF Stopping

LEMMA DaemonsStopPhase ==
    ASSUME TypeInv, PhaseInv, Stopping
    PROVE  /\ ictl' \in {"stopping", "stopped"}
           /\ \A d \in Daemon : /\ inner[d] \in {"running", "cancelling"} =>
                                       inner'[d] \in {"running", "cancelling"}
                                /\ inner[d] \notin {"running", "cancelling"} => inner'[d] = inner[d]
<1>1. ictl' \in {"stopping", "stopped"}
    BY DEF Stopping, DaemonsStop, D!RunForEnds, D!RunForCancelled, D!StopNext, D!StopFrom,
       GroupAborted, GroupAborts, GroupOver
<1> QED
    BY <1>1, DaemonsStopFate DEF D!Alive

\* Actions of benchmark() that stop its tasks leave the vendor where it is.
LEMMA StopKeepsPhase ==
    ASSUME TypeInv, PhaseInv, UNCHANGED <<vpc, daemons>>, pc' = "cancelling",
           (\E o \in B!Over : B!RunForEnds(o)) \/ B!RunForCancelled \/ B!CancelPendingTasks
              \/ B!StopNext
    PROVE  PhaseInv'
BY StopPhase DEF PhaseInv, DaemonsAbsent, daemons

\* Other tasks than the vendor's end.
LEMMA OthersKeepPhase ==
    ASSUME TypeInv, PhaseInv, UNCHANGED <<pc, vpc, inner, ictl, ctl>>, task'["vendor"] = task["vendor"],
           \A d \in Daemon : proc'[d] # "none" => proc[d] # "none" \/ inner[d] = "running"
    PROVE  PhaseInv'
BY DEF PhaseInv, DaemonsAbsent

LEMMA NextPhase == TypeInv /\ PhaseInv /\ [Next]_vars => PhaseInv'
<1> SUFFICES ASSUME TypeInv, PhaseInv, [Next]_vars PROVE PhaseInv'
    OBVIOUS
<1> USE DEF Frame, daemons, vendorTask
<1>1. CASE StartWorker
    BY <1>1 DEF StartWorker, PhaseInv, tasks, DaemonsAbsent
<1>2. CASE Configure \/ StartService \/ StopService \/ ClockJump
  <2>1. CASE Fails
    <3>1. B!CancelPendingTasks /\ pc' = "cancelling"
        BY <2>1, SameCancel DEF Fails
    <3>2. UNCHANGED <<vpc, daemons>>
        BY <1>2 DEF Configure, StartService, StopService, ClockJump
    <3> QED
        BY <3>1, <3>2, StopKeepsPhase
  <2>2. CASE ~Fails
    <3>1. /\ pc \in {"configuring", "synchronizing", "tracking", "jumping"}
          /\ pc' \in {"synchronizing", "tracking", "jumping", "adding"}
          /\ UNCHANGED <<tasks, vpc, daemons>>
        BY <1>2, <2>2 DEF Configure, StartService, StopService, ClockJump
    <3> QED
        BY <3>1 DEF PhaseInv, tasks, DaemonsAbsent
  <2> QED
      BY <2>1, <2>2
<1>3. ASSUME NEW t \in BackgroundTask, AddBackgroundTask(t) PROVE PhaseInv'
  <2>1. /\ task' = [task EXCEPT ![t] = "running"] /\ ctl' = ctl /\ task[t] = "absent"
        /\ pc = "adding" /\ UNCHANGED <<pc, daemons>>
        /\ vpc' = IF t = "vendor" THEN "created" ELSE vpc
      BY <1>3 DEF AddBackgroundTask, W!AddTask
  <2>2. task'["vendor"] = IF t = "vendor" THEN "running" ELSE task["vendor"]
      BY <2>1 DEF TypeInv, B!MTInv, B!MTTypeOK, BackgroundTask
  <2> QED
      BY <2>1, <2>2 DEF PhaseInv, DaemonsAbsent
<1>4. CASE Run
    BY <1>4 DEF Run, W!RunFor, PhaseInv, DaemonsAbsent
<1>5. CASE RunEnds
    BY <1>5, OutcomeType, SameRunForEnds, StopKeepsPhase DEF RunEnds, TypeInv
<1>6. CASE CancelNext
    BY <1>6, SameStopNext, StopKeepsPhase DEF CancelNext
<1>7. CASE Exit
    BY <1>7 DEF Exit, PhaseInv, tasks, DaemonsAbsent
<1>8. CASE PowerCycle \/ SessionRestarts
    BY <1>8 DEF PowerCycle, SessionRestarts, Gone, PhaseInv, BackgroundTask, DaemonsAbsent
<1>9. CASE \/ MonitorEnds \/ FaultCancelled \/ InjectFault
           \/ \E t \in {"iperf", "stress"} : LoadEnds(t)
  <2>1. UNCHANGED <<pc, vpc, inner, ictl>>
      BY <1>9 DEF MonitorEnds, FaultCancelled, InjectFault, LoadEnds
  <2>2. \A d \in Daemon : proc'[d] # "none" => proc[d] # "none"
      BY <1>9 DEF MonitorEnds, FaultCancelled, InjectFault, LoadEnds, Kill, Refuses, TypeInv
  <2>3. UNCHANGED tasks \/ \E t \in {"iperf", "stress", "monitor", "fault"} : \E r : W!TaskEnds(t, r)
      BY <1>9 DEF MonitorEnds, FaultCancelled, InjectFault, LoadEnds
  <2>4. ctl' = ctl /\ task'["vendor"] = task["vendor"]
      BY <2>3 DEF W!TaskEnds, tasks, TypeInv, B!MTInv, B!MTTypeOK, BackgroundTask
  <2> QED
      BY <2>1, <2>2, <2>4, OthersKeepPhase
<1>10. ASSUME NEW d \in Daemon, DaemonStarts(d) PROVE PhaseInv'
    BY <1>10, OthersKeepPhase DEF DaemonStarts, tasks, TypeInv
<1>11. ASSUME NEW d \in Daemon, DaemonExits(d) \/ DaemonCancelled(d) PROVE PhaseInv'
  <2>1. CASE UNCHANGED inner
      BY <1>11, <2>1, OthersKeepPhase DEF DaemonExits, DaemonCancelled, tasks, TypeInv, V!TaskEnds
  <2>2. CASE ~UNCHANGED inner
    <3>1. /\ proc' = [proc EXCEPT ![d] = "none"] /\ UNCHANGED <<pc, vpc, tasks>>
          /\ \E r : V!TaskEnds(d, r)
        BY <1>11, <2>2 DEF DaemonExits, DaemonCancelled
    <3>2. /\ ictl' = ictl /\ inner[d] \in {"running", "cancelling"}
          /\ \A e \in Daemon \ {d} : inner'[e] = inner[e] /\ proc'[e] = proc[e]
        BY <3>1 DEF V!TaskEnds, V!Alive, TypeInv, D!MTTypeOK
    <3>3. proc'[d] = "none" /\ ~DaemonsAbsent
        BY <3>1, <3>2 DEF TypeInv, DaemonsAbsent
    <3> QED
        BY <3>1, <3>2, <3>3 DEF PhaseInv, tasks
  <2> QED
      BY <2>1, <2>2
<1>12. ASSUME NEW d \in Daemon, VendorAdds(d) PROVE PhaseInv'
  <2>1. /\ pc \in {"running", "cancelling"} /\ vpc = "created" /\ UNCHANGED <<pc, vpc, tasks, proc>>
        /\ ictl' = ictl /\ inner' = [inner EXCEPT ![d] = "running"]
      BY <1>12 DEF VendorAdds, MayAdd, EventLoop, V!AddTask
  <2>2. \A e \in Daemon : inner[e] \in {"running", "cancelling"} =>
                              inner'[e] \in {"running", "cancelling"}
      BY <2>1 DEF TypeInv, D!MTTypeOK
  <2> QED
      BY <2>1, <2>2 DEF PhaseInv, tasks
<1>13. CASE VendorWaits
    BY <1>13 DEF VendorWaits, V!RunFor, PhaseInv, EventLoop, tasks
<1>14. CASE VendorStops \/ VendorCancelled \/ VendorStopNext \/ GroupFails \/ GroupEnds
  <2>1. Stopping
      BY <1>14, VendorUnwinds
  <2>2. /\ pc \in {"running", "cancelling"} /\ vpc \in {"created", "waiting", "stopping"}
        /\ vpc' = "stopping" /\ UNCHANGED <<pc, tasks, proc>>
      BY <1>14 DEF VendorStops, VendorCancelled, VendorStopNext, GroupFails, GroupEnds,
         GroupAborts, EventLoop
  <2> QED
      BY <2>1, <2>2, DaemonsStopPhase DEF PhaseInv, tasks
<1>15. CASE VendorNotBegun \/ VendorReturns
  <2>1. /\ pc \in {"running", "cancelling"} /\ vpc' = "ended" /\ UNCHANGED <<pc, daemons, ctl>>
      BY <1>15 DEF VendorNotBegun, VendorReturns, VendorEnds, EventLoop, W!TaskEnds
  <2>2. ictl = "stopped" \/ DaemonsAbsent
      BY <1>15 DEF VendorNotBegun, VendorReturns, V!Added, DaemonsAbsent, PhaseInv, TypeInv
  <2> QED
      BY <2>1, <2>2 DEF PhaseInv, DaemonsAbsent
<1>16. CASE Stopped \/ UNCHANGED vars
    BY <1>16, OthersKeepPhase DEF Stopped, vars, tasks
<1> QED
    BY <1>1, <1>2, <1>3, <1>4, <1>5, <1>6, <1>7, <1>8, <1>9, <1>10, <1>11, <1>12, <1>13,
       <1>14, <1>15, <1>16
    DEF Next, Benchmark, Vendor

LEMMA Phases == Spec => [](TypeInv /\ PhaseInv)
<1>1. Init => TypeInv /\ PhaseInv
    BY InitType
<1>2. TypeInv /\ PhaseInv /\ [Next]_vars => (TypeInv /\ PhaseInv)'
    BY NextType, NextPhase
<1> QED
    BY <1>1, <1>2, PTL DEF Spec

\* The restart count never passes the number of starts, and the controllers, the
\* vendor and its processes are where benchmark() and run() can have left them.
THEOREM TypeCorrect == Spec => []TypeOK
<1>1. TypeInv => TypeOK
    BY TypeInvOK
<1> QED
    BY <1>1, Phases, PTL

-----------------------------------------------------------------------------
(* What is left at the end *)

\* When benchmark() is over all its background tasks are: however they ended, the
\* exit stack was unwound to its bottom before the program exits.
THEOREM NoTaskOutlives == Spec => []ExitsAlone
<1>1. TypeInv /\ PhaseInv => ExitsAlone
  <2> SUFFICES ASSUME TypeInv, PhaseInv, pc = "exited", NEW t \in BackgroundTask
               PROVE  task[t] \notin W!Alive
      BY DEF ExitsAlone
  <2>1. B!NothingPending /\ ctl = "stopped"
      BY B!MTInvNothing DEF TypeInv, PhaseInv
  <2> QED
      BY <2>1 DEF B!NothingPending, B!Alive, W!Alive
<1> QED
    BY <1>1, Phases, PTL

\* When the vendor's run() is over no daemon is left, and none is left when the
\* program exits: the vendor's task is one of those the program waits for.
THEOREM NoDaemonOutlives == Spec => []DaemonsEndWithVendor
<1>1. TypeInv /\ PhaseInv => DaemonsEndWithVendor
  <2> SUFFICES ASSUME TypeInv, PhaseInv, vpc = "ended" \/ pc = "exited", NEW d \in Daemon
               PROVE  proc[d] = "none" /\ inner[d] \notin V!Alive
      BY DEF DaemonsEndWithVendor
  <2>1. vpc \in {"none", "ended"}
    <3>1. CASE pc = "exited"
      <4>1. task["vendor"] \notin {"running", "cancelling"}
          BY <3>1, B!MTInvNothing
          DEF TypeInv, PhaseInv, B!NothingPending, B!Alive, BackgroundTask
      <4> QED
          BY <4>1 DEF TypeInv, PhaseInv
    <3> QED
        BY <3>1
  <2>2. ictl = "stopped" \/ DaemonsAbsent
      BY <2>1 DEF PhaseInv
  <2>3. inner[d] \notin {"running", "cancelling"}
      BY <2>2, DaemonsLeft DEF TypeInv, DaemonsAbsent, D!Alive
  <2> QED
      BY <2>3 DEF PhaseInv, V!Alive
<1> QED
    BY <1>1, Phases, PTL

-----------------------------------------------------------------------------
(* Who disciplines the clock *)

\* The first start stops the service before its tasks are added, and a later one
\* finds it only where the machine boots with it or it could not be stopped.
ServiceInv ==
    /\ starts = 0 => pc = "down"
    /\ pc \in {"synchronizing", "tracking", "jumping"} => first
    /\ ~setup.supported => pc \in {"down", "configuring", "cancelling", "exited"}
    /\ ~setup.supported => vpc = "none"
    /\ service /\ first => pc \notin {"jumping", "adding"} /\ vpc = "none"
    /\ service =>
          \/ setup.atBoot \/ stuck \/ starts = 0 \/ ~setup.supported
          \/ first /\ pc \in {"configuring", "synchronizing", "tracking"}

LEMMA NextService == TypeInv /\ PhaseInv /\ ServiceInv /\ [Next]_vars => ServiceInv'
<1> SUFFICES ASSUME TypeInv, PhaseInv, ServiceInv, [Next]_vars PROVE ServiceInv'
    OBVIOUS
<1> USE DEF ServiceInv, Frame, daemons, vendorTask, ntp
<1>1. CASE StartWorker
  <2>1. starts' # 0
      BY <1>1, WorkerAssumption DEF StartWorker, TypeInv
  <2> QED
      BY <1>1, <2>1 DEF StartWorker, PhaseInv
<1>2. CASE Configure \/ ClockJump
    BY <1>2 DEF Configure, ClockJump, Fails
<1>3. CASE StartService \/ StopService
  <2>1. vpc = "none"
      BY <1>3 DEF StartService, StopService, PhaseInv
  <2> QED
      BY <1>3, <2>1 DEF StartService, StopService, Fails, ServiceStopped, StopRaises
<1>4. CASE Run \/ RunEnds \/ CancelNext \/ Exit \/ \E t \in BackgroundTask : AddBackgroundTask(t)
  <2>1. /\ UNCHANGED <<setup, starts, first, ntp>> /\ starts # 0
        /\ pc' \in {"adding", "running", "cancelling", "exited"}
        /\ pc' = "adding" => pc = "adding"
        /\ pc \in {"running", "cancelling"} => pc' \in {"cancelling", "exited"}
        /\ pc \in {"adding", "running", "cancelling"}
      BY <1>4 DEF Run, RunEnds, CancelNext, Exit, AddBackgroundTask
  <2>2. vpc' = vpc \/ pc = "adding"
      BY <1>4 DEF Run, RunEnds, CancelNext, Exit, AddBackgroundTask
  <2> QED
      BY <2>1, <2>2
<1>5. CASE PowerCycle \/ SessionRestarts
    BY <1>5 DEF PowerCycle, SessionRestarts, Gone
<1>6. CASE Vendor
  <2>1. UNCHANGED <<pc, setup, starts, first, ntp>> /\ pc \notin {"jumping", "adding"}
      BY <1>6 DEF Vendor, VendorNotBegun, VendorAdds, MayAdd, VendorWaits, VendorStops,
         VendorCancelled, VendorStopNext, VendorReturns, GroupFails, GroupEnds, EventLoop
  <2>2. vpc = "none" => vpc' = "none"
      BY <1>6 DEF Vendor, VendorNotBegun, VendorAdds, MayAdd, VendorWaits, VendorStops,
         VendorCancelled, VendorStopNext, VendorReturns, GroupFails, GroupEnds, GroupAborts,
         PhaseInv
  <2> QED
      BY <2>1, <2>2
<1>7. CASE \/ InjectFault \/ FaultCancelled \/ MonitorEnds
           \/ \E t \in {"iperf", "stress"} : LoadEnds(t)
    BY <1>7 DEF InjectFault, FaultCancelled, MonitorEnds, LoadEnds
<1>8. CASE \E d \in Daemon : DaemonStarts(d) \/ DaemonExits(d) \/ DaemonCancelled(d)
    BY <1>8 DEF DaemonStarts, DaemonExits, DaemonCancelled
<1>9. CASE Stopped \/ UNCHANGED vars
    BY <1>9 DEF Stopped, vars
<1> QED
    BY <1>1, <1>2, <1>3, <1>4, <1>5, <1>6, <1>7, <1>8, <1>9 DEF Next, Benchmark

\* The daemon of the vendor runs beside the chrony service only in a start that has
\* skipped the synchronization, on a machine that boots with the service or whose
\* service an earlier start could not stop, wherever power is lost and however often
\* the session starts the program again.
THEOREM ClockHasOneMaster == Spec => []OneDiscipline
<1>1. Init => ServiceInv
    BY DEF Init, Fresh, ServiceInv
<1>2. TypeInv /\ PhaseInv /\ ServiceInv => OneDiscipline
  <2> SUFFICES ASSUME TypeInv, PhaseInv, ServiceInv, proc["main"] = "up", service
               PROVE  ~first /\ (setup.atBoot \/ stuck)
      BY DEF OneDiscipline
  <2>1. vpc # "none"
      BY DEF PhaseInv, DaemonsAbsent, Daemon
  <2>2. pc \notin {"down", "configuring", "synchronizing", "tracking"}
      BY <2>1 DEF PhaseInv
  <2> QED
      BY <2>1, <2>2 DEF ServiceInv
<1> QED
    BY <1>1, <1>2, NextService, Phases, PTL DEF Spec

-----------------------------------------------------------------------------
(* When the clock is set *)

\* Only the first start gets to the clock, and nothing has run before it.
ClockInv ==
    /\ pc \in {"synchronizing", "tracking", "jumping"} => first
    /\ first /\ pc \in {"configuring", "synchronizing", "tracking", "jumping"} => clockSets = 0 /\ ~everRan
    /\ starts = 0 => clockSets = 0 /\ ~everRan
    /\ pc # "down" => starts >= 1

LEMMA NextClock == TypeInv /\ ClockInv /\ [Next]_vars => ClockInv'
<1> SUFFICES ASSUME TypeInv, ClockInv, [Next]_vars PROVE ClockInv'
    OBVIOUS
<1> USE DEF ClockInv, Frame, daemons, vendorTask
<1>0. starts \in Nat
    BY WorkerAssumption DEF TypeInv
<1>1. CASE StartWorker
  <2>1. starts' = starts + 1 /\ first' = (starts = 0) /\ pc' = "configuring"
        /\ UNCHANGED <<clockSets, everRan>>
      BY <1>1 DEF StartWorker
  <2>2. starts' >= 1 /\ starts' # 0
      BY <2>1, <1>0
  <2> QED
      BY <2>1, <2>2
<1>2. CASE Configure
    BY <1>2 DEF Configure, Fails
<1>3. CASE StartService \/ StopService
    BY <1>3 DEF StartService, StopService, Fails
<1>4. CASE ClockJump
  <2>1. pc' \in {"adding", "cancelling"} /\ UNCHANGED <<starts, first>> /\ pc = "jumping"
      BY <1>4 DEF ClockJump, Fails
  <2>2. starts' # 0
      BY <2>1, <1>0
  <2> QED
      BY <2>1, <2>2
<1>5. CASE Run \/ RunEnds \/ CancelNext \/ Exit \/ \E t \in BackgroundTask : AddBackgroundTask(t)
  <2>1. /\ pc # "down" /\ pc' \in {"adding", "running", "cancelling", "exited"}
        /\ UNCHANGED <<starts, first, clockSets, everRan>>
      BY <1>5 DEF Run, RunEnds, CancelNext, Exit, AddBackgroundTask
  <2> QED
      BY <2>1, <1>0
<1>6. CASE PowerCycle \/ SessionRestarts
    BY <1>6 DEF PowerCycle, SessionRestarts, Gone
<1>7. CASE Vendor
  <2>1. UNCHANGED <<pc, starts, first, clockSets, everRan>>
      BY <1>7 DEF Vendor, VendorNotBegun, VendorAdds, VendorWaits, VendorStops,
         VendorCancelled, VendorStopNext, VendorReturns, GroupFails, GroupEnds
  <2> QED
      BY <2>1, <1>0
<1>8. CASE \/ InjectFault \/ FaultCancelled \/ MonitorEnds
           \/ \E t \in {"iperf", "stress"} : LoadEnds(t)
    BY <1>8 DEF InjectFault, FaultCancelled, MonitorEnds, LoadEnds
<1>9. ASSUME NEW d \in Daemon, DaemonStarts(d) PROVE ClockInv'
  <2>1. pc \in {"running", "cancelling"} /\ UNCHANGED <<pc, starts, first, clockSets>>
      BY <1>9 DEF DaemonStarts, EventLoop
  <2>2. starts # 0
      BY <2>1, <1>0
  <2> QED
      BY <2>1, <2>2
<1>10. CASE \E d \in Daemon : DaemonExits(d) \/ DaemonCancelled(d)
    BY <1>10 DEF DaemonExits, DaemonCancelled
<1>11. CASE Stopped \/ UNCHANGED vars
    BY <1>11 DEF Stopped, vars
<1> QED
    BY <1>1, <1>2, <1>3, <1>4, <1>5, <1>6, <1>7, <1>8, <1>9, <1>10, <1>11 DEF Next, Benchmark

\* The clock is set at most once, and not after a daemon has run, whenever the
\* machine loses power and however often the program is started again.
THEOREM ClockIsLeftAlone == Spec => ClockSetFirst
<1>1. Init => ClockInv
    BY DEF Init, ClockInv
<1>2. ClockInv /\ [Next]_vars => [clockSets' # clockSets => clockSets = 0 /\ ~everRan]_vars
  <2> SUFFICES ASSUME ClockInv, Next, clockSets' # clockSets PROVE clockSets = 0 /\ ~everRan
      BY DEF vars
  <2>1. ClockJump
    <3> USE DEF Frame
    <3>1. CASE Benchmark
        BY <3>1 DEF Benchmark, StartWorker, Configure, StartService, StopService,
           AddBackgroundTask, Run, RunEnds, CancelNext, Exit
    <3>2. CASE PowerCycle \/ SessionRestarts \/ InjectFault \/ FaultCancelled \/ MonitorEnds
               \/ Stopped \/ \E t \in {"iperf", "stress"} : LoadEnds(t)
        BY <3>2 DEF PowerCycle, SessionRestarts, Gone, InjectFault, FaultCancelled, MonitorEnds, Stopped, LoadEnds, vars
    <3>3. CASE Vendor \/ \E d \in Daemon : DaemonStarts(d) \/ DaemonExits(d) \/ DaemonCancelled(d)
        BY <3>3 DEF Vendor, VendorNotBegun, VendorAdds, VendorWaits, VendorStops,
           VendorCancelled, VendorStopNext, VendorReturns, GroupFails, GroupEnds,
           DaemonStarts, DaemonExits, DaemonCancelled
    <3> QED
        BY <3>1, <3>2, <3>3 DEF Next
  <2> QED
      BY <2>1 DEF ClockJump, ClockInv
<1> QED
    BY <1>1, <1>2, NextClock, Phases, PTL DEF Spec, ClockSetFirst

-----------------------------------------------------------------------------
(* The vendor survives the faults *)

\* run() of a vendor that is kept alive waits, and only the tail of Chrony makes it
\* stop before the time of the benchmark is over.
KeepInv ==
    /\ itimed = FALSE
    /\ vpc = "waiting" => /\ ictl = IF setup.kind = "linuxptp" THEN "first" ELSE "all"
                          /\ inner["main"] # "absent"
    /\ setup.keep /\ pc = "running" =>
          IF vpc \in {"stopping", "ended"}
          THEN setup.kind = "chrony" /\ inner["aux"] = "failed"
          ELSE \A d \in Daemon : inner[d] \in D!Over => ~Kept(d)

LEMMA NextKeep == TypeInv /\ PhaseInv /\ KeepInv /\ [Next]_vars => KeepInv'
<1> SUFFICES ASSUME TypeInv, PhaseInv, KeepInv, [Next]_vars PROVE KeepInv'
    OBVIOUS
<1> USE DEF KeepInv, Frame, daemons, vendorTask, Kept
<1>1. CASE StartWorker \/ Configure \/ StartService \/ StopService \/ ClockJump
           \/ \E t \in BackgroundTask : AddBackgroundTask(t)
  <2>1. /\ pc # "running" /\ pc' # "running" /\ UNCHANGED <<setup, daemons>>
        /\ vpc' = vpc \/ vpc' = "created"
      BY <1>1 DEF StartWorker, Configure, StartService, StopService, ClockJump, Fails,
         AddBackgroundTask
  <2> QED
      BY <2>1
<1>2. CASE Run
  <2>1. /\ vpc \in {"none", "created"} /\ DaemonsAbsent /\ UNCHANGED <<setup, vpc, daemons>>
      BY <1>2 DEF Run, PhaseInv
  <2> QED
      BY <2>1 DEF DaemonsAbsent, D!Over
<1>3. CASE RunEnds \/ CancelNext \/ Exit
    BY <1>3 DEF RunEnds, CancelNext, Exit
<1>4. CASE PowerCycle \/ SessionRestarts
    BY <1>4 DEF PowerCycle, SessionRestarts, Gone
<1>5. CASE \/ InjectFault \/ FaultCancelled \/ MonitorEnds
           \/ \E t \in {"iperf", "stress"} : LoadEnds(t)
    BY <1>5 DEF InjectFault, FaultCancelled, MonitorEnds, LoadEnds
<1>6. ASSUME NEW d \in Daemon, DaemonStarts(d) PROVE KeepInv'
    BY <1>6 DEF DaemonStarts
<1>7. ASSUME NEW d \in Daemon, DaemonExits(d) \/ DaemonCancelled(d) PROVE KeepInv'
  <2>1. /\ UNCHANGED <<pc, vpc, setup, itimed, ictl>> /\ inner[d] \in {"running", "cancelling"}
        /\ \A e \in Daemon \ {d} : inner'[e] = inner[e]
        /\ UNCHANGED inner \/ (~Kept(d) /\ inner[d] = "running") \/ inner[d] = "cancelling"
      BY <1>7 DEF DaemonExits, DaemonCancelled, V!TaskEnds, TypeInv, D!MTTypeOK
  <2>2. inner'["main"] = "absent" => inner["main"] = "absent"
    <3>1. CASE \E r : V!TaskEnds(d, r)
      <4>1. inner'[d] # "absent"
          BY <3>1 DEF V!TaskEnds, V!Over, TypeInv, D!MTTypeOK
      <4> QED
          BY <2>1, <4>1 DEF Daemon
    <3>2. CASE UNCHANGED inner
        BY <3>2
    <3> QED
        BY <1>7, <3>1, <3>2 DEF DaemonExits, DaemonCancelled
  <2>3. inner[d] = "cancelling" => vpc \in {"stopping", "ended"}
      BY DaemonsLeft DEF TypeInv, PhaseInv, DaemonsAbsent
  <2>4. inner["aux"] = "failed" => inner'["aux"] = "failed"
      BY <2>1 DEF Daemon
  <2> QED
      BY <2>1, <2>2, <2>3, <2>4
<1>8. ASSUME NEW d \in Daemon, VendorAdds(d) PROVE KeepInv'
  <2>1. /\ UNCHANGED <<pc, vpc, setup, itimed>> /\ vpc = "created"
        /\ inner' = [inner EXCEPT ![d] = "running"]
      BY <1>8 DEF VendorAdds, MayAdd, V!AddTask
  <2>2. \A e \in Daemon : inner'[e] \in D!Over => inner[e] \in D!Over
      BY <2>1 DEF TypeInv, D!MTTypeOK, D!Over
  <2> QED
      BY <2>1, <2>2
<1>9. CASE VendorWaits
  <2>1. "main" \in WantedDaemons /\ inner["main"] # "absent"
      BY <1>9 DEF VendorWaits, V!Added, WantedDaemons, Daemon
  <2> QED
      BY <1>9, <2>1 DEF VendorWaits, V!RunFor
<1>10. CASE VendorStops
  <2>1. /\ vpc = "waiting" /\ vpc' = "stopping" /\ ~InGroup
        /\ UNCHANGED <<pc, setup, itimed>> /\ V!WaitIsOver
      BY <1>10 DEF VendorStops, V!RunForEnds
  <2>2. ASSUME setup.keep, pc = "running" PROVE FALSE
    <3>1. \A d \in Daemon : inner[d] \in D!Over => ~Kept(d)
        BY <2>1, <2>2
    <3>2. "main" \notin V!Done
        BY <2>2, <3>1 DEF V!Done, V!Over, D!Over
    <3>3. CASE setup.kind = "linuxptp"
        BY <2>1, <3>3, <2>2, <3>1 DEF V!WaitIsOver, V!Done, V!Over, D!Over
    <3>4. CASE setup.kind # "linuxptp"
        BY <2>1, <3>4, <3>2 DEF V!WaitIsOver, V!Added, Daemon
    <3> QED
        BY <3>3, <3>4
  <2> QED
      BY <2>1, <2>2
<1>14. CASE GroupFails
  <2>1. /\ vpc \in {"created", "waiting"} /\ vpc' = "stopping" /\ InGroup
        /\ UNCHANGED <<pc, setup, itimed>> /\ \E d \in Daemon : inner[d] = "failed"
      BY <1>14 DEF GroupFails, GroupAborts
  <2>2. ASSUME setup.keep, pc = "running" PROVE inner["aux"] = "failed"
      BY <2>1, <2>2 DEF D!Over, Daemon
  <2>3. inner["aux"] = "failed" => inner'["aux"] = "failed"
      BY <1>14, VendorUnwinds, DaemonsStopPhase DEF Daemon
  <2> QED
      BY <2>1, <2>2, <2>3 DEF InGroup
<1>15. CASE GroupEnds
  <2>1. /\ vpc \in {"waiting", "stopping"} /\ vpc' = "stopping" /\ InGroup
        /\ UNCHANGED <<pc, setup, itimed, inner>> /\ inner["main"] \notin V!Alive
      BY <1>15 DEF GroupEnds, Daemon
  <2>2. ASSUME setup.keep, pc = "running", vpc = "waiting" PROVE FALSE
    <3>1. inner["main"] \in D!Over
        BY <2>1, <2>2 DEF TypeInv, D!MTTypeOK, V!Alive, D!Alive, Daemon
    <3> QED
        BY <2>2, <3>1 DEF Daemon
  <2> QED
      BY <2>1, <2>2
<1>11. CASE VendorCancelled \/ VendorNotBegun
  <2>1. task["vendor"] = "cancelling" /\ UNCHANGED <<pc, setup, itimed>> /\ vpc' # "waiting"
      BY <1>11 DEF VendorCancelled, VendorNotBegun, VendorEnds, V!RunForCancelled, GroupAborts
  <2>2. ctl = "stopping"
      BY <2>1 DEF TypeInv, B!MTInv, BackgroundTask
  <2>3. pc # "running"
      BY <2>2 DEF PhaseInv
  <2> QED
      BY <2>1, <2>3
<1>12. CASE VendorStopNext
  <2>1. vpc = "stopping" /\ UNCHANGED <<pc, vpc, setup, itimed>>
      BY <1>12 DEF VendorStopNext, V!StopNext
  <2>2. inner["aux"] = "failed" => inner'["aux"] = "failed"
      BY <1>12, VendorUnwinds, DaemonsStopPhase DEF Daemon
  <2> QED
      BY <2>1, <2>2
<1>13. CASE VendorReturns
    BY <1>13 DEF VendorReturns, VendorEnds
<1>16. CASE Stopped \/ UNCHANGED vars
    BY <1>16 DEF Stopped, vars
<1> QED
    BY <1>1, <1>2, <1>3, <1>4, <1>5, <1>6, <1>7, <1>8, <1>9, <1>10, <1>11, <1>12, <1>13, <1>14,
       <1>15, <1>16
    DEF Next, Benchmark, Vendor

\* Whatever daemons the faults kill, in whatever order they exit, pause and come
\* back, a vendor that is kept alive does not end before the time of the benchmark:
\* only the tail of Chrony, for which keep_alive is not set, can end it.
THEOREM KeptAliveSurvives == Spec => []FaultsSurvived
<1>1. Init => KeepInv
    BY DEF Init, Fresh, V!MTInit, KeepInv
<1>2. TypeInv /\ PhaseInv /\ KeepInv => FaultsSurvived
    BY DEF PhaseInv, KeepInv, FaultsSurvived, W!Over, TypeInv
<1> QED
    BY <1>1, <1>2, NextKeep, Phases, PTL DEF Spec

-----------------------------------------------------------------------------
(* The daemons are managed processes *)

LEMMA StutterManaged ==
    ASSUME NEW d, inner'[d] = inner[d], proc'[d] = proc[d]
    PROVE  Managed(d)!Step
BY DEF Managed!Step

\* Leaving the wait and unwinding the stack only cancels.
LEMMA StopManaged ==
    ASSUME TypeInv, PhaseInv, Stopping, UNCHANGED proc, NEW d \in Daemon
    PROVE  Managed(d)!Step
<1>1. inner'[d] = inner[d] \/ (inner[d] \in D!Alive /\ inner'[d] = "cancelling")
    BY DaemonsStopFate
<1> QED
    BY <1>1, StutterManaged DEF Managed!Step, Managed!Cancel, D!Alive

LEMMA NextManaged ==
    ASSUME TypeInv, PhaseInv, Next, ~PowerCycle, ~SessionRestarts, NEW d \in Daemon
    PROVE  Managed(d)!Step
<1> USE DEF daemons, vendorTask, Frame
<1>1. CASE Benchmark \/ Stopped
  <2>1. UNCHANGED <<inner, proc>>
      BY <1>1 DEF Benchmark, StartWorker, Configure, StartService, StopService, ClockJump,
         AddBackgroundTask, Run, RunEnds, CancelNext, Exit, Stopped, vars
  <2> QED
      BY <2>1, StutterManaged
<1>2. CASE \/ MonitorEnds \/ FaultCancelled \/ VendorNotBegun \/ VendorReturns \/ VendorWaits
           \/ \E t \in {"iperf", "stress"} : LoadEnds(t)
  <2>1. UNCHANGED <<inner, proc>>
      BY <1>2 DEF MonitorEnds, FaultCancelled, VendorNotBegun, VendorReturns, VendorWaits,
         V!RunFor, LoadEnds
  <2> QED
      BY <2>1, StutterManaged
<1>3. CASE InjectFault
  <2>1. /\ inner' = inner
        /\ proc'[d] = proc[d] \/ (proc[d] \in {"up", "killed"} /\ proc'[d] = "killed")
      BY <1>3 DEF InjectFault, Kill, Refuses, TypeInv
  <2> QED
      BY <2>1, StutterManaged DEF Managed!Step, Managed!Kill
<1>4. ASSUME NEW e \in Daemon, VendorAdds(e) PROVE Managed(d)!Step
  <2>1. /\ inner' = [inner EXCEPT ![e] = "running"] /\ inner[e] = "absent" /\ proc' = proc
      BY <1>4 DEF VendorAdds, V!AddTask
  <2> QED
      BY <2>1, StutterManaged DEF Managed!Step, Managed!Create, TypeInv, D!MTTypeOK
<1>5. CASE VendorStops \/ VendorCancelled \/ VendorStopNext \/ GroupFails \/ GroupEnds
  <2>1. Stopping
      BY <1>5, VendorUnwinds
  <2>2. UNCHANGED proc
      BY <1>5 DEF VendorStops, VendorCancelled, VendorStopNext, GroupFails, GroupEnds
  <2> QED
      BY <2>1, <2>2, StopManaged
<1>6. ASSUME NEW e \in Daemon, DaemonStarts(e) PROVE Managed(d)!Step
  <2>1. /\ inner' = inner /\ proc' = [proc EXCEPT ![e] = "up"]
        /\ inner[e] = "running" /\ proc[e] \in {"none", "paused"}
      BY <1>6 DEF DaemonStarts
  <2> QED
      BY <2>1, StutterManaged DEF Managed!Step, Managed!Start, TypeInv
<1>7. ASSUME NEW e \in Daemon, DaemonExits(e), e # d PROVE Managed(d)!Step
  <2>1. inner'[d] = inner[d] /\ proc'[d] = proc[d]
      BY <1>7 DEF DaemonExits, V!TaskEnds, TypeInv, D!MTTypeOK
  <2> QED
      BY <2>1, StutterManaged
<1>8. CASE DaemonExits(d)
  <2>1. CASE Kept(d)
    <3>1. /\ inner' = inner /\ proc' = [proc EXCEPT ![d] = "paused"]
          /\ inner[d] = "running" /\ proc[d] \in {"up", "killed"}
        BY <1>8, <2>1 DEF DaemonExits
    <3> QED
        BY <2>1, <3>1 DEF Managed!Step, Managed!Pause, Managed!Running, TypeInv
  <2>2. CASE ~Kept(d)
    <3>1. PICK r \in {"returned", "failed"} :
             /\ inner' = [inner EXCEPT ![d] = r] /\ proc' = [proc EXCEPT ![d] = "none"]
             /\ inner[d] = "running" /\ proc[d] \in {"up", "killed"}
        BY <1>8, <2>2 DEF DaemonExits, V!TaskEnds
    <3>2. Managed(d)!End(r)
        BY <2>2, <3>1 DEF Managed!End, Managed!Running, TypeInv, D!MTTypeOK
    <3> QED
        BY <3>2 DEF Managed!Step
  <2> QED
      BY <2>1, <2>2
<1>9. ASSUME NEW e \in Daemon, DaemonCancelled(e), e # d PROVE Managed(d)!Step
  <2>1. inner'[d] = inner[d] /\ proc'[d] = proc[d]
      BY <1>9 DEF DaemonCancelled, V!TaskEnds, TypeInv, D!MTTypeOK
  <2> QED
      BY <2>1, StutterManaged
<1>10. CASE DaemonCancelled(d)
  <2>1. PICK r \in {"cancelled", "failed"} :
           /\ inner' = [inner EXCEPT ![d] = r] /\ proc' = [proc EXCEPT ![d] = "none"]
           /\ inner[d] = "cancelling"
           /\ r = "failed" => proc[d] \in {"up", "killed"} /\ ~Kept(d)
      BY <1>10 DEF DaemonCancelled, V!TaskEnds
  <2>2. Managed(d)!EndCancelled(r)
      BY <2>1 DEF Managed!EndCancelled, Managed!Running, TypeInv, D!MTTypeOK
  <2> QED
      BY <2>2 DEF Managed!Step
<1> QED
    BY <1>1, <1>2, <1>3, <1>4, <1>5, <1>6, <1>7, <1>8, <1>9, <1>10 DEF Next, Vendor

\* The daemons of a vendor behave like what module ManagedProcess says of an
\* Invocation, whatever the program, the vendor and the fault generator do to them.
THEOREM DaemonsFollowTheirProcess == Spec => DaemonsAreManaged
<1>1. Init => \A d \in Daemon : Managed(d)!Init
  <2> SUFFICES ASSUME Init, NEW d \in Daemon PROVE Managed(d)!Init
      OBVIOUS
  <2>1. inner[d] = "absent" /\ proc[d] = "none"
      BY DEF Init, Fresh, V!MTInit
  <2> QED
      BY <2>1 DEF Managed!Init, Kept
<1>2. TypeInv /\ PhaseInv /\ [Next]_vars =>
          [PowerCycle \/ SessionRestarts \/ \A d \in Daemon : Managed(d)!Next]_vars
  <2> SUFFICES ASSUME TypeInv, PhaseInv, Next, ~PowerCycle, ~SessionRestarts, NEW d \in Daemon
               PROVE  Managed(d)!Next
      BY DEF vars
  <2>1. Managed(d)!Step
      BY NextManaged
  <2>2. setup' = setup
      BY SetupStays
  <2> QED
      BY <2>1, <2>2 DEF Managed!Next, Kept
<1> QED
    BY <1>1, <1>2, Phases, PTL DEF Spec, DaemonsAreManaged

\* Conversely the worker takes whatever an Invocation does by itself: in the event
\* loop, every start, pause and end that ManagedProcess allows is a step of the
\* worker, so that none of the theorems above rests on an outcome it leaves out.
\* Only Break, a process that cannot be started or read, is not modelled here.
THEOREM EveryOutcomeIsTaken ==
    ASSUME TypeInv, EventLoop, NEW d \in Daemon,
           \/ Managed(d)!Start \/ Managed(d)!Pause
           \/ \E r \in {"returned", "failed"} : Managed(d)!End(r)
           \/ \E r \in {"cancelled", "failed"} : Managed(d)!EndCancelled(r),
           inner' = [inner EXCEPT ![d] = inner'[d]], proc' = [proc EXCEPT ![d] = proc'[d]],
           everRan' = (everRan \/ proc'[d] = "up"),
           UNCHANGED <<istack, ictl, itimed, ioutcome, istopFailed, tasks, vpc>>, Frame
    PROVE  Next
<1>0. /\ inner \in [Daemon -> {"absent"} \cup D!Alive \cup D!Over]
      /\ proc \in [Daemon -> {"none", "up", "killed", "paused"}] /\ everRan \in BOOLEAN
    BY DEF TypeInv, D!MTTypeOK
<1>1. CASE Managed(d)!Start
  <2>1. /\ inner[d] = "running" /\ inner'[d] = "running"
        /\ proc[d] \in {"none", "paused"} /\ proc'[d] = "up"
      BY <1>1 DEF Managed!Start
  <2>2. inner' = inner /\ everRan' = TRUE
      BY <1>0, <2>1
  <2>3. DaemonStarts(d)
      BY <2>1, <2>2 DEF DaemonStarts
  <2> QED
      BY <2>3 DEF Next
<1>2. CASE Managed(d)!Pause
  <2>1. /\ inner[d] = "running" /\ inner'[d] = "running" /\ Kept(d)
        /\ proc[d] \in {"up", "killed"} /\ proc'[d] = "paused"
      BY <1>2 DEF Managed!Pause, Managed!Running
  <2>2. inner' = inner /\ everRan' = everRan
      BY <1>0, <2>1
  <2>3. DaemonExits(d)
      BY <2>1, <2>2 DEF DaemonExits, vendorTask
  <2> QED
      BY <2>3 DEF Next
<1>3. ASSUME NEW r \in {"returned", "failed"}, Managed(d)!End(r) PROVE Next
  <2>1. /\ inner[d] = "running" /\ inner'[d] = r /\ ~Kept(d)
        /\ proc[d] \in {"up", "killed"} /\ proc'[d] = "none"
      BY <1>3 DEF Managed!End, Managed!Running
  <2>2. everRan' = everRan
      BY <1>0, <2>1
  <2>3. V!TaskEnds(d, r)
      BY <2>1 DEF V!TaskEnds, V!Alive, V!Over
  <2>4. DaemonExits(d)
      BY <2>1, <2>2, <2>3 DEF DaemonExits, vendorTask
  <2> QED
      BY <2>4 DEF Next
<1>4. ASSUME NEW r \in {"cancelled", "failed"}, Managed(d)!EndCancelled(r) PROVE Next
  <2>1. /\ inner[d] = "cancelling" /\ inner'[d] = r /\ proc'[d] = "none"
        /\ r = "failed" => proc[d] \in {"up", "killed"} /\ ~Kept(d)
      BY <1>4 DEF Managed!EndCancelled, Managed!Running
  <2>2. everRan' = everRan
      BY <1>0, <2>1
  <2>3. V!TaskEnds(d, r)
      BY <2>1 DEF V!TaskEnds, V!Alive, V!Over
  <2>4. DaemonCancelled(d)
      BY <2>1, <2>2, <2>3 DEF DaemonCancelled, vendorTask
  <2> QED
      BY <2>4 DEF Next
<1> QED
    BY <1>1, <1>2, <1>3, <1>4
=============================================================================
