------------------------ MODULE SchedulerRefinement ------------------------
(***************************************************************************)
(* Without admin edits, and with every task queued below the priority of a *)
(* started one, the scheduler implements TaskQueue: for any number of      *)
(* tasks, restarts and deadlines.                                          *)
(***************************************************************************)
EXTENDS SchedulerProofs

\* The table agrees with what the scheduler holds, as nobody else writes it.
HoldInv ==
    /\ touched = {}
    /\ pc \in {"picked", "running", "finished"} => ~rows[cur].done
    /\ pc = "picked" => snap = rows[cur]
    /\ pc \in {"running", "finished"} => rows[cur].started
    /\ pc = "finished" => snap.done

RefinementInv == ResultsInv /\ InterruptedInv /\ HoldInv

LEMMA HoldStep ==
    ASSUME Admins = {}, TypeOK, HoldInv, [Next]_vars
    PROVE  HoldInv'
<1>e. Existing \subseteq Tasks
    BY ConstantsAssumption DEF TypeOK, Existing, Tasks
<1> USE DEF HoldInv
<1>1. ASSUME NEW n \in Tasks, NEW p \in Priorities, Enqueue(n, p) PROVE HoldInv'
  <2>1. \A t \in Existing : rows'[t] = rows[t]
      BY <1>1, <1>e, ConstantsAssumption DEF Enqueue, TypeOK, Existing, Tasks
  <2> QED
      BY <1>1, <2>1 DEF Enqueue, schedVars, TypeOK
<1>2. CASE StartScheduler
    BY <1>2 DEF StartScheduler
<1>3. ASSUME NEW t \in Existing, PickTask(t) PROVE HoldInv'
    BY <1>3 DEF PickTask, IsNext, Pending
<1>4. CASE PollAgain
    BY <1>4 DEF PollAgain, vars
<1>5. CASE StartTask
  <2>1. cur \in Tasks
      BY <1>5, <1>e DEF StartTask, TypeOK
  <2>2. rows'[cur] = [snap EXCEPT !.started = TRUE, !.priority = RunPriority]
      BY <1>5, <2>1 DEF StartTask, TypeOK
  <2>3. rows'[cur].started /\ ~rows'[cur].done
      BY <1>5, <2>2 DEF StartTask, TypeOK, Row
  <2> QED
      BY <1>5, <2>3 DEF StartTask
<1>6. ASSUME NEW ok \in BOOLEAN, CommandExits(ok) PROVE HoldInv'
    BY <1>6 DEF CommandExits, Conclude, TypeOK, Row
<1>7. ASSUME NEW survives \in BOOLEAN, DeadlineFails(survives) PROVE HoldInv'
    BY <1>7 DEF DeadlineFails, Conclude, TypeOK, Row
<1>8. CASE DeadlineEscapes
    BY <1>8 DEF DeadlineEscapes
<1>9. CASE SaveResult
    BY <1>9 DEF SaveResult
<1>10. ASSUME NEW survives \in BOOLEAN, KillScheduler(survives) PROVE HoldInv'
    BY <1>10 DEF KillScheduler
<1>11. ASSUME NEW t \in Tasks, OrphanExits(t) PROVE HoldInv'
    BY <1>11 DEF OrphanExits, schedVars
<1>12. CASE UNCHANGED vars
    BY <1>12 DEF vars
<1> QED
    BY <1>1, <1>2, <1>3, <1>4, <1>5, <1>6, <1>7, <1>8, <1>9, <1>10, <1>11, <1>12
    DEF Next, Queueing, Scheduling, Environment, Administration

-----------------------------------------------------------------------------
\* The abstract state.
phase == [t \in Tasks |-> Phase(t)]

\* A step that keeps the phase of every task is a stutter of the queue.
LEMMA Stutters ==
    ASSUME \A t \in Tasks : Phase(t)' = Phase(t)
    PROVE  phase' = phase
BY DEF phase, Tasks

\* A step that changes the phase of one task.
LEMMA Moves ==
    ASSUME NEW c \in Tasks, NEW ph,
           \A t \in Tasks : Phase(t)' = IF t = c THEN ph ELSE Phase(t)
    PROVE  phase' = [phase EXCEPT ![c] = ph]
BY DEF phase, Tasks

LEMMA QueueStep ==
    ASSUME Admins = {}, QueuedBelow, RefinementInv, [Next]_vars
    PROVE  [Queue!Next]_phase
<1>0. TypeOK /\ Existing \subseteq Tasks /\ NoTask \notin Existing
    BY ConstantsAssumption
    DEF RefinementInv, InterruptedInv, TypeOK, Existing, Tasks, NoTask
<1>p. \A t \in Tasks : phase[t] = Phase(t)
    BY DEF phase
<1>h. pc \in {"picked", "running", "finished"} => cur \in Tasks /\ cur \in Existing
    BY <1>0 DEF TypeOK
<1>1. ASSUME NEW n \in Tasks, NEW p \in Priorities, Enqueue(n, p)
      PROVE  [Queue!Next]_phase
  <2> DEFINE new == (lastId + 1)..(lastId + n)
  <2>1. new \subseteq Tasks /\ new \cap Existing = {} /\ Existing' = Existing \cup new
      BY <1>0, <1>1, ConstantsAssumption DEF Enqueue, TypeOK, Existing, Tasks
  <2>2. \A t \in Tasks : rows'[t] = IF t \in new THEN FreshRow(p) ELSE rows[t]
      BY <1>1 DEF Enqueue
  <2>3. UNCHANGED <<pc, cur>>
      BY <1>1 DEF Enqueue, schedVars
  <2> HIDE DEF new
  <2>4. \A t \in new : Phase(t) = "absent"
      BY <2>1 DEF Phase
  <2>5. \A t \in new : Phase(t)' = "waiting"
    <3> TAKE t \in new
    <3>1. t \in Existing' /\ rows'[t] = FreshRow(p)
        BY <2>1, <2>2
    <3>2. ~Held(t)'
        BY <1>0, <2>1, <2>3 DEF Held, TypeOK
    <3>3. ~FreshRow(p).done /\ ~FreshRow(p).started
        BY DEF FreshRow
    <3> QED
        BY <3>1, <3>2, <3>3 DEF Phase
  <2>6. \A t \in Tasks \ new : Phase(t)' = Phase(t)
    <3> TAKE t \in Tasks \ new
    <3>1. (t \in Existing' <=> t \in Existing) /\ rows'[t] = rows[t]
        BY <2>1, <2>2
    <3>2. Held(t)' <=> Held(t)
        BY <2>3 DEF Held
    <3> QED
        BY <3>1, <3>2 DEF Phase
  <2>7. phase' = [t \in Tasks |-> IF t \in new THEN "waiting" ELSE phase[t]]
      BY <1>p, <2>5, <2>6 DEF phase, Tasks
  <2>8. Queue!Submit(new)
      BY <1>p, <2>1, <2>4, <2>7 DEF Queue!Submit, Queue!In, phase
  <2> QED
      BY <2>1, <2>8 DEF Queue!Next, phase
<1>2. CASE StartScheduler
    BY <1>2, Stutters DEF StartScheduler, Phase, Held, Existing
<1>3. ASSUME NEW t \in Existing, PickTask(t) PROVE [Queue!Next]_phase
    BY <1>3, Stutters DEF PickTask, Phase, Held, Existing
<1>4. CASE PollAgain
    BY <1>4, Stutters DEF PollAgain, vars, Phase, Held, Existing
<1>5. CASE StartTask
  <2>1. /\ pc = "picked" /\ pc' = "running" /\ cur \in Tasks /\ cur \in Existing
        /\ UNCHANGED <<cur, lastId>>
      BY <1>5, <1>h DEF StartTask
  <2>2. \A t \in Tasks : t # cur => rows'[t] = rows[t]
      BY <1>0, <1>5 DEF StartTask, TypeOK
  <2>3. rows'[cur].done = snap.done /\ snap = rows[cur] /\ ~rows[cur].done
      BY <1>0, <1>5, <2>1 DEF StartTask, TypeOK, Row, RefinementInv, HoldInv
  <2>4. \A t \in Tasks : Phase(t)' = IF t = cur THEN "running" ELSE Phase(t)
      BY <2>1, <2>2, <2>3 DEF Phase, Held, Existing
  <2>5. \A t \in Tasks : Phase(t) # "running"
      BY <2>1 DEF Phase, Held
  <2>6. \A t \in Tasks : Phase(t) = "interrupted" => t = cur
    <3>1. cur \notin touched /\ Own = Existing
        BY DEF RefinementInv, HoldInv, Own
    <3>2. \A t \in Existing : Unfinished(t) => t = cur
        BY <2>1, <3>1 DEF RefinementInv, InterruptedInv
    <3> QED
        BY <3>2 DEF Phase, Unfinished
  <2>7. Phase(cur) \in {"interrupted", "waiting"}
      BY <2>1, <2>3 DEF Phase, Held
  <2>8. Queue!Begin(cur)
    <3>1. phase' = [phase EXCEPT ![cur] = "running"]
        BY <2>1, <2>4, Moves
    <3>2. Queue!In("running") = {}
        BY <1>p, <2>5 DEF Queue!In, phase
    <3>3. Phase(cur) = "waiting" => Queue!In("interrupted") = {}
        BY <1>p, <2>6 DEF Queue!In, phase
    <3> QED
        BY <1>p, <2>1, <2>7, <3>1, <3>2, <3>3 DEF Queue!Begin, phase
  <2> QED
      BY <2>1, <2>8 DEF Queue!Next, phase
<1>6. ASSUME NEW ok \in BOOLEAN, CommandExits(ok) PROVE [Queue!Next]_phase
    BY <1>6, Stutters DEF CommandExits, Conclude, Phase, Held, Existing
<1>7. ASSUME NEW survives \in BOOLEAN, DeadlineFails(survives)
      PROVE  [Queue!Next]_phase
    BY <1>7, Stutters DEF DeadlineFails, Conclude, Phase, Held, Existing
<1>c. ASSUME pc \in {"running", "finished"}, pc' = "down", cur' = NoTask,
             UNCHANGED <<rows, lastId>>
      PROVE  [Queue!Next]_phase
  <2>1. PICK c \in Tasks : c = cur
      BY <1>c, <1>h
  <2>2. c \in Existing /\ rows[c].started /\ ~rows[c].done
      BY <1>c, <1>h, <2>1 DEF RefinementInv, HoldInv
  <2>3. Phase(c) = "running"
      BY <1>c, <2>1, <2>2 DEF Phase, Held
  <2>4. c # NoTask /\ \A t \in Tasks : ~Held(t)'
      BY <1>0, <1>c, <2>2 DEF Held, NoTask, Tasks
  <2>5. Phase(c)' = "interrupted"
      BY <1>c, <2>1, <2>2, <2>4 DEF Phase, Existing
  <2>6. \A t \in Tasks : t # c => Phase(t)' = Phase(t)
      BY <1>c, <2>1, <2>4 DEF Phase, Held, Existing
  <2>7. phase' = [phase EXCEPT ![c] = "interrupted"]
      BY <2>5, <2>6, Moves
  <2> QED
      BY <1>p, <2>3, <2>7 DEF Queue!Next, Queue!Interrupt, phase
<1>8. CASE DeadlineEscapes
    BY <1>8, <1>c DEF DeadlineEscapes
<1>9. CASE SaveResult
  <2>1. /\ pc = "finished" /\ pc' = "idle" /\ cur \in Tasks /\ cur \in Existing
        /\ lastId' = lastId
      BY <1>9, <1>h DEF SaveResult
  <2>2. \A t \in Tasks : rows'[t] = IF t = cur THEN snap ELSE rows[t]
      BY <1>0, <1>9 DEF SaveResult, TypeOK
  <2>3. snap.done
      BY <2>1 DEF RefinementInv, HoldInv
  <2> DEFINE result == IF snap.success = "true" THEN "succeeded" ELSE "failed"
  <2>4. Phase(cur) = "running"
      BY <2>1 DEF Phase, Held, RefinementInv, HoldInv
  <2>5. \A t \in Tasks : Phase(t)' = IF t = cur THEN result ELSE Phase(t)
      BY <2>1, <2>2, <2>3 DEF Phase, Held, Existing
  <2>6. phase' = [phase EXCEPT ![cur] = result]
      BY <2>1, <2>5, Moves
  <2> QED
      BY <1>p, <2>1, <2>4, <2>6 DEF Queue!Next, Queue!Finish, phase
<1>10. ASSUME NEW survives \in BOOLEAN, KillScheduler(survives)
       PROVE  [Queue!Next]_phase
  <2>1. CASE pc \in {"running", "finished"}
      BY <1>10, <2>1, <1>c DEF KillScheduler
  <2>2. CASE pc \notin {"running", "finished"}
      BY <1>10, <2>2, Stutters DEF KillScheduler, Phase, Held, Existing
  <2> QED
      BY <2>1, <2>2
<1>11. ASSUME NEW t \in Tasks, OrphanExits(t) PROVE [Queue!Next]_phase
    BY <1>11, Stutters DEF OrphanExits, schedVars, Phase, Held, Existing
<1>12. CASE UNCHANGED vars
    BY <1>12, Stutters DEF vars, Phase, Held, Existing
<1> QED
    BY <1>1, <1>2, <1>3, <1>4, <1>5, <1>6, <1>7, <1>8, <1>9, <1>10, <1>11, <1>12
    DEF Next, Queueing, Scheduling, Environment, Administration

\* Every behaviour of the scheduler that no admin edits disturb is one of the
\* abstract queue.
THEOREM Refinement ==
    ASSUME Admins = {}, QueuedBelow
    PROVE  Spec => ImplementsQueue
<1>1. Init => RefinementInv
  <2>1. Init => ResultsInv
      BY InitType, BlankResults DEF Init, ResultsInv, NoRequest
  <2>2. Init => InterruptedInv
      BY InitType DEF Init, InterruptedInv, Own, Existing, Unfinished
  <2>3. Init => HoldInv
      BY DEF Init, HoldInv
  <2> QED
      BY <2>1, <2>2, <2>3 DEF RefinementInv
<1>2. RefinementInv /\ [Next]_vars => RefinementInv'
    BY ResultsStep, InterruptedStep, HoldStep DEF RefinementInv, InterruptedInv
<1>3. Init => Queue!Init
    BY DEF Init, Queue!Init, Phase, Existing, Tasks
<1>4. RefinementInv /\ [Next]_vars => [Queue!Next]_phase
    BY QueueStep
<1> QED
    BY <1>1, <1>2, <1>3, <1>4, PTL DEF Spec, ImplementsQueue, Queue!Spec, phase
=============================================================================
