-------------------------- MODULE SchedulerProofs --------------------------
(***************************************************************************)
(* Theorems about Scheduler for any number of tasks, admin requests and    *)
(* outages, and their proofs.                                              *)
(***************************************************************************)
EXTENDS Scheduler, TLAPS

LEMMA FreshRowType == \A p \in Int : FreshRow(p) \in Row
BY DEF FreshRow, Row

LEMMA BlankType == Blank \in Row
BY DEF FreshRow, Row, Blank

LEMMA NoRequestType == NoRequest \in Request
BY BlankType DEF NoRequest, Request, AdminOps

LEMMA EditedType == \A r \in Row, op \in AdminOps : Edited(op, r) \in Row
<1> TAKE r \in Row, op \in AdminOps
<1>1. ASSUME NEW b \in BOOLEAN PROVE [r EXCEPT !.paused = b] \in Row
    BY DEF Row
<1>2. (~r.paused) \in BOOLEAN
  <2>1. CASE r.paused
      BY <2>1
  <2>2. CASE ~r.paused
      BY <2>2
  <2> QED
      BY <2>1, <2>2
<1>3. [r EXCEPT !.paused = ~r.paused] \in Row
    BY <1>1, <1>2, Zenon
<1>4. [r EXCEPT !.priority = r.priority + 1] \in Row
    BY DEF Row
<1> QED
    BY <1>3, <1>4, Zenon DEF Edited

LEMMA InitType == Init => TypeOK
BY ConstantsAssumption, BlankType, NoRequestType
   DEF Init, TypeOK, Existing, Request, NoRequest, Tasks

\* One more row: ids stay contiguous.
LEMMA NextId ==
    ASSUME MaxTasks \in Nat, lastId \in 0..MaxTasks, lastId < MaxTasks,
           lastId' = lastId + 1
    PROVE  lastId' \in 0..MaxTasks /\ Existing' = Existing \cup {lastId + 1}
<1>1. \A i \in Int : i \in 1..(lastId + 1) <=> i \in 1..lastId \/ i = lastId + 1
    OBVIOUS
<1> QED
    BY <1>1 DEF Existing

LEMMA NextType == TypeOK /\ [Next]_vars => TypeOK'
<1> SUFFICES ASSUME TypeOK, [Next]_vars PROVE TypeOK'
    OBVIOUS
<1> USE ConstantsAssumption DEF TypeOK, Existing, Tasks, schedVars, bounds, NoTask
<1>1. ASSUME NEW n \in Tasks, NEW p \in Priorities, Enqueue(n, p) PROVE TypeOK'
  <2>1. FreshRow(p) \in Row
      BY FreshRowType
  <2>2. rows' \in [Tasks -> Row]
      BY <1>1, <2>1 DEF Enqueue
  <2>3. \A t \in Tasks \ Existing' : rows'[t] = Blank
      BY <1>1 DEF Enqueue
  <2>4. lastId' \in 0..MaxTasks /\ Existing \subseteq Existing'
      BY <1>1 DEF Enqueue
  <2>5. cur' \in IF pc' \in {"down", "idle"} THEN {NoTask} ELSE Existing'
      BY <1>1, <2>4 DEF Enqueue
  <2>6. \A a \in Admins : admin'[a].sel \subseteq Existing'
      BY <1>1, <2>4 DEF Enqueue
  <2>7. /\ orphans' \subseteq Existing' /\ touched' \subseteq Existing'
        /\ ran' \subseteq Existing' /\ exitedOk' \subseteq Existing'
      BY <1>1, <2>4 DEF Enqueue
  <2>8. UNCHANGED <<pc, snap, admin, edits, kills, late>>
      BY <1>1 DEF Enqueue
  <2> QED
      BY <2>2, <2>3, <2>4, <2>5, <2>6, <2>7, <2>8
<1>2. CASE StartScheduler
    BY <1>2 DEF StartScheduler
<1>3. ASSUME NEW t \in Existing, PickTask(t) PROVE TypeOK'
    BY <1>3 DEF PickTask
<1>4. CASE PollAgain
    BY <1>4 DEF PollAgain, vars
<1>5. CASE StartTask
  <2>1. [snap EXCEPT !.started = TRUE, !.priority = RunPriority] \in Row
      BY DEF Row
  <2> QED
      BY <1>5, <2>1 DEF StartTask
<1>6. ASSUME NEW ok \in BOOLEAN, CommandExits(ok) PROVE TypeOK'
    BY <1>6 DEF CommandExits, Conclude, Row
<1>7. ASSUME NEW survives \in BOOLEAN, DeadlineFails(survives) PROVE TypeOK'
    BY <1>7 DEF DeadlineFails, Conclude, Row
<1>8. CASE DeadlineEscapes
    BY <1>8, BlankType DEF DeadlineEscapes
<1>9. CASE SaveResult
    BY <1>9, BlankType DEF SaveResult
<1>10. ASSUME NEW survives \in BOOLEAN, KillScheduler(survives) PROVE TypeOK'
    BY <1>10, BlankType DEF KillScheduler
<1>11. ASSUME NEW t \in Tasks, OrphanExits(t) PROVE TypeOK'
    BY <1>11 DEF OrphanExits
<1>12. ASSUME NEW a \in Admins, NEW op \in AdminOps \ {"none"},
              NEW sel \in SUBSET Existing \ {{}}, AdminRead(a, op, sel)
       PROVE  TypeOK'
  <2> DEFINE seen == [t \in Tasks |-> IF t \in sel THEN rows[t] ELSE Blank]
             req == [op |-> op, sel |-> sel, seen |-> seen]
  <2>1. seen \in [Tasks -> Row]
      BY BlankType
  <2>2. sel \in SUBSET Tasks
      OBVIOUS
  <2>3. req \in Request
      BY <2>1, <2>2 DEF Request
  <2>4. admin' = [admin EXCEPT ![a] = req]
      BY <1>12 DEF AdminRead
  <2> HIDE DEF req
  <2>5. /\ admin' \in [Admins -> Request]
        /\ \A b \in Admins : admin'[b].sel \subseteq Existing
      BY <2>3, <2>4 DEF req
  <2> QED
      BY <1>12, <2>5 DEF AdminRead
<1>13. ASSUME NEW a \in Admins, AdminSave(a) PROVE TypeOK'
  <2>1. admin[a] \in Request /\ admin[a].sel \subseteq Existing
      OBVIOUS
  <2>2. \A t \in Tasks : Edited(admin[a].op, admin[a].seen[t]) \in Row
      BY <2>1, EditedType DEF Request
  <2>3. rows' \in [Tasks -> Row]
      BY <1>13, <2>2 DEF AdminSave
  <2>4. \A t \in Tasks \ Existing' : rows'[t] = Blank
      BY <1>13, <2>1 DEF AdminSave
  <2>5. NoRequest.sel = {}
      BY DEF NoRequest
  <2>6. /\ admin' \in [Admins -> Request]
        /\ \A b \in Admins : admin'[b].sel \subseteq Existing
      BY <1>13, <2>5, NoRequestType DEF AdminSave
  <2> QED
      BY <1>13, <2>1, <2>3, <2>4, <2>6 DEF AdminSave
<1>14. ASSUME NEW t \in Existing, Reschedule(t) PROVE TypeOK'
  <2>1. rows[t] \in Row
      OBVIOUS
  <2>2. [FreshRow(rows[t].priority) EXCEPT !.paused = rows[t].paused] \in Row
      BY <2>1 DEF FreshRow, Row
  <2>3. rows' \in [Tasks -> Row]
      BY <1>14, <2>2 DEF Reschedule
  <2> HIDE DEF Existing
  <2>4. lastId' \in 0..MaxTasks /\ Existing' = Existing \cup {lastId + 1}
      BY <1>14, NextId DEF Reschedule
  <2>5. \A u \in Tasks \ Existing' : rows'[u] = Blank
      BY <1>14, <2>4 DEF Reschedule
  <2>6. cur' \in IF pc' \in {"down", "idle"} THEN {NoTask} ELSE Existing'
      BY <1>14, <2>4 DEF Reschedule
  <2>7. \A a \in Admins : admin'[a].sel \subseteq Existing'
      BY <1>14, <2>4 DEF Reschedule
  <2>8. /\ orphans' \subseteq Existing' /\ touched' \subseteq Existing'
        /\ ran' \subseteq Existing' /\ exitedOk' \subseteq Existing'
      BY <1>14, <2>4 DEF Reschedule
  <2>9. edits' \in 0..MaxEdits /\ UNCHANGED <<pc, snap, admin, kills, late>>
      BY <1>14 DEF Reschedule
  <2> QED
      BY <2>3, <2>4, <2>5, <2>6, <2>7, <2>8, <2>9
<1>15. CASE UNCHANGED vars
    BY <1>15 DEF vars
<1> QED
    BY <1>1, <1>2, <1>3, <1>4, <1>5, <1>6, <1>7, <1>8, <1>9, <1>10, <1>11,
       <1>12, <1>13, <1>14, <1>15
    DEF Next, Queueing, Scheduling, Environment, Administration

\* Every variable stays in its range and no row appears without an id.
THEOREM TypeCorrect == Spec => []TypeOK
<1>1. QED
    BY InitType, NextType, PTL DEF Spec

-----------------------------------------------------------------------------
(* Results: CompletedAgree and SuccessIsReal need the same of every copy of *)
(* a row that may be written back, the scheduler's and the admin requests'. *)

\* completion_time and success are both null or both set.
Agree(r) == r.done <=> r.success # "null"

\* A result "success" in a copy of row t comes from a command of t.
Real(t, r) == r.success = "true" => t \in exitedOk

ResultsInv ==
    /\ TypeOK
    /\ \A t \in Tasks : Agree(rows[t]) /\ Real(t, rows[t])
    /\ Agree(snap) /\ Real(cur, snap)
    /\ \A a \in Admins : \A t \in admin[a].sel :
          Agree(admin[a].seen[t]) /\ Real(t, admin[a].seen[t])

LEMMA FreshResults == \A p, t : Agree(FreshRow(p)) /\ Real(t, FreshRow(p))
BY DEF Agree, Real, FreshRow

LEMMA BlankResults == \A t : Agree(Blank) /\ Real(t, Blank)
BY FreshResults DEF Blank

LEMMA EditedResults ==
    ASSUME NEW r \in Row, NEW op \in AdminOps
    PROVE  /\ Edited(op, r).done = r.done
           /\ Edited(op, r).success = r.success
           /\ Edited(op, r).started = r.started
BY DEF Edited, Row

LEMMA ResultsStep == ResultsInv /\ [Next]_vars => ResultsInv'
<1> SUFFICES ASSUME ResultsInv, [Next]_vars PROVE ResultsInv'
    OBVIOUS
<1>0. TypeOK /\ TypeOK'
    BY NextType DEF ResultsInv
<1>t. Tasks' = Tasks
    BY DEF Tasks
<1> USE DEF ResultsInv
<1>1. ASSUME NEW n \in Tasks, NEW p \in Priorities, Enqueue(n, p) PROVE ResultsInv'
  <2>1. \A t \in Tasks : rows'[t] = rows[t] \/ rows'[t] = FreshRow(p)
      BY <1>1 DEF Enqueue
  <2>2. \A t \in Tasks : Agree(rows'[t]) /\ Real(t, rows'[t])
      BY <2>1, FreshResults
  <2> QED
      BY <1>0, <1>1, <2>2 DEF Enqueue, Real, schedVars
<1>2. CASE StartScheduler
    BY <1>0, <1>2 DEF StartScheduler, Real
<1>3. ASSUME NEW t \in Existing, PickTask(t) PROVE ResultsInv'
  <2>1. t \in Tasks
      BY <1>0, ConstantsAssumption DEF TypeOK, Existing, Tasks
  <2> QED
      BY <1>0, <1>3, <2>1 DEF PickTask, Real
<1>4. CASE PollAgain
    BY <1>0, <1>4 DEF PollAgain, vars, Real
<1>5. CASE StartTask
  <2> DEFINE r == [snap EXCEPT !.started = TRUE, !.priority = RunPriority]
  <2>1. Agree(r) /\ Real(cur, r)
      BY <1>0 DEF Agree, Real, TypeOK, Row
  <2>2. \A t \in Tasks : rows'[t] = IF t = cur THEN r ELSE rows[t]
      BY <1>0, <1>5 DEF StartTask, TypeOK
  <2>3. snap' = r /\ UNCHANGED <<cur, admin, exitedOk>>
      BY <1>5 DEF StartTask
  <2> HIDE DEF r
  <2> QED
      BY <1>0, <2>1, <2>2, <2>3 DEF Real
<1>6. ASSUME NEW ok \in BOOLEAN, CommandExits(ok) PROVE ResultsInv'
  <2>1. (Agree(snap) /\ Real(cur, snap))'
      BY <1>0, <1>6 DEF CommandExits, Conclude, Agree, Real, TypeOK, Row
  <2> QED
      BY <1>0, <1>6, <2>1 DEF CommandExits, Real
<1>7. ASSUME NEW survives \in BOOLEAN, DeadlineFails(survives) PROVE ResultsInv'
  <2>1. (Agree(snap) /\ Real(cur, snap))'
      BY <1>0, <1>7 DEF DeadlineFails, Conclude, Agree, Real, TypeOK, Row
  <2> QED
      BY <1>0, <1>7, <2>1 DEF DeadlineFails, Real
<1>8. CASE DeadlineEscapes
    BY <1>0, <1>8, BlankResults DEF DeadlineEscapes, Real
<1>9. CASE SaveResult
  <2>1. \A t \in Tasks : rows'[t] = IF t = cur THEN snap ELSE rows[t]
      BY <1>0, <1>9 DEF SaveResult, TypeOK
  <2> QED
      BY <1>0, <1>9, <2>1, BlankResults DEF SaveResult, Real
<1>10. ASSUME NEW survives \in BOOLEAN, KillScheduler(survives) PROVE ResultsInv'
    BY <1>0, <1>10, BlankResults DEF KillScheduler, Real
<1>11. ASSUME NEW t \in Tasks, OrphanExits(t) PROVE ResultsInv'
    BY <1>0, <1>11 DEF OrphanExits, schedVars, Real
<1>12. ASSUME NEW a \in Admins, NEW op \in AdminOps \ {"none"},
              NEW sel \in SUBSET Existing \ {{}}, AdminRead(a, op, sel)
       PROVE  ResultsInv'
  <2>1. sel \subseteq Tasks
      BY <1>0, ConstantsAssumption DEF TypeOK, Existing, Tasks
  <2>2. \A b \in Admins : \A t \in admin'[b].sel :
           \/ b # a /\ t \in admin[b].sel /\ admin'[b].seen[t] = admin[b].seen[t]
           \/ t \in Tasks /\ admin'[b].seen[t] = rows[t]
      BY <1>0, <1>12, <2>1 DEF AdminRead, TypeOK
  <2> QED
      BY <1>0, <1>12, <2>2 DEF AdminRead, schedVars, Real
<1>13. ASSUME NEW a \in Admins, AdminSave(a) PROVE ResultsInv'
  <2>1. \A t \in Tasks :
           \/ rows'[t] = rows[t]
           \/ /\ t \in admin[a].sel
              /\ rows'[t].done = admin[a].seen[t].done
              /\ rows'[t].success = admin[a].seen[t].success
    <3> TAKE t \in Tasks
    <3>1. admin[a].op \in AdminOps /\ admin[a].seen[t] \in Row
        BY <1>0 DEF TypeOK, Request
    <3> QED
        BY <1>13, <3>1, EditedResults DEF AdminSave
  <2>2. \A t \in Tasks : Agree(rows'[t]) /\ Real(t, rows'[t])
      BY <2>1 DEF Agree, Real
  <2>3. \A b \in Admins : admin'[b] = admin[b] \/ admin'[b].sel = {}
      BY <1>0, <1>13 DEF AdminSave, TypeOK, NoRequest
  <2> QED
      BY <1>0, <1>13, <2>2, <2>3 DEF AdminSave, schedVars, Real
<1>14. ASSUME NEW t \in Existing, Reschedule(t) PROVE ResultsInv'
  <2> DEFINE c == [FreshRow(rows[t].priority) EXCEPT !.paused = rows[t].paused]
  <2>1. \A u : Agree(c) /\ Real(u, c)
      BY DEF Agree, Real, FreshRow
  <2>2. \A u \in Tasks : rows'[u] = rows[u] \/ rows'[u] = c
      BY <1>0, <1>14 DEF Reschedule, TypeOK
  <2> HIDE DEF c
  <2>3. \A u \in Tasks : Agree(rows'[u]) /\ Real(u, rows'[u])
      BY <2>1, <2>2
  <2> QED
      BY <1>0, <1>14, <2>3 DEF Reschedule, schedVars, Real
<1>15. CASE UNCHANGED vars
    BY <1>0, <1>15 DEF vars, Real
<1> QED
    BY <1>1, <1>2, <1>3, <1>4, <1>5, <1>6, <1>7, <1>8, <1>9, <1>10, <1>11,
       <1>12, <1>13, <1>14, <1>15
    DEF Next, Queueing, Scheduling, Environment, Administration

LEMMA ResultsInvariant == Spec => []ResultsInv
<1>1. Init => ResultsInv
    BY InitType, BlankResults DEF Init, ResultsInv, NoRequest
<1> QED
    BY <1>1, ResultsStep, PTL DEF Spec

\* completion_time and success never disagree, whatever is written back.
THEOREM ResultsAgree == Spec => []CompletedAgree
<1>1. ResultsInv => CompletedAgree
    BY DEF ResultsInv, CompletedAgree, Agree
<1> QED
    BY <1>1, ResultsInvariant, PTL

\* A recorded success always comes from a command that exited with code 0.
THEOREM SuccessesAreReal == Spec => []SuccessIsReal
<1>1. ResultsInv => SuccessIsReal
    BY DEF ResultsInv, SuccessIsReal, Real
<1> QED
    BY <1>1, ResultsInvariant, PTL

-----------------------------------------------------------------------------
(* Repetition: NoNeedlessRerun and AtMostOneInterrupted.  Both speak of rows  *)
(* that no admin page wrote, so nothing is needed of the admin's copies.      *)

Own == Existing \ touched

\* A task that ran and was not cut short has its result, in its row or with
\* the scheduler.
RerunInv ==
    /\ TypeOK
    /\ pc = "finished" => snap.done
    /\ \A t \in Own : t \in ran => rows[t].done \/ Held(t)
    /\ NoNeedlessRerun

LEMMA RerunStep == RerunInv /\ [Next]_vars => RerunInv'
<1> SUFFICES ASSUME RerunInv, [Next]_vars PROVE RerunInv'
    OBVIOUS
<1>0. TypeOK /\ TypeOK'
    BY NextType DEF RerunInv
<1>e. Existing \subseteq Tasks /\ NoTask \notin Existing
    BY <1>0, ConstantsAssumption DEF TypeOK, Existing, Tasks, NoTask
<1> USE DEF RerunInv, NoNeedlessRerun, Own, Held
<1>1. ASSUME NEW n \in Tasks, NEW p \in Priorities, Enqueue(n, p) PROVE RerunInv'
  <2>1. \A t \in Existing : t \in Existing' /\ rows'[t] = rows[t]
      BY <1>0, <1>1, ConstantsAssumption DEF Enqueue, TypeOK, Existing, Tasks
  <2>2. \A t \in ran : t \in Existing
      BY <1>0 DEF TypeOK
  <2> QED
      BY <1>0, <1>1, <2>1, <2>2 DEF Enqueue, schedVars
<1>2. CASE StartScheduler
    BY <1>0, <1>2 DEF StartScheduler, Existing
<1>3. ASSUME NEW t \in Existing, PickTask(t) PROVE RerunInv'
  <2>1. ~rows[t].done
      BY <1>3 DEF PickTask, IsNext, Pending
  <2> QED
      BY <1>0, <1>3, <2>1 DEF PickTask, Existing
<1>4. CASE PollAgain
    BY <1>0, <1>4 DEF PollAgain, vars, Existing
<1>5. CASE StartTask
    BY <1>0, <1>5 DEF StartTask, Existing, TypeOK
<1>6. ASSUME NEW ok \in BOOLEAN, CommandExits(ok) PROVE RerunInv'
    BY <1>0, <1>6 DEF CommandExits, Conclude, Existing, TypeOK, Row
<1>7. ASSUME NEW survives \in BOOLEAN, DeadlineFails(survives) PROVE RerunInv'
    BY <1>0, <1>7 DEF DeadlineFails, Conclude, Existing, TypeOK, Row
<1>8. CASE DeadlineEscapes
    BY <1>0, <1>8 DEF DeadlineEscapes, Existing
<1>9. CASE SaveResult
    BY <1>0, <1>9, <1>e DEF SaveResult, Existing, TypeOK
<1>10. ASSUME NEW survives \in BOOLEAN, KillScheduler(survives) PROVE RerunInv'
    BY <1>0, <1>10 DEF KillScheduler, Existing
<1>11. ASSUME NEW t \in Tasks, OrphanExits(t) PROVE RerunInv'
    BY <1>0, <1>11 DEF OrphanExits, schedVars, Existing
<1>12. ASSUME NEW a \in Admins, NEW op \in AdminOps \ {"none"},
              NEW sel \in SUBSET Existing \ {{}}, AdminRead(a, op, sel)
       PROVE  RerunInv'
    BY <1>0, <1>12 DEF AdminRead, schedVars, Existing
<1>13. ASSUME NEW a \in Admins, AdminSave(a) PROVE RerunInv'
    BY <1>0, <1>13, <1>e DEF AdminSave, schedVars, Existing
<1>14. ASSUME NEW t \in Existing, Reschedule(t) PROVE RerunInv'
  <2>1. \A u \in Own' : u \in Own /\ rows'[u] = rows[u]
      BY <1>0, <1>14 DEF Reschedule, TypeOK, Existing, Tasks
  <2>2. pc' = "picked" /\ cur' \notin touched' => cur \notin touched
      BY <1>14 DEF Reschedule, schedVars
  <2> QED
      BY <1>0, <1>14, <2>1, <2>2 DEF Reschedule, schedVars
<1>15. CASE UNCHANGED vars
    BY <1>0, <1>15 DEF vars, Existing
<1> QED
    BY <1>1, <1>2, <1>3, <1>4, <1>5, <1>6, <1>7, <1>8, <1>9, <1>10, <1>11,
       <1>12, <1>13, <1>14, <1>15
    DEF Next, Queueing, Scheduling, Environment, Administration

\* The scheduler repeats a task only if it was lost while it held the task, or
\* if an admin page wrote the row.
THEOREM RerunsAreNeeded == Spec => []NoNeedlessRerun
<1>1. Init => RerunInv
    BY InitType DEF Init, RerunInv, NoNeedlessRerun, Own, Existing
<1>2. RerunInv => NoNeedlessRerun
    BY DEF RerunInv
<1> QED
    BY <1>1, <1>2, RerunStep, PTL DEF Spec

-----------------------------------------------------------------------------
\* Every queued priority is below the one of a started task.
QueuedBelow == \A p \in Priorities : p < RunPriority

\* A row no admin page wrote is unpaused, and its priority tells whether it has
\* been started.
OwnRow(r) ==
    /\ ~r.paused
    /\ r.started => r.priority = RunPriority
    /\ ~r.started => r.priority \in Priorities

\* An unfinished task outranks every task that has not been started, so what
\* the scheduler picks is the unfinished task if there is one.
InterruptedInv ==
    /\ TypeOK
    /\ \A t \in Own : OwnRow(rows[t])
    /\ pc \in {"picked", "running", "finished"} /\ cur \notin touched => OwnRow(snap)
    /\ pc \in {"running", "finished"} => snap.started
    /\ \A t, u \in Own : Unfinished(t) /\ Unfinished(u) => t = u
    /\ pc = "picked" /\ cur \notin touched =>
          \A t \in Own : Unfinished(t) => t = cur
    /\ pc = "finished" => snap.done

LEMMA PickIsUnfinished ==
    ASSUME InterruptedInv, QueuedBelow, NEW t \in Own, IsNext(t),
           NEW u \in Own, Unfinished(u)
    PROVE  u = t
<1>0. TypeOK /\ Own \subseteq Tasks
    BY ConstantsAssumption DEF InterruptedInv, TypeOK, Own, Existing, Tasks
<1>1. OwnRow(rows[u]) /\ OwnRow(rows[t])
    BY DEF InterruptedInv
<1>2. rows[u].priority = RunPriority /\ u \in Pending
    BY <1>1 DEF OwnRow, Unfinished, Pending, Own
<1>3. SUFFICES ASSUME u # t PROVE FALSE
    OBVIOUS
<1>4. Before(t, u)
    BY <1>2, <1>3 DEF IsNext
<1>5. rows[t].priority \in Int
    BY <1>0 DEF TypeOK, Row
<1>6. rows[t].priority >= RunPriority
    BY <1>2, <1>4, <1>5, ConstantsAssumption DEF Before
<1>7. rows[t].started
  <2>1. SUFFICES ASSUME ~rows[t].started PROVE FALSE
      OBVIOUS
  <2>2. rows[t].priority \in Priorities
      BY <1>1, <2>1 DEF OwnRow
  <2> QED
      BY <2>2, <1>5, <1>6, ConstantsAssumption DEF QueuedBelow
<1>8. Unfinished(t)
    BY <1>7 DEF IsNext, Pending, Unfinished
<1> QED
    BY <1>8, <1>3 DEF InterruptedInv

LEMMA InterruptedStep ==
    ASSUME QueuedBelow, InterruptedInv, [Next]_vars
    PROVE  InterruptedInv'
<1>0. TypeOK /\ TypeOK'
    BY NextType DEF InterruptedInv
<1>e. Existing \subseteq Tasks /\ NoTask \notin Existing
    BY <1>0, ConstantsAssumption DEF TypeOK, Existing, Tasks, NoTask
<1> USE DEF InterruptedInv, Own, Unfinished
<1>1. ASSUME NEW n \in Tasks, NEW p \in Priorities, Enqueue(n, p)
      PROVE  InterruptedInv'
  <2>1. \A t \in Own' : \/ t \in Own /\ rows'[t] = rows[t]
                        \/ rows'[t] = FreshRow(p)
    <3> TAKE t \in Own'
    <3>1. t \in 1..(lastId + n) /\ t \in Tasks /\ t \notin touched
        BY <1>0, <1>1, ConstantsAssumption DEF Enqueue, TypeOK, Existing, Tasks
    <3>2. rows'[t] = IF t \in (lastId + 1)..(lastId + n) THEN FreshRow(p) ELSE rows[t]
        BY <1>1, <3>1 DEF Enqueue
    <3>3. lastId \in Nat
        BY <1>0, ConstantsAssumption DEF TypeOK
    <3> QED
        BY <3>1, <3>2, <3>3 DEF Existing, Tasks
  <2>2. OwnRow(FreshRow(p)) /\ ~FreshRow(p).started
      BY DEF OwnRow, FreshRow
  <2> QED
      BY <1>0, <1>1, <2>1, <2>2 DEF Enqueue, schedVars
<1>2. CASE StartScheduler
    BY <1>0, <1>2 DEF StartScheduler, Existing
<1>3. ASSUME NEW t \in Existing, PickTask(t) PROVE InterruptedInv'
  <2>1. t \in Own => \A u \in Own : Unfinished(u) => u = t
      BY <1>3, PickIsUnfinished DEF PickTask
  <2> QED
      BY <1>0, <1>3, <2>1 DEF PickTask, Existing
<1>4. CASE PollAgain
    BY <1>0, <1>4 DEF PollAgain, vars, Existing
<1>5. CASE StartTask
  <2> DEFINE r == [snap EXCEPT !.started = TRUE, !.priority = RunPriority]
  <2>1. r.started /\ (OwnRow(snap) => OwnRow(r))
      BY <1>0 DEF OwnRow, TypeOK, Row
  <2>2. \A t \in Tasks : rows'[t] = IF t = cur THEN r ELSE rows[t]
      BY <1>0, <1>5 DEF StartTask, TypeOK
  <2>3. /\ pc = "picked" /\ pc' = "running" /\ snap' = r
        /\ UNCHANGED <<cur, lastId, touched>>
      BY <1>5 DEF StartTask
  <2> HIDE DEF r
  <2> QED
      BY <1>0, <1>e, <2>1, <2>2, <2>3 DEF Existing
<1>6. ASSUME NEW ok \in BOOLEAN, CommandExits(ok) PROVE InterruptedInv'
  <2>1. /\ snap'.started = snap.started /\ snap'.done
        /\ OwnRow(snap) => OwnRow(snap')
      BY <1>0, <1>6 DEF CommandExits, Conclude, TypeOK, Row, OwnRow
  <2> QED
      BY <1>0, <1>6, <2>1 DEF CommandExits, Conclude, Existing
<1>7. ASSUME NEW survives \in BOOLEAN, DeadlineFails(survives)
      PROVE  InterruptedInv'
  <2>1. /\ snap'.started = snap.started /\ snap'.done
        /\ OwnRow(snap) => OwnRow(snap')
      BY <1>0, <1>7 DEF DeadlineFails, Conclude, TypeOK, Row, OwnRow
  <2> QED
      BY <1>0, <1>7, <2>1 DEF DeadlineFails, Conclude, Existing
<1>8. CASE DeadlineEscapes
    BY <1>0, <1>8 DEF DeadlineEscapes, Existing
<1>9. CASE SaveResult
  <2>1. \A t \in Tasks : rows'[t] = IF t = cur THEN snap ELSE rows[t]
      BY <1>0, <1>9 DEF SaveResult, TypeOK
  <2> QED
      BY <1>0, <1>9, <1>e, <2>1 DEF SaveResult, Existing
<1>10. ASSUME NEW survives \in BOOLEAN, KillScheduler(survives)
       PROVE  InterruptedInv'
    BY <1>0, <1>10 DEF KillScheduler, Existing
<1>11. ASSUME NEW t \in Tasks, OrphanExits(t) PROVE InterruptedInv'
    BY <1>0, <1>11 DEF OrphanExits, schedVars, Existing
<1>12. ASSUME NEW a \in Admins, NEW op \in AdminOps \ {"none"},
              NEW sel \in SUBSET Existing \ {{}}, AdminRead(a, op, sel)
       PROVE  InterruptedInv'
    BY <1>0, <1>12 DEF AdminRead, schedVars, Existing
<1>13. ASSUME NEW a \in Admins, AdminSave(a) PROVE InterruptedInv'
  <2>1. \A t \in Own' : t \in Own /\ rows'[t] = rows[t]
      BY <1>0, <1>13, <1>e DEF AdminSave, Existing
  <2>2. cur' \notin touched' => cur \notin touched
      BY <1>13 DEF AdminSave, schedVars
  <2>3. UNCHANGED <<pc, cur, snap>>
      BY <1>13 DEF AdminSave, schedVars
  <2> QED
      BY <1>0, <2>1, <2>2, <2>3
<1>14. ASSUME NEW t \in Existing, Reschedule(t) PROVE InterruptedInv'
  <2>1. \A u \in Own' : u \in Own /\ rows'[u] = rows[u]
      BY <1>0, <1>14 DEF Reschedule, TypeOK, Existing, Tasks
  <2>2. cur' \notin touched' => cur \notin touched
      BY <1>14 DEF Reschedule, schedVars
  <2> QED
      BY <1>0, <1>14, <2>1, <2>2 DEF Reschedule, schedVars
<1>15. CASE UNCHANGED vars
    BY <1>0, <1>15 DEF vars, Existing
<1> QED
    BY <1>1, <1>2, <1>3, <1>4, <1>5, <1>6, <1>7, <1>8, <1>9, <1>10, <1>11,
       <1>12, <1>13, <1>14, <1>15
    DEF Next, Queueing, Scheduling, Environment, Administration

\* A task that was interrupted is taken up again before another is started.
THEOREM InterruptedComesFirst == Spec => []AtMostOneInterrupted
<1>1. CASE QueuedBelow
  <2>1. Init => InterruptedInv
      BY InitType DEF Init, InterruptedInv, Own, Existing, Unfinished
  <2>2. InterruptedInv /\ [Next]_vars => InterruptedInv'
      BY <1>1, InterruptedStep
  <2>3. InterruptedInv => AtMostOneInterrupted
      BY DEF InterruptedInv, AtMostOneInterrupted, Own
  <2> QED
      BY <2>1, <2>2, <2>3, PTL DEF Spec
<1>2. CASE ~QueuedBelow
  <2>1. AtMostOneInterrupted
      BY <1>2 DEF AtMostOneInterrupted, QueuedBelow
  <2> QED
      BY <2>1, PTL
<1> QED
    BY <1>1, <1>2

-----------------------------------------------------------------------------
\* The scheduler holds only tasks without a result, whatever the admin pages do
\* to other rows meanwhile.
HeldIsOpen ==
    /\ TypeOK
    /\ pc \in {"picked", "running"} => ~snap.done
    /\ pc \in {"picked", "running", "finished"} /\ cur \notin touched => ~rows[cur].done

\* The rows that are done keep what they hold.
DoneStays == \A t \in Tasks : rows[t].done /\ t \notin touched' => rows'[t] = rows[t]

LEMMA HeldStep == HeldIsOpen /\ [Next]_vars => HeldIsOpen' /\ DoneStays
<1> SUFFICES ASSUME HeldIsOpen, [Next]_vars PROVE HeldIsOpen' /\ DoneStays
    OBVIOUS
<1>0. TypeOK /\ TypeOK'
    BY NextType DEF HeldIsOpen
<1>e. Existing \subseteq Tasks /\ NoTask \notin Existing
    BY <1>0, ConstantsAssumption DEF TypeOK, Existing, Tasks, NoTask
<1>r. rows \in [Tasks -> Row] /\ \A t \in Tasks \ Existing : ~rows[t].done
    BY <1>0 DEF TypeOK, Blank, FreshRow
<1> USE DEF HeldIsOpen, DoneStays
<1>1. CASE Queueing
  <2>1. PICK n \in Tasks, p \in Priorities : Enqueue(n, p)
      BY <1>1 DEF Queueing
  <2>2. \A t \in Existing : rows'[t] = rows[t]
      BY <1>0, <1>e, <2>1, ConstantsAssumption DEF Enqueue, TypeOK, Existing, Tasks
  <2>3. cur \in Existing \/ pc \in {"down", "idle"}
      BY <1>0 DEF TypeOK
  <2> QED
      BY <1>0, <1>r, <2>1, <2>2, <2>3 DEF Enqueue, schedVars
<1>2. ASSUME NEW t \in Existing, PickTask(t) PROVE HeldIsOpen' /\ DoneStays
    BY <1>0, <1>2 DEF PickTask, IsNext, Pending
<1>3. CASE StartTask
    BY <1>0, <1>3, <1>e, <1>r DEF StartTask, TypeOK, Row
<1>4. CASE \/ \E ok \in BOOLEAN : CommandExits(ok)
           \/ \E survives \in BOOLEAN : DeadlineFails(survives)
    BY <1>0, <1>4 DEF CommandExits, DeadlineFails, Conclude
<1>5. CASE SaveResult
    BY <1>0, <1>5, <1>e, <1>r DEF SaveResult, TypeOK
<1>6. CASE StartScheduler \/ PollAgain \/ DeadlineEscapes
    BY <1>0, <1>6 DEF StartScheduler, PollAgain, DeadlineEscapes, vars
<1>7. CASE Environment
    BY <1>0, <1>7 DEF Environment, KillScheduler, OrphanExits, schedVars
<1>8. ASSUME NEW a \in Admins, NEW op \in AdminOps \ {"none"},
             NEW sel \in SUBSET Existing \ {{}}, AdminRead(a, op, sel)
      PROVE  HeldIsOpen' /\ DoneStays
    BY <1>0, <1>8 DEF AdminRead, schedVars
<1>9. ASSUME NEW a \in Admins, AdminSave(a) PROVE HeldIsOpen' /\ DoneStays
  <2>1. \A t \in Tasks \ touched' : rows'[t] = rows[t]
      BY <1>9 DEF AdminSave
  <2>2. cur \in Tasks \/ pc \in {"down", "idle"}
      BY <1>0, <1>e DEF TypeOK
  <2> QED
      BY <1>0, <1>9, <2>1, <2>2 DEF AdminSave, schedVars
<1>10. ASSUME NEW t \in Existing, Reschedule(t) PROVE HeldIsOpen' /\ DoneStays
  <2>1. \A u \in Tasks \ touched' : rows'[u] = rows[u]
      BY <1>10, <1>r DEF Reschedule
  <2>2. cur \in Tasks \/ pc \in {"down", "idle"}
      BY <1>0, <1>e DEF TypeOK
  <2> QED
      BY <1>0, <1>10, <2>1, <2>2 DEF Reschedule, schedVars
<1>11. CASE UNCHANGED vars
    BY <1>0, <1>11 DEF vars
<1> QED
    BY <1>1, <1>2, <1>3, <1>4, <1>5, <1>6, <1>7, <1>8, <1>9, <1>10, <1>11
    DEF Next, Scheduling, Administration

\* The row of a finished task that no admin action has written never changes again:
\* neither a lost scheduler nor a late deadline nor the copy that ScheduleTask.run
\* writes back undoes a result.
THEOREM ResultsAreFinal ==
    Spec => [][\A t \in Tasks : rows[t].done /\ t \notin touched'
                                    => rows'[t] = rows[t]]_vars
<1>1. Init => HeldIsOpen
    BY InitType DEF Init, HeldIsOpen
<1>2. HeldIsOpen /\ [Next]_vars => [DoneStays]_vars
    BY HeldStep
<1>3. [DoneStays]_vars => [\A t \in Tasks : rows[t].done /\ t \notin touched'
                                    => rows'[t] = rows[t]]_vars
    BY DEF DoneStays
<1> QED
    BY <1>1, <1>2, <1>3, HeldStep, PTL DEF Spec

-----------------------------------------------------------------------------
(* Commands that nobody waits for: doc/ethertime/scheduler.md:7 promises one *)
(* task at a time, and OneCommandAtATime fails.                              *)

\* While no scheduler was lost, a command is left behind only by a deadline: its
\* task has its result, in its row or with the scheduler.
LeftByDeadline ==
    kills = 0 =>
        \A t \in orphans \ touched :
            rows[t].done \/ (t = cur /\ pc = "finished" /\ snap.done)

LeftInv == HeldIsOpen /\ LeftByDeadline

LEMMA LeftStep == LeftInv /\ [Next]_vars => LeftInv'
<1> SUFFICES ASSUME LeftInv, [Next]_vars PROVE LeftByDeadline'
    BY HeldStep DEF LeftInv
<1>0. TypeOK /\ HeldIsOpen
    BY DEF LeftInv, HeldIsOpen
<1>1. orphans \subseteq Tasks
    BY <1>0, ConstantsAssumption DEF TypeOK, Existing, Tasks
<1>2. \A t \in Tasks \ touched' : rows[t].done => rows'[t].done
    BY <1>0, HeldStep DEF DoneStays
<1> USE DEF LeftInv, LeftByDeadline
<1>3. ASSUME UNCHANGED <<kills, orphans, cur, pc, snap>>, touched \subseteq touched'
      PROVE  LeftByDeadline'
    BY <1>1, <1>2, <1>3
<1>4. ASSUME pc # "finished", UNCHANGED <<kills, orphans, touched>>
      PROVE  LeftByDeadline'
    BY <1>1, <1>2, <1>4
<1>5. ASSUME NEW survives \in BOOLEAN, DeadlineFails(survives) PROVE LeftByDeadline'
  <2>1. snap'.done /\ pc' = "finished" /\ pc # "finished" /\ cur' = cur
      BY <1>0, <1>5 DEF DeadlineFails, Conclude, TypeOK, Row
  <2>2. orphans' \subseteq orphans \cup {cur} /\ UNCHANGED <<rows, kills, touched>>
      BY <1>5 DEF DeadlineFails, bounds
  <2> QED
      BY <2>1, <2>2
<1>6. CASE SaveResult
  <2>1. \A t \in Tasks : rows'[t] = IF t = cur THEN snap ELSE rows[t]
      BY <1>0, <1>6 DEF SaveResult, TypeOK
  <2> QED
      BY <1>0, <1>1, <1>6, <2>1 DEF SaveResult, bounds, HeldIsOpen
<1>7. ASSUME NEW survives \in BOOLEAN, KillScheduler(survives) PROVE LeftByDeadline'
  <2>1. kills' # 0
      BY <1>0, <1>7 DEF KillScheduler, TypeOK
  <2> QED
      BY <2>1
<1>8. ASSUME NEW t \in Tasks, OrphanExits(t) PROVE LeftByDeadline'
    BY <1>8 DEF OrphanExits, schedVars, bounds
<1>9. CASE Queueing
    BY <1>3, <1>9 DEF Queueing, Enqueue, schedVars, bounds
<1>10. CASE \/ StartScheduler \/ PollAgain \/ StartTask \/ DeadlineEscapes
            \/ \E t \in Existing : PickTask(t)
            \/ \E ok \in BOOLEAN : CommandExits(ok)
  <2>1. \/ pc # "finished" /\ UNCHANGED <<kills, orphans, touched>>
        \/ UNCHANGED <<kills, orphans, cur, pc, snap, touched>>
      BY <1>10 DEF StartScheduler, PollAgain, StartTask, DeadlineEscapes, PickTask,
         CommandExits, Conclude, bounds, vars
  <2> QED
      BY <1>3, <1>4, <2>1
<1>11. CASE Administration
    BY <1>3, <1>11 DEF Administration, AdminRead, AdminSave, Reschedule, schedVars,
       bounds
<1>12. CASE UNCHANGED vars
    BY <1>3, <1>12 DEF vars
<1> QED
    BY <1>5, <1>6, <1>7, <1>8, <1>9, <1>10, <1>11, <1>12
    DEF Next, Scheduling, Environment

\* A command runs beside a repetition of its own task only after a scheduler was
\* lost (or if an admin page wrote the row): a deadline may leave a command
\* behind, but its task has failed by then and is not taken up again.
THEOREM RepeatedBesideItselfNeedsALoss ==
    Spec => [](pc = "running" /\ cur \in orphans \ touched => kills > 0)
<1>1. Init => LeftInv
    BY InitType DEF Init, LeftInv, HeldIsOpen, LeftByDeadline
<1>2. LeftInv => (pc = "running" /\ cur \in orphans \ touched => kills > 0)
    BY DEF LeftInv, HeldIsOpen, LeftByDeadline, TypeOK
<1> QED
    BY <1>1, <1>2, LeftStep, PTL DEF Spec
=============================================================================
