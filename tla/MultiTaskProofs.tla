--------------------------- MODULE MultiTaskProofs ---------------------------
(***************************************************************************)
(* What MultiTaskController promises its owners, for any set of tasks: the *)
(* modules that use a controller take these lemmas by INSTANCE.            *)
(***************************************************************************)
EXTENDS MultiTask, Integers, FiniteSetTheorems, WellFoundedInduction, SequenceTheorems, TLAPS

\* A nonempty set of positions has a last one.
LEMMA HasMaximum ==
    ASSUME NEW n \in Nat, NEW S, S \subseteq 1 .. n, S # {}
    PROVE  \E i \in S : \A j \in S : j <= i
<1> DEFINE Above(i) == {j \in 1 .. n : i <= j}
           T == {Above(i) : i \in S}
           R == StrictSubsetOrdering(1 .. n)
<1>1. IsFiniteSet(1 .. n)
    BY FS_Interval
<1>2. IsWellFoundedOn(R, SUBSET (1 .. n))
  <2>1. FiniteSubsetsOf(1 .. n) = SUBSET (1 .. n)
      BY <1>1, FS_Subset DEF FiniteSubsetsOf
  <2>2. IsWellFoundedOn(StrictSubsetOrdering(1 .. n), FiniteSubsetsOf(1 .. n))
      BY FS_StrictSubsetOrderingWellFounded
  <2> QED
      BY <2>1, <2>2, Zenon
<1>3. T \subseteq SUBSET (1 .. n) /\ T # {}
    OBVIOUS
<1>4. PICK x \in T : \A y \in T : ~(<<y, x>> \in R)
  <2> HIDE DEF R, T
  <2> QED
      BY <1>2, <1>3, WFMin
<1>5. PICK i \in S : x = Above(i)
    BY <1>4
<1>6. ASSUME NEW j \in S, ~(j <= i)
      PROVE  FALSE
  <2>1. Above(j) \in T /\ Above(j) \subseteq Above(i) /\ i \in Above(i) /\ i \notin Above(j)
      BY <1>6
  <2>2. <<Above(j), Above(i)>> \in R
      BY <2>1 DEF StrictSubsetOrdering
  <2> QED
      BY <1>4, <1>5, <2>1, <2>2
<1> QED
    BY <1>6

\* Every task that is alive is on the stack s.
OnStack(s) == \A t \in Task : task[t] \in Alive => \E i \in DOMAIN s : s[i] = t

NoneCancelling == \A t \in Task : task[t] # "cancelling"

\* No task is alive without being on the exit stack, and none when it is unwound;
\* the only task that is being cancelled is the one on top of the stack.
MTInv ==
    /\ MTTypeOK
    /\ OnStack(stack)
    /\ \A t \in Task : task[t] = "cancelling" => ctl = "stopping" /\ t = stack[Len(stack)]
    /\ ctl = "stopping" => stack # <<>>
    /\ ctl = "stopped" => stack = <<>>

LEMMA InitMT == MTInit => MTInv
<1> SUFFICES ASSUME MTInit PROVE MTInv
    OBVIOUS
<1>1. <<>> \in Seq(Task)
    OBVIOUS
<1>2. MTTypeOK
    BY <1>1 DEF MTInit, MTTypeOK
<1>3. OnStack(stack)
    BY DEF MTInit, OnStack, Alive
<1> QED
    BY <1>2, <1>3 DEF MTInit, MTInv

\* What a step of the exit stack does: it cancels the last task of s that is alive
\* and keeps those below, or there is none.
LEMMA Unwinding ==
    ASSUME MTTypeOK, NEW s \in Seq(Task), OnStack(s), NoneCancelling, StopFrom(s)
    PROVE  /\ task' \in [Task -> {"absent"} \cup Alive \cup Over] /\ stack' \in Seq(Task)
           /\ OnStack(stack)'
           /\ \/ ctl' = "stopped" /\ stack' = <<>> /\ task' = task
              \/ ctl' = "stopping" /\ stack' # <<>>
           /\ \A t \in Task : \/ task'[t] = task[t]
                              \/ task[t] \in Alive /\ task'[t] = "cancelling"
           /\ \A t \in Task : task'[t] = "cancelling" => ctl' = "stopping" /\ t = stack'[Len(stack')]
           /\ s # <<>> /\ task[s[Len(s)]] \in Alive => task'[s[Len(s)]] = "cancelling"
<1> DEFINE live == {i \in DOMAIN s : task[s[i]] \in Alive}
<1> USE DEF MTTypeOK
<1>1. CASE live = {}
  <2>1. \A t \in Task : task[t] \notin Alive
      BY <1>1 DEF OnStack
  <2>2. ctl' = "stopped" /\ stack' = <<>> /\ task' = task
      BY <1>1 DEF StopFrom
  <2>3. s # <<>> => s[Len(s)] \in Task
      OBVIOUS
  <2> QED
      BY <2>1, <2>2, <2>3 DEF OnStack, NoneCancelling
<1>2. CASE live # {}
  <2> DEFINE top == CHOOSE i \in live : \A j \in live : j <= i
  <2>1. Len(s) \in Nat /\ live \subseteq 1 .. Len(s)
      OBVIOUS
  <2>2. top \in live /\ \A j \in live : j <= top
    <3> HIDE DEF live
    <3>1. \E i \in live : \A j \in live : j <= i
        BY <1>2, <2>1, HasMaximum
    <3> QED
        BY <3>1
  <2>3. /\ ctl' = "stopping" /\ stack' = SubSeq(s, 1, top)
        /\ task' = [task EXCEPT ![s[top]] = "cancelling"]
      BY <1>2 DEF StopFrom
  <2> HIDE DEF top
  <2>4. top \in 1 .. Len(s) /\ s[top] \in Task /\ task[s[top]] \in Alive
      BY <2>1, <2>2
  <2>5. stack' \in Seq(Task) /\ Len(stack') = top /\ \A i \in 1 .. top : stack'[i] = s[i]
      BY <2>3, <2>4
  <2>6. ASSUME NEW t \in Task, task'[t] \in Alive
        PROVE  \E i \in DOMAIN stack' : stack'[i] = t
    <3>1. task[t] \in Alive
        BY <2>3, <2>4, <2>6
    <3>2. PICK i \in DOMAIN s : s[i] = t
        BY <3>1 DEF OnStack
    <3>3. i \in live
        BY <3>1, <3>2
    <3>4. i \in 1 .. top
        BY <2>1, <2>2, <2>4, <3>3
    <3> QED
        BY <2>5, <3>2, <3>4
  <2>7. stack' # <<>>
      BY <2>4, <2>5
  <2>8. task' \in [Task -> {"absent"} \cup Alive \cup Over]
      BY <2>3, <2>4 DEF Alive
  <2>9. \A t \in Task : task'[t] = "cancelling" => t = stack'[Len(stack')]
      BY <2>3, <2>4, <2>5 DEF NoneCancelling
  <2>10. ASSUME s # <<>>, task[s[Len(s)]] \in Alive
         PROVE  task'[s[Len(s)]] = "cancelling"
    <3>1. Len(s) \in live
        BY <2>10
    <3>2. top = Len(s)
        BY <2>2, <2>4, <3>1
    <3> QED
        BY <2>3, <2>4, <3>2
  <2>11. OnStack(stack)'
      BY <2>6 DEF OnStack
  <2>12. \A t \in Task : task'[t] = task[t] \/ (task[t] \in Alive /\ task'[t] = "cancelling")
      BY <2>3, <2>4
  <2>13. ctl' = "stopping" /\ stack' \in Seq(Task)
      BY <2>3, <2>5
  <2> HIDE DEF live, MTTypeOK
  <2> QED
      BY <2>7, <2>8, <2>9, <2>10, <2>11, <2>12, <2>13, Zenon
<1> QED
    BY <1>1, <1>2

LEMMA AddTaskInv == ASSUME MTInv, NEW t \in Task, AddTask(t) PROVE MTInv'
<1> USE DEF MTInv, MTTypeOK
<1>1. stack' \in Seq(Task) /\ stack' = Append(stack, t)
    BY DEF AddTask
<1>2. /\ Len(stack') = Len(stack) + 1 /\ Len(stack) \in Nat /\ stack'[Len(stack) + 1] = t
      /\ \A i \in DOMAIN stack : i \in DOMAIN stack' /\ stack'[i] = stack[i]
    BY <1>1
<1>3. OnStack(stack)'
    BY <1>2 DEF AddTask, OnStack
<1>4. task' \in [Task -> {"absent"} \cup Alive \cup Over]
    BY DEF AddTask, Alive
<1> QED
    BY <1>1, <1>3, <1>4 DEF AddTask

LEMMA TaskEndsInv == ASSUME MTInv, NEW t \in Task, NEW r, TaskEnds(t, r) PROVE MTInv'
<1> USE DEF MTInv, MTTypeOK
<1>1. task' = [task EXCEPT ![t] = r] /\ r \in Over /\ r \notin Alive /\ r # "cancelling"
    BY DEF TaskEnds, Over, Alive
<1>2. task' \in [Task -> {"absent"} \cup Alive \cup Over]
    BY <1>1
<1>3. OnStack(stack)'
    BY <1>1 DEF TaskEnds, OnStack
<1>4. UNCHANGED <<stack, ctl, timed, outcome, stopFailed>>
    BY DEF TaskEnds
<1>5. \A u \in Task : task'[u] = "cancelling" => task[u] = "cancelling"
    BY <1>1
<1> QED
    BY <1>2, <1>3, <1>4, <1>5

LEMMA RunForInv ==
    ASSUME MTInv, NEW forAll \in BOOLEAN, NEW hasDuration \in BOOLEAN,
           RunFor(forAll, hasDuration) \/ RunForAgain(forAll, hasDuration)
    PROVE  MTInv'
BY DEF MTInv, MTTypeOK, RunFor, RunForAgain, OnStack, Over

\* An action that begins or goes on with the unwinding of s.
LEMMA UnwindingInv ==
    ASSUME MTInv, NEW s \in Seq(Task), OnStack(s), NoneCancelling, StopFrom(s), timed' \in BOOLEAN,
           stopFailed' \in BOOLEAN, outcome' \in {"none"} \cup Over
    PROVE  MTInv'
<1>1. /\ task' \in [Task -> {"absent"} \cup Alive \cup Over] /\ stack' \in Seq(Task)
      /\ OnStack(stack)'
      /\ \/ ctl' = "stopped" /\ stack' = <<>>
         \/ ctl' = "stopping" /\ stack' # <<>>
      /\ \A t \in Task : task'[t] = "cancelling" => ctl' = "stopping" /\ t = stack'[Len(stack')]
    BY Unwinding DEF MTInv
<1> QED
    BY <1>1 DEF MTInv, MTTypeOK

\* The task on top of the stack has ended: all that are alive are below it.
LEMMA BelowTop ==
    ASSUME MTInv, ctl = "stopping", task[stack[Len(stack)]] \in Over
    PROVE  /\ SubSeq(stack, 1, Len(stack) - 1) \in Seq(Task)
           /\ OnStack(SubSeq(stack, 1, Len(stack) - 1))
           /\ Len(SubSeq(stack, 1, Len(stack) - 1)) = Len(stack) - 1
           /\ NoneCancelling
<1> DEFINE n == Len(stack)
           s == SubSeq(stack, 1, n - 1)
<1>1. n \in Nat \ {0} /\ stack \in Seq(Task)
    BY DEF MTInv, MTTypeOK
<1>2. s \in Seq(Task) /\ Len(s) = n - 1 /\ \A i \in 1 .. n - 1 : s[i] = stack[i]
  <2>1. \A i \in 1 .. n - 1 : stack[i] \in Task
      BY <1>1
  <2>2. 1 \in Int /\ n - 1 \in Int
      BY <1>1
  <2> HIDE DEF n
  <2>3. /\ s \in Seq(Task) /\ Len(s) = IF 1 <= n - 1 THEN (n - 1) - 1 + 1 ELSE 0
        /\ \A i \in 1 .. (n - 1) - 1 + 1 : s[i] = stack[1 + i - 1]
      BY <2>1, <2>2, SubSeqProperties
  <2> HIDE DEF s
  <2>4. \A i \in 1 .. n - 1 : s[i] = stack[i]
    <3> TAKE i \in 1 .. n - 1
    <3>1. i \in 1 .. (n - 1) - 1 + 1 /\ 1 + i - 1 = i
        BY <1>1
    <3> QED
        BY <2>3, <3>1
  <2>5. Len(s) = n - 1
      BY <1>1, <2>3
  <2> QED
      BY <2>3, <2>4, <2>5
<1>3. ASSUME NEW t \in Task, task[t] \in Alive
      PROVE  \E i \in DOMAIN s : s[i] = t
  <2>1. PICK i \in DOMAIN stack : stack[i] = t
      BY <1>3 DEF MTInv, OnStack
  <2>2. i # n
      BY <1>3, <2>1 DEF Alive, Over
  <2> QED
    <3>1. i \in 1 .. n - 1
        BY <1>1, <2>1, <2>2
    <3>2. i \in DOMAIN s /\ s[i] = stack[i]
        BY <1>1, <1>2, <3>1
    <3> QED
        BY <2>1, <3>2
<1>4. NoneCancelling
    BY DEF NoneCancelling, MTInv, Over
<1> QED
    BY <1>2, <1>3, <1>4 DEF OnStack

LEMMA StopNextInv == ASSUME MTInv, StopNext PROVE MTInv'
<1>1. StopFrom(SubSeq(stack, 1, Len(stack) - 1))
    BY DEF StopNext
<1>2. timed' \in BOOLEAN /\ stopFailed' \in BOOLEAN /\ outcome' \in {"none"} \cup Over
    BY DEF StopNext, MTInv, MTTypeOK
<1>3. /\ SubSeq(stack, 1, Len(stack) - 1) \in Seq(Task)
      /\ OnStack(SubSeq(stack, 1, Len(stack) - 1)) /\ NoneCancelling
    BY BelowTop DEF StopNext
<1> QED
    BY <1>1, <1>2, <1>3, UnwindingInv

LEMMA StopInv ==
    ASSUME MTInv, (\E o \in Over : RunForEnds(o)) \/ RunForCancelled \/ CancelPendingTasks
    PROVE  MTInv'
<1>1. StopFrom(stack)
    BY DEF RunForEnds, RunForCancelled, CancelPendingTasks
<1>2. timed' \in BOOLEAN /\ stopFailed' \in BOOLEAN /\ outcome' \in {"none"} \cup Over
    BY DEF RunForEnds, RunForCancelled, CancelPendingTasks, MTInv, MTTypeOK, Over
<1>3. ctl # "stopping"
    BY DEF RunForEnds, RunForCancelled, CancelPendingTasks
<1> QED
    BY <1>1, <1>2, <1>3, UnwindingInv DEF MTInv, MTTypeOK, NoneCancelling

\* A step of the stop only ever cancels tasks, ...
LEMMA StopFate ==
    ASSUME MTInv,
           (\E o \in Over : RunForEnds(o)) \/ RunForCancelled \/ CancelPendingTasks \/ StopNext,
           NEW t \in Task
    PROVE  task'[t] = task[t] \/ (task[t] \in Alive /\ task'[t] = "cancelling")
<1>1. CASE StopNext
  <2>1. StopFrom(SubSeq(stack, 1, Len(stack) - 1))
      BY <1>1 DEF StopNext
  <2>2. /\ SubSeq(stack, 1, Len(stack) - 1) \in Seq(Task)
        /\ OnStack(SubSeq(stack, 1, Len(stack) - 1)) /\ NoneCancelling
      BY <1>1, BelowTop DEF StopNext
  <2> QED
      BY <2>1, <2>2, Unwinding DEF MTInv
<1>2. CASE (\E o \in Over : RunForEnds(o)) \/ RunForCancelled \/ CancelPendingTasks
  <2>1. StopFrom(stack) /\ ctl # "stopping"
      BY <1>2 DEF RunForEnds, RunForCancelled, CancelPendingTasks
  <2> QED
      BY <2>1, Unwinding DEF MTInv, MTTypeOK, NoneCancelling
<1> QED
    BY <1>1, <1>2

\* ... and its first one the task that was added last.
LEMMA TopCancelled ==
    ASSUME MTInv, (\E o \in Over : RunForEnds(o)) \/ RunForCancelled \/ CancelPendingTasks,
           NEW t \in Task, stack # <<>>, t = stack[Len(stack)], task[t] \in Alive
    PROVE  task'[t] = "cancelling"
<1>1. StopFrom(stack) /\ ctl # "stopping"
    BY DEF RunForEnds, RunForCancelled, CancelPendingTasks
<1> QED
    BY <1>1, Unwinding DEF MTInv, MTTypeOK, NoneCancelling

LEMMA MTInvNothing == MTInv => NothingPending
<1> SUFFICES ASSUME MTInv, ctl = "stopped", NEW t \in Task, task[t] \in Alive PROVE FALSE
    BY DEF NothingPending
<1>1. stack = <<>> /\ \E i \in DOMAIN stack : stack[i] = t
    BY DEF MTInv, OnStack
<1>2. DOMAIN <<>> = {}
    OBVIOUS
<1> QED
    BY <1>1, <1>2

LEMMA NextMT == MTInv /\ [MTNext]_mtVars => MTInv'
<1> SUFFICES ASSUME MTInv, [MTNext]_mtVars PROVE MTInv'
    OBVIOUS
<1>1. CASE UNCHANGED mtVars
    BY <1>1 DEF mtVars, MTInv, MTTypeOK, OnStack
<1>2. ASSUME NEW t \in Task, AddTask(t) PROVE MTInv'
    BY <1>2, AddTaskInv
<1>3. ASSUME NEW t \in Task, NEW r \in Over, TaskEnds(t, r) PROVE MTInv'
    BY <1>3, TaskEndsInv
<1>4. ASSUME NEW forAll \in BOOLEAN, NEW hasDuration \in BOOLEAN,
             RunFor(forAll, hasDuration) \/ RunForAgain(forAll, hasDuration)
      PROVE  MTInv'
    BY <1>4, RunForInv
<1>5. ASSUME (\E o \in Over : RunForEnds(o)) \/ RunForCancelled \/ CancelPendingTasks
      PROVE  MTInv'
    BY <1>5, StopInv
<1>6. CASE StopNext
    BY <1>6, StopNextInv
<1> QED
    BY <1>1, <1>2, <1>3, <1>4, <1>5, <1>6 DEF MTNext

\* However its tasks end and whatever they raise, when cancel_pending_tasks returns
\* none of the tasks that were ever added is still running.
THEOREM ControllerLeavesNothing == MTSpec => [](MTTypeOK /\ NothingPending)
<1>1. MTInit => MTInv
    BY InitMT
<1>2. MTInv /\ [MTNext]_mtVars => MTInv'
    BY NextMT
<1>3. MTInv => MTTypeOK /\ NothingPending
    BY MTInvNothing DEF MTInv
<1> QED
    BY <1>1, <1>2, <1>3, PTL DEF MTSpec

-----------------------------------------------------------------------------
(* The stop comes to its end *)

\* Unwinding s leaves no more on the stack than there was on s, and on top a task
\* that it has just cancelled.
LEMMA StopFromShortens ==
    ASSUME MTTypeOK, NEW s \in Seq(Task), StopFrom(s)
    PROVE  /\ Len(stack') \in Nat /\ Len(stack') <= Len(s)
           /\ \/ ctl' = "stopped" /\ stack' = <<>>
              \/ ctl' = "stopping" /\ task'[stack'[Len(stack')]] = "cancelling"
<1> DEFINE live == {i \in DOMAIN s : task[s[i]] \in Alive}
           top == CHOOSE i \in live : \A j \in live : j <= i
<1>1. Len(s) \in Nat /\ live \subseteq 1 .. Len(s)
    OBVIOUS
<1>2. CASE live = {}
  <2>1. stack' = <<>> /\ ctl' = "stopped"
      BY <1>2 DEF StopFrom
  <2> QED
      BY <1>1, <2>1
<1>3. CASE live # {}
  <2>1. /\ stack' = SubSeq(s, 1, top) /\ ctl' = "stopping"
        /\ task' = [task EXCEPT ![s[top]] = "cancelling"]
      BY <1>3 DEF StopFrom
  <2>2. \E i \in live : \A j \in live : j <= i
    <3> HIDE DEF live
    <3> QED
        BY <1>1, <1>3, HasMaximum
  <2>3. top \in 1 .. Len(s)
    <3> HIDE DEF live
    <3> QED
        BY <1>1, <2>2
  <2> HIDE DEF top
  <2>4. Len(stack') = top /\ stack'[top] = s[top] /\ s[top] \in Task
      BY <2>1, <2>3
  <2> QED
      BY <1>1, <2>1, <2>3, <2>4 DEF MTTypeOK
<1> QED
    BY <1>2, <1>3

\* The stop never waits for a task that it has not cancelled.
WaitsForCancelled ==
    ctl = "stopping" => task[stack[Len(stack)]] \in {"cancelling"} \cup Over

LEMMA NextWaits == ASSUME MTInv, WaitsForCancelled, [MTNext]_mtVars PROVE WaitsForCancelled'
<1> USE DEF WaitsForCancelled
<1>0. MTTypeOK /\ (ctl = "stopping" => stack[Len(stack)] \in Task)
    BY DEF MTInv, MTTypeOK
<1>1. CASE UNCHANGED mtVars
    BY <1>1 DEF mtVars
<1>2. ASSUME NEW t \in Task, NEW r \in Over, TaskEnds(t, r) PROVE WaitsForCancelled'
    BY <1>0, <1>2 DEF TaskEnds, MTTypeOK
<1>3. ASSUME NEW s \in Seq(Task), StopFrom(s) PROVE WaitsForCancelled'
    BY <1>0, <1>3, StopFromShortens
<1>4. CASE StopNext
  <2>1. StopFrom(SubSeq(stack, 1, Len(stack) - 1)) /\ SubSeq(stack, 1, Len(stack) - 1) \in Seq(Task)
      BY <1>4, BelowTop DEF StopNext
  <2> QED
      BY <1>3, <2>1
<1>5. CASE (\E o \in Over : RunForEnds(o)) \/ RunForCancelled \/ CancelPendingTasks
  <2>1. StopFrom(stack) /\ stack \in Seq(Task)
      BY <1>0, <1>5 DEF RunForEnds, RunForCancelled, CancelPendingTasks, MTTypeOK
  <2> QED
      BY <1>3, <2>1
<1>6. CASE \/ \E t \in Task : AddTask(t)
           \/ \E f, d \in BOOLEAN : RunFor(f, d) \/ RunForAgain(f, d)
    BY <1>6 DEF AddTask, RunFor, RunForAgain
<1> QED
    BY <1>1, <1>2, <1>4, <1>5, <1>6 DEF MTNext

\* cancel_pending_tasks only waits for tasks that it has cancelled, and for each at
\* most once: its stack never grows, shrinks with every task that has ended, and is
\* only left when it is empty.  So it ends if each cancelled task does, after as many
\* waits as tasks were added.
THEOREM StopShrinks ==
    MTSpec => /\ []WaitsForCancelled
              /\ [][ctl = "stopping" =>
                       /\ ctl' \in {"stopping", "stopped"}
                       /\ Len(stack') <= Len(stack)
                       /\ StopNext => Len(stack') < Len(stack)]_mtVars
<1> DEFINE Shrinks == /\ ctl' \in {"stopping", "stopped"}
                      /\ Len(stack') <= Len(stack)
                      /\ StopNext => Len(stack') < Len(stack)
<1>1. MTInit => MTInv /\ WaitsForCancelled
    BY InitMT DEF MTInit, WaitsForCancelled
<1>2. ASSUME MTInv, ctl = "stopping", MTNext PROVE Shrinks
  <2>1. Len(stack) \in Nat \ {0} /\ stack \in Seq(Task)
      BY <1>2 DEF MTInv, MTTypeOK
  <2>2. CASE StopNext
    <3>1. StopFrom(SubSeq(stack, 1, Len(stack) - 1)) /\ task[stack[Len(stack)]] \in Over
        BY <2>2 DEF StopNext
    <3>2. /\ SubSeq(stack, 1, Len(stack) - 1) \in Seq(Task)
          /\ Len(SubSeq(stack, 1, Len(stack) - 1)) = Len(stack) - 1
        BY <1>2, <3>1, BelowTop
    <3>3. Len(stack') \in Nat /\ Len(stack') <= Len(stack) - 1
        BY <1>2, <3>1, <3>2, StopFromShortens DEF MTInv
    <3>4. ctl' \in {"stopping", "stopped"}
        BY <3>1 DEF StopFrom
    <3> QED
        BY <2>1, <3>3, <3>4
  <2>3. CASE ~StopNext
    <3>1. PICK t \in Task, r \in Over : TaskEnds(t, r)
        BY <1>2, <2>3 DEF MTNext, AddTask, RunFor, RunForAgain, RunForEnds, RunForCancelled,
           CancelPendingTasks
    <3> QED
        BY <1>2, <2>1, <2>3, <3>1 DEF TaskEnds
  <2> QED
      BY <2>2, <2>3
<1>3. MTInv /\ WaitsForCancelled /\ [MTNext]_mtVars
      => MTInv' /\ WaitsForCancelled' /\ [ctl = "stopping" => Shrinks]_mtVars
    BY <1>2, NextMT, NextWaits
<1> QED
    BY <1>1, <1>3, PTL DEF MTSpec
=============================================================================
