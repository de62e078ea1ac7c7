-------------------------- MODULE InvocationProofs --------------------------
(***************************************************************************)
(* Theorems about every Invocation: any return codes, any delays.          *)
(*                                                                         *)
(* TypeOK is inductive.  The three other invariants are not, because they  *)
(* speak of the ends of a run and of its pauses only; each theorem is      *)
(* proved from an inductive invariant that also says what holds at the     *)
(* awaits before: ProcessInv of the process, OutcomeInv of the exception   *)
(* under way and of skip_verify_return_code, AskedInv of restart_delay and *)
(* StoppedInv of a delivered cancellation.  Together with SeenInv they     *)
(* show that an Invocation implements ManagedProcess: ManagedStep has one  *)
(* step per action, and ConcludeSeen is the end of _terminate that five of *)
(* them share.                                                             *)
(***************************************************************************)
EXTENDS Invocation, TLAPS

\* A process that was sent SIGKILL does not run, and there is none before the
\* monitor task is created.
ProcessInv ==
    /\ NoProcessLeftBehind
    /\ pc = "idle" => proc = "none"
    /\ pc = "killing" => proc # "live"

\* Only an ended task has a result, _terminate waits only while an exception is
\* raised, and a process is started again only with the verification skipped.
OutcomeInv ==
    /\ OutcomeTellsReturnCode
    /\ pc # "done" => result = "pending"
    /\ pc \in {"terminating", "killing"} => raised # "returned"
    /\ pc = "idle" => proc = "none"
    /\ pc = "starting" => skip \/ proc = "none"
    /\ pc = "delay" => skip /\ shouldRestart

\* While the process is watched, restart_delay is that of the last call.
AskedInv ==
    /\ SleepsAsAsked
    /\ pc = "communicating" /\ asked # None => restartDelay = asked

\* Once a cancellation is delivered, the task is ending.
StoppedInv ==
    stopped /\ ~cancelPending => pc \in {"terminating", "killing", "done"}

-----------------------------------------------------------------------------
\* Every step keeps the types.
LEMMA TypeStep ==
    ASSUME TypeOK, [Next]_vars
    PROVE  TypeOK'
<1> USE CodesAssumption, DelaysAssumption DEF TypeOK, PCs
<1>1. ASSUME RunAsTask PROVE TypeOK'
  BY <1>1 DEF RunAsTask, settings
<1>2. ASSUME Start PROVE TypeOK'
  BY <1>2 DEF Start, settings
<1>3. ASSUME StartFails PROVE TypeOK'
  BY <1>3 DEF StartFails, EndTask, settings
<1>4. ASSUME CommunicateEnds PROVE TypeOK'
  <2>1. /\ pc' \in {"delay", "done"} /\ sleep' \in {sleep, restartDelay}
        /\ shouldRestart' = keepAlive /\ skip' \in {skip, TRUE} /\ returnCode' = code
    BY <1>4 DEF CommunicateEnds, Conclude
  <2>2. result' \in {result, "returned", "failed", "error"}
    BY <1>4 DEF CommunicateEnds, Conclude, Outcome
  <2>3. UNCHANGED <<proc, code, restartDelay, raised, cancelPending, asked, stopped, settings>>
    BY <1>4 DEF CommunicateEnds
  <2>4. pc' \in PCs /\ sleep' \in Delays /\ skip' \in BOOLEAN
        /\ returnCode' \in Codes \cup {None}
        /\ result' \in {"pending", "returned", "failed", "cancelled", "error"}
    BY <2>1, <2>2
  <2>. QED
    BY <2>1, <2>3, <2>4 DEF settings
<1>5. ASSUME DelayElapses PROVE TypeOK'
  BY <1>5 DEF DelayElapses, EndTask, settings
<1>6. ASSUME CancelDelivered PROVE TypeOK'
  <2>1. /\ cancelPending' \in BOOLEAN
        /\ UNCHANGED <<code, restartDelay, sleep, asked, stopped, keepAlive, verify, logs>>
    BY <1>6 DEF CancelDelivered, settings
  <2>2. \A sk : Outcome("cancelled", sk) \in {"cancelled", "failed", "error"}
    BY DEF Outcome
  <2>3. CASE /\ EndTask("cancelled")
             /\ UNCHANGED <<proc, shouldRestart, skip, raised>>
    BY <2>1, <2>3 DEF EndTask
  <2>4. CASE Unwind("cancelled")
    <3>1. /\ pc' \in PCs /\ proc' = proc /\ shouldRestart' = keepAlive /\ skip' = keepAlive
          /\ raised' = "cancelled"
      BY <2>4 DEF Unwind, Conclude
    <3>2. /\ returnCode' \in {returnCode, code}
          /\ result' \in {result, "cancelled", "failed", "error"}
      BY <2>4, <2>2 DEF Unwind, Conclude
    <3>. QED
      BY <2>1, <3>1, <3>2
  <2>5. CASE Interrupt("cancelled")
    <3>1. /\ pc' = "done" /\ proc' \in {proc, "killed"}
          /\ UNCHANGED <<shouldRestart, skip, raised>>
      BY <2>5 DEF Interrupt, Conclude
    <3>2. returnCode' = code /\ result' \in {"cancelled", "failed", "error"}
      BY <2>5, <2>2 DEF Interrupt, Conclude
    <3>. QED
      BY <2>1, <3>1, <3>2
  <2>. QED
    BY <1>6, <2>3, <2>4, <2>5 DEF CancelDelivered
<1>7. ASSUME Terminated PROVE TypeOK'
  BY <1>7 DEF Terminated, Conclude, Outcome, settings
<1>8. ASSUME StopTimeout PROVE TypeOK'
  BY <1>8 DEF StopTimeout, Conclude, Outcome, settings
<1>9. ASSUME KillTimeout PROVE TypeOK'
  BY <1>9 DEF KillTimeout, Conclude, Outcome, settings
<1>10. ASSUME ReadFails PROVE TypeOK'
  BY <1>10 DEF ReadFails, Unwind, Interrupt, Conclude, Outcome, settings
<1>11. ASSUME NEW c \in Codes, Exit(c) PROVE TypeOK'
  BY <1>11 DEF Exit, settings
<1>12. ASSUME NEW d \in Delays, Restart(d) PROVE TypeOK'
  BY <1>12 DEF Restart, settings
<1>13. ASSUME Cancel PROVE TypeOK'
  BY <1>13 DEF Cancel, settings
<1>14. ASSUME EngageKeepAlive PROVE TypeOK'
  BY <1>14 DEF EngageKeepAlive, settings
<1>15. ASSUME LogsBreak PROVE TypeOK'
  BY <1>15 DEF LogsBreak, settings
<1>16. ASSUME UNCHANGED vars PROVE TypeOK'
  BY <1>16 DEF vars, settings
<1>. QED
  BY <1>1, <1>2, <1>3, <1>4, <1>5, <1>6, <1>7, <1>8,
     <1>9, <1>10, <1>11, <1>12, <1>13, <1>14, <1>15, <1>16
     DEF Next, Monitor

\* Every field holds a value of its type, whatever the return codes and delays.
THEOREM TypeCorrect == Spec => []TypeOK
<1>1. Init => TypeOK
  BY CodesAssumption, DelaysAssumption DEF Init, TypeOK, PCs
<1>2. TypeOK /\ [Next]_vars => TypeOK'
  BY TypeStep
<1>. QED
  BY <1>1, <1>2, PTL DEF Spec

-----------------------------------------------------------------------------
\* Every step keeps ProcessInv.
LEMMA ProcessStep ==
    ASSUME TypeOK, ProcessInv, [Next]_vars
    PROVE  ProcessInv'
<1> USE DEF TypeOK, PCs, ProcessInv, NoProcessLeftBehind
<1>1. ASSUME RunAsTask PROVE ProcessInv'
  BY <1>1 DEF RunAsTask, settings
<1>2. ASSUME Start PROVE ProcessInv'
  BY <1>2 DEF Start, settings
<1>3. ASSUME StartFails PROVE ProcessInv'
  BY <1>3 DEF StartFails, EndTask, settings
<1>4. ASSUME CommunicateEnds PROVE ProcessInv'
  BY <1>4 DEF CommunicateEnds, Conclude, settings
<1>5. ASSUME DelayElapses PROVE ProcessInv'
  BY <1>5 DEF DelayElapses, EndTask, settings
<1>6. ASSUME CancelDelivered PROVE ProcessInv'
  BY <1>6
     DEF CancelDelivered, EndTask, Unwind, Interrupt, Conclude, settings
<1>7. ASSUME Terminated PROVE ProcessInv'
  BY <1>7 DEF Terminated, Conclude, settings
<1>8. ASSUME StopTimeout PROVE ProcessInv'
  BY <1>8 DEF StopTimeout, Conclude, settings
<1>9. ASSUME KillTimeout PROVE ProcessInv'
  BY <1>9 DEF KillTimeout, Conclude, settings
<1>10. ASSUME ReadFails PROVE ProcessInv'
  BY <1>10 DEF ReadFails, Unwind, Interrupt, Conclude, settings
<1>11. ASSUME NEW c \in Codes, Exit(c) PROVE ProcessInv'
  BY <1>11 DEF Exit, settings
<1>12. ASSUME NEW d \in Delays, Restart(d) PROVE ProcessInv'
  BY <1>12 DEF Restart, settings
<1>13. ASSUME Cancel PROVE ProcessInv'
  BY <1>13 DEF Cancel, settings
<1>14. ASSUME EngageKeepAlive PROVE ProcessInv'
  BY <1>14 DEF EngageKeepAlive, settings
<1>15. ASSUME LogsBreak PROVE ProcessInv'
  BY <1>15 DEF LogsBreak, settings
<1>16. ASSUME UNCHANGED vars PROVE ProcessInv'
  BY <1>16 DEF vars, settings
<1>. QED
  BY <1>1, <1>2, <1>3, <1>4, <1>5, <1>6, <1>7, <1>8,
     <1>9, <1>10, <1>11, <1>12, <1>13, <1>14, <1>15, <1>16
     DEF Next, Monitor

\* The inductive invariant holds of every state of an Invocation.
LEMMA ProcessInvHolds == Spec => []ProcessInv
<1>1. Init => ProcessInv
  BY DEF Init, ProcessInv, NoProcessLeftBehind
<1>2. TypeOK /\ ProcessInv /\ [Next]_vars => ProcessInv'
  BY ProcessStep
<1>. QED
  BY <1>1, <1>2, TypeCorrect, PTL DEF Spec

\* No interleaving of cancellations, restarts, time limits and failing readers
\* leaves a process running behind a monitor task that has ended or is about to
\* start another one: the finally clauses of _run and _terminate suffice as long
\* as log calls return.
THEOREM NothingLeftBehind == Spec => []NoProcessLeftBehind
<1>1. ProcessInv => NoProcessLeftBehind
  BY DEF ProcessInv
<1>. QED
  BY <1>1, ProcessInvHolds, PTL

-----------------------------------------------------------------------------
\* Every step keeps OutcomeInv.
LEMMA OutcomeStep ==
    ASSUME TypeOK, OutcomeInv, [Next]_vars
    PROVE  OutcomeInv'
<1> USE DEF TypeOK, PCs, OutcomeInv, OutcomeTellsReturnCode
<1>1. ASSUME RunAsTask PROVE OutcomeInv'
  BY <1>1 DEF RunAsTask, settings
<1>2. ASSUME Start PROVE OutcomeInv'
  BY <1>2 DEF Start, settings
<1>3. ASSUME StartFails PROVE OutcomeInv'
  BY <1>3 DEF StartFails, EndTask, settings
<1>4. ASSUME CommunicateEnds PROVE OutcomeInv'
  BY <1>4 DEF CommunicateEnds, Conclude, Outcome, settings
<1>5. ASSUME DelayElapses PROVE OutcomeInv'
  BY <1>5 DEF DelayElapses, EndTask, settings
<1>6. ASSUME CancelDelivered PROVE OutcomeInv'
  BY <1>6
     DEF CancelDelivered, EndTask, Unwind, Interrupt, Conclude,
         Outcome, settings
<1>7. ASSUME Terminated PROVE OutcomeInv'
  BY <1>7 DEF Terminated, Conclude, Outcome, settings
<1>8. ASSUME StopTimeout PROVE OutcomeInv'
  BY <1>8 DEF StopTimeout, Conclude, Outcome, settings
<1>9. ASSUME KillTimeout PROVE OutcomeInv'
  BY <1>9 DEF KillTimeout, Conclude, Outcome, settings
<1>10. ASSUME ReadFails PROVE OutcomeInv'
  BY <1>10 DEF ReadFails, Unwind, Interrupt, Conclude, Outcome, settings
<1>11. ASSUME NEW c \in Codes, Exit(c) PROVE OutcomeInv'
  BY <1>11 DEF Exit, settings
<1>12. ASSUME NEW d \in Delays, Restart(d) PROVE OutcomeInv'
  BY <1>12 DEF Restart, settings
<1>13. ASSUME Cancel PROVE OutcomeInv'
  BY <1>13 DEF Cancel, settings
<1>14. ASSUME EngageKeepAlive PROVE OutcomeInv'
  BY <1>14 DEF EngageKeepAlive, settings
<1>15. ASSUME LogsBreak PROVE OutcomeInv'
  BY <1>15 DEF LogsBreak, settings
<1>16. ASSUME UNCHANGED vars PROVE OutcomeInv'
  BY <1>16 DEF vars, settings
<1>. QED
  BY <1>1, <1>2, <1>3, <1>4, <1>5, <1>6, <1>7, <1>8,
     <1>9, <1>10, <1>11, <1>12, <1>13, <1>14, <1>15, <1>16
     DEF Next, Monitor

\* The outcome of the monitor task agrees with the verified return code: the
\* verification at the end of _terminate is never skipped by an order of events.
THEOREM OutcomesAreTrue == Spec => []OutcomeTellsReturnCode
<1>1. Init => OutcomeInv
  BY DEF Init, OutcomeInv, OutcomeTellsReturnCode
<1>2. TypeOK /\ OutcomeInv /\ [Next]_vars => OutcomeInv'
  BY OutcomeStep
<1>3. OutcomeInv => OutcomeTellsReturnCode
  BY DEF OutcomeInv
<1>. QED
  BY <1>1, <1>2, <1>3, TypeCorrect, PTL DEF Spec

-----------------------------------------------------------------------------
\* Every step keeps AskedInv.
LEMMA AskedStep ==
    ASSUME ProcessInv, AskedInv, [Next]_vars
    PROVE  AskedInv'
<1> USE DEF ProcessInv, NoProcessLeftBehind, AskedInv, SleepsAsAsked
<1>1. ASSUME RunAsTask PROVE AskedInv'
  BY <1>1 DEF RunAsTask, settings
<1>2. ASSUME Start PROVE AskedInv'
  BY <1>2 DEF Start, settings
<1>3. ASSUME StartFails PROVE AskedInv'
  BY <1>3 DEF StartFails, EndTask, settings
<1>4. ASSUME CommunicateEnds PROVE AskedInv'
  BY <1>4 DEF CommunicateEnds, Conclude, settings
<1>5. ASSUME DelayElapses PROVE AskedInv'
  BY <1>5 DEF DelayElapses, EndTask, settings
<1>6. ASSUME CancelDelivered PROVE AskedInv'
  BY <1>6
     DEF CancelDelivered, EndTask, Unwind, Interrupt, Conclude, settings
<1>7. ASSUME Terminated PROVE AskedInv'
  BY <1>7 DEF Terminated, Conclude, settings
<1>8. ASSUME StopTimeout PROVE AskedInv'
  BY <1>8 DEF StopTimeout, Conclude, settings
<1>9. ASSUME KillTimeout PROVE AskedInv'
  BY <1>9 DEF KillTimeout, Conclude, settings
<1>10. ASSUME ReadFails PROVE AskedInv'
  BY <1>10 DEF ReadFails, Unwind, Interrupt, Conclude, settings
<1>11. ASSUME NEW c \in Codes, Exit(c) PROVE AskedInv'
  BY <1>11 DEF Exit, settings
<1>12. ASSUME NEW d \in Delays, Restart(d) PROVE AskedInv'
  BY <1>12 DEF Restart, settings
<1>13. ASSUME Cancel PROVE AskedInv'
  BY <1>13 DEF Cancel, settings
<1>14. ASSUME EngageKeepAlive PROVE AskedInv'
  BY <1>14 DEF EngageKeepAlive, settings
<1>15. ASSUME LogsBreak PROVE AskedInv'
  BY <1>15 DEF LogsBreak, settings
<1>16. ASSUME UNCHANGED vars PROVE AskedInv'
  BY <1>16 DEF vars, settings
<1>. QED
  BY <1>1, <1>2, <1>3, <1>4, <1>5, <1>6, <1>7, <1>8,
     <1>9, <1>10, <1>11, <1>12, <1>13, <1>14, <1>15, <1>16
     DEF Next, Monitor

\* A restarted process stays down for the delay of the last call of restart()
\* made while its process was watched.
THEOREM DelaysAreKept == Spec => []SleepsAsAsked
<1>1. Init => AskedInv
  BY DEF Init, AskedInv, SleepsAsAsked
<1>2. ProcessInv /\ AskedInv /\ [Next]_vars => AskedInv'
  BY AskedStep
<1>3. AskedInv => SleepsAsAsked
  BY DEF AskedInv
<1>. QED
  BY <1>1, <1>2, <1>3, ProcessInvHolds, PTL DEF Spec

-----------------------------------------------------------------------------
\* Every step keeps StoppedInv.
LEMMA StoppedStep ==
    ASSUME TypeOK, StoppedInv, [Next]_vars
    PROVE  StoppedInv'
<1> USE DEF TypeOK, PCs, StoppedInv
<1>1. ASSUME RunAsTask PROVE StoppedInv'
  BY <1>1 DEF RunAsTask, settings
<1>2. ASSUME Start PROVE StoppedInv'
  BY <1>2 DEF Start, settings
<1>3. ASSUME StartFails PROVE StoppedInv'
  BY <1>3 DEF StartFails, EndTask, settings
<1>4. ASSUME CommunicateEnds PROVE StoppedInv'
  BY <1>4 DEF CommunicateEnds, Conclude, settings
<1>5. ASSUME DelayElapses PROVE StoppedInv'
  BY <1>5 DEF DelayElapses, EndTask, settings
<1>6. ASSUME CancelDelivered PROVE StoppedInv'
  BY <1>6
     DEF CancelDelivered, EndTask, Unwind, Interrupt, Conclude, settings
<1>7. ASSUME Terminated PROVE StoppedInv'
  BY <1>7 DEF Terminated, Conclude, settings
<1>8. ASSUME StopTimeout PROVE StoppedInv'
  BY <1>8 DEF StopTimeout, Conclude, settings
<1>9. ASSUME KillTimeout PROVE StoppedInv'
  BY <1>9 DEF KillTimeout, Conclude, settings
<1>10. ASSUME ReadFails PROVE StoppedInv'
  BY <1>10 DEF ReadFails, Unwind, Interrupt, Conclude, settings
<1>11. ASSUME NEW c \in Codes, Exit(c) PROVE StoppedInv'
  BY <1>11 DEF Exit, settings
<1>12. ASSUME NEW d \in Delays, Restart(d) PROVE StoppedInv'
  BY <1>12 DEF Restart, settings
<1>13. ASSUME Cancel PROVE StoppedInv'
  BY <1>13 DEF Cancel, settings
<1>14. ASSUME EngageKeepAlive PROVE StoppedInv'
  BY <1>14 DEF EngageKeepAlive, settings
<1>15. ASSUME LogsBreak PROVE StoppedInv'
  BY <1>15 DEF LogsBreak, settings
<1>16. ASSUME UNCHANGED vars PROVE StoppedInv'
  BY <1>16 DEF vars, settings
<1>. QED
  BY <1>1, <1>2, <1>3, <1>4, <1>5, <1>6, <1>7, <1>8,
     <1>9, <1>10, <1>11, <1>12, <1>13, <1>14, <1>15, <1>16
     DEF Next, Monitor

\* After a cancellation no step starts a process.
LEMMA FinalStep ==
    ASSUME TypeOK, StoppedInv, [Next]_vars
    PROVE  stopped /\ proc # "live" => proc' # "live"
<1> DEFINE Goal == stopped /\ proc # "live" => proc' # "live"
<1> SUFFICES Goal
  OBVIOUS
<1> USE DEF TypeOK, PCs, StoppedInv
<1>1. ASSUME RunAsTask PROVE Goal
  BY <1>1 DEF RunAsTask, settings
<1>2. ASSUME Start PROVE Goal
  BY <1>2 DEF Start, settings
<1>3. ASSUME StartFails PROVE Goal
  BY <1>3 DEF StartFails, settings
<1>4. ASSUME CommunicateEnds PROVE Goal
  BY <1>4 DEF CommunicateEnds, settings
<1>5. ASSUME DelayElapses PROVE Goal
  BY <1>5 DEF DelayElapses, settings
<1>6. ASSUME CancelDelivered PROVE Goal
  BY <1>6
     DEF CancelDelivered, Unwind, Interrupt, settings
<1>7. ASSUME Terminated PROVE Goal
  BY <1>7 DEF Terminated, settings
<1>8. ASSUME StopTimeout PROVE Goal
  BY <1>8 DEF StopTimeout, settings
<1>9. ASSUME KillTimeout PROVE Goal
  BY <1>9 DEF KillTimeout, settings
<1>10. ASSUME ReadFails PROVE Goal
  BY <1>10 DEF ReadFails, Unwind, Interrupt, settings
<1>11. ASSUME NEW c \in Codes, Exit(c) PROVE Goal
  BY <1>11 DEF Exit, settings
<1>12. ASSUME NEW d \in Delays, Restart(d) PROVE Goal
  BY <1>12 DEF Restart, settings
<1>13. ASSUME Cancel PROVE Goal
  BY <1>13 DEF Cancel, settings
<1>14. ASSUME EngageKeepAlive PROVE Goal
  BY <1>14 DEF EngageKeepAlive, settings
<1>15. ASSUME LogsBreak PROVE Goal
  BY <1>15 DEF LogsBreak, settings
<1>16. ASSUME UNCHANGED vars PROVE Goal
  BY <1>16 DEF vars, settings
<1>. QED
  BY <1>1, <1>2, <1>3, <1>4, <1>5, <1>6, <1>7, <1>8,
     <1>9, <1>10, <1>11, <1>12, <1>13, <1>14, <1>15, <1>16
     DEF Next, Monitor

\* Cancelling is final: no process is started once cancel() has been called, not
\* even by a monitor task that keeps its process alive.
THEOREM CancellingIsFinal == Spec => CancelIsFinal
<1>1. Init => StoppedInv
  BY DEF Init, StoppedInv
<1>2. TypeOK /\ StoppedInv /\ [Next]_vars => StoppedInv'
  BY StoppedStep
<1>3. TypeOK /\ StoppedInv /\ [Next]_vars
        => [stopped /\ proc # "live" => proc' # "live"]_vars
  BY FinalStep
<1>. QED
  BY <1>1, <1>2, <1>3, TypeCorrect, PTL DEF Spec, CancelIsFinal

-----------------------------------------------------------------------------
(* An Invocation is a managed process to its callers *)

\* What the two views share: a process that runs has not been asked to pause, only an
\* error ends a task before its process, a cancellation under way was called for, and
\* the verification is skipped only for a process that is kept alive.
SeenInv ==
    /\ proc = "live" => asked = None
    /\ cancelPending => stopped
    /\ stopped => pc # "idle"
    /\ pc = "done" /\ proc = "live" => result = "error"
    /\ pc \in {"communicating", "terminating", "killing"} => proc # "none"
    /\ pc \in {"terminating", "killing"} =>
          /\ skip => keepAlive
          /\ raised = "cancelled" => stopped

ManagedInv == TypeOK /\ ProcessInv /\ OutcomeInv /\ StoppedInv /\ SeenInv

\* Every step keeps SeenInv.
LEMMA SeenStep ==
    ASSUME TypeOK, ProcessInv, SeenInv, [Next]_vars
    PROVE  SeenInv'
<1> USE DEF TypeOK, PCs, ProcessInv, NoProcessLeftBehind, SeenInv
<1>1. ASSUME RunAsTask PROVE SeenInv'
  BY <1>1 DEF RunAsTask, settings
<1>2. ASSUME Start PROVE SeenInv'
  BY <1>2 DEF Start, settings
<1>3. ASSUME StartFails PROVE SeenInv'
  BY <1>3 DEF StartFails, EndTask, settings
<1>4. ASSUME CommunicateEnds PROVE SeenInv'
  BY <1>4 DEF CommunicateEnds, Conclude, Outcome, settings
<1>5. ASSUME DelayElapses PROVE SeenInv'
  BY <1>5 DEF DelayElapses, EndTask, settings
<1>6. ASSUME CancelDelivered PROVE SeenInv'
  BY <1>6 DEF CancelDelivered, EndTask, Unwind, Interrupt, Conclude, Outcome, settings
<1>7. ASSUME Terminated PROVE SeenInv'
  BY <1>7 DEF Terminated, Conclude, Outcome, settings
<1>8. ASSUME StopTimeout PROVE SeenInv'
  BY <1>8 DEF StopTimeout, Conclude, Outcome, settings
<1>9. ASSUME KillTimeout PROVE SeenInv'
  BY <1>9 DEF KillTimeout, Conclude, Outcome, settings
<1>10. ASSUME ReadFails PROVE SeenInv'
  BY <1>10 DEF ReadFails, Unwind, Interrupt, Conclude, Outcome, settings
<1>11. ASSUME NEW c \in Codes, Exit(c) PROVE SeenInv'
  BY <1>11 DEF Exit, settings
<1>12. ASSUME NEW d \in Delays, Restart(d) PROVE SeenInv'
  BY <1>12 DEF Restart, settings
<1>13. ASSUME Cancel PROVE SeenInv'
  BY <1>13 DEF Cancel, settings
<1>14. ASSUME EngageKeepAlive PROVE SeenInv'
  BY <1>14 DEF EngageKeepAlive, settings
<1>15. ASSUME LogsBreak PROVE SeenInv'
  BY <1>15 DEF LogsBreak, settings
<1>16. ASSUME UNCHANGED vars PROVE SeenInv'
  BY <1>16 DEF vars, settings
<1>. QED
  BY <1>1, <1>2, <1>3, <1>4, <1>5, <1>6, <1>7, <1>8,
     <1>9, <1>10, <1>11, <1>12, <1>13, <1>14, <1>15, <1>16
     DEF Next, Monitor

\* The invariant of the refinement holds of every state of an Invocation.
LEMMA ManagedInvHolds == Spec => []ManagedInv
<1>1. Init => OutcomeInv /\ StoppedInv /\ SeenInv
  BY DEF Init, OutcomeInv, OutcomeTellsReturnCode, StoppedInv, SeenInv
<1>2. TypeOK /\ ProcessInv /\ OutcomeInv /\ StoppedInv /\ SeenInv /\ [Next]_vars
        => OutcomeInv' /\ StoppedInv' /\ SeenInv'
  BY OutcomeStep, StoppedStep, SeenStep
<1>. QED
  BY <1>1, <1>2, TypeCorrect, ProcessInvHolds, PTL DEF Spec, ManagedInv

\* Whoever sees the process as kept alive, or the database as lost, goes on doing so.
LEMMA SeenMonotone ==
    ASSUME ManagedInv, [Next]_vars
    PROVE  (KeptSeen => KeptSeen') /\ (logs = "broken" => logs' = "broken")
<1> DEFINE Goal == (KeptSeen => KeptSeen') /\ (logs = "broken" => logs' = "broken")
<1> SUFFICES Goal
  OBVIOUS
<1> USE DEF ManagedInv, TypeOK, PCs, SeenInv, KeptSeen
<1>1. ASSUME RunAsTask PROVE Goal
  BY <1>1 DEF RunAsTask, settings
<1>2. ASSUME Start PROVE Goal
  BY <1>2 DEF Start, settings
<1>3. ASSUME StartFails PROVE Goal
  BY <1>3 DEF StartFails, EndTask, settings
<1>4. ASSUME CommunicateEnds PROVE Goal
  BY <1>4 DEF CommunicateEnds, Conclude, settings
<1>5. ASSUME DelayElapses PROVE Goal
  BY <1>5 DEF DelayElapses, EndTask, settings
<1>6. ASSUME CancelDelivered PROVE Goal
  BY <1>6 DEF CancelDelivered, EndTask, Unwind, Interrupt, Conclude, settings
<1>7. ASSUME Terminated PROVE Goal
  BY <1>7 DEF Terminated, Conclude, settings
<1>8. ASSUME StopTimeout PROVE Goal
  BY <1>8 DEF StopTimeout, Conclude, settings
<1>9. ASSUME KillTimeout PROVE Goal
  BY <1>9 DEF KillTimeout, Conclude, settings
<1>10. ASSUME ReadFails PROVE Goal
  BY <1>10 DEF ReadFails, Unwind, Interrupt, Conclude, settings
<1>11. ASSUME NEW c \in Codes, Exit(c) PROVE Goal
  BY <1>11 DEF Exit, settings
<1>12. ASSUME NEW d \in Delays, Restart(d) PROVE Goal
  BY <1>12 DEF Restart, settings
<1>13. ASSUME Cancel PROVE Goal
  BY <1>13 DEF Cancel, settings
<1>14. ASSUME EngageKeepAlive PROVE Goal
  BY <1>14 DEF EngageKeepAlive, settings
<1>15. ASSUME LogsBreak PROVE Goal
  BY <1>15 DEF LogsBreak, settings
<1>16. ASSUME UNCHANGED vars PROVE Goal
  BY <1>16 DEF vars, settings
<1>. QED
  BY <1>1, <1>2, <1>3, <1>4, <1>5, <1>6, <1>7, <1>8,
     <1>9, <1>10, <1>11, <1>12, <1>13, <1>14, <1>15, <1>16
     DEF Next, Monitor

\* The end of _terminate, as the callers see it: a task that was not cancelled fails
\* over the return code or over the exception, a cancelled one may also be cancelled.
LEMMA ConcludeSeen ==
    ASSUME ManagedInv, pc \in {"communicating", "terminating", "killing"},
           NEW e \in {"cancelled", "error"}, e = "cancelled" => stopped,
           Conclude(e, KeptSeen), UNCHANGED <<logs, verify, code, asked>>,
           proc' # "live" \/ (logs = "broken" /\ proc = "live")
    PROVE  Managed!Step
<1> USE DEF ManagedInv, TypeOK, PCs, SeenInv, OutcomeInv
<1>1. pc' = "done" /\ result' = Outcome(e, KeptSeen) /\ TaskSeen' = result'
  BY DEF Conclude, TaskSeen
<1>2. ProcSeen \in {"up", "killed"} /\ (proc = "live" => ProcSeen = "up")
  BY DEF ProcSeen
<1>3. TaskSeen = IF stopped THEN "cancelling" ELSE "running"
  BY DEF TaskSeen
<1>4. proc' # "live" => ProcSeen' = "none"
  BY <1>1 DEF ProcSeen
<1>5. proc = "live" /\ proc' = "live" => ProcSeen' = "up"
  BY <1>1 DEF ProcSeen
<1>6. CASE result' = "error"
  <2>1. Managed!Break
    BY <1>1, <1>2, <1>3, <1>4, <1>5, <1>6 DEF Managed!Break
  <2>. QED
    BY <2>1 DEF Managed!Step
<1>7. CASE result' # "error"
  <2>1. proc' # "live" /\ ProcSeen' = "none"
    BY <1>1, <1>4, <1>7 DEF Outcome
  <2>2. CASE result' = "failed"
    <3>1. ~KeptSeen
      BY <1>1, <2>2 DEF Outcome
    <3>2. CASE stopped
      <4>1. Managed!EndCancelled("failed")
        BY <1>1, <1>2, <1>3, <2>1, <2>2, <3>1, <3>2
        DEF Managed!EndCancelled, Managed!Running
      <4>. QED
        BY <4>1 DEF Managed!Step
    <3>3. CASE ~stopped
      <4>1. Managed!End("failed")
        BY <1>1, <1>2, <1>3, <2>1, <2>2, <3>1, <3>3 DEF Managed!End, Managed!Running
      <4>. QED
        BY <4>1 DEF Managed!Step
    <3>. QED
      BY <3>2, <3>3
  <2>3. CASE result' # "failed"
    <3>1. result' = "cancelled" /\ stopped
      BY <1>1, <1>7, <2>3 DEF Outcome
    <3>2. Managed!EndCancelled("cancelled")
      BY <1>1, <1>3, <2>1, <3>1 DEF Managed!EndCancelled
    <3>. QED
      BY <3>2 DEF Managed!Step
  <2>. QED
    BY <2>2, <2>3
<1>. QED
  BY <1>6, <1>7

\* What is raised in _communicate or while _terminate waits is either seen at once or
\* leaves the callers' view as it is.
LEMMA RaisedSeen ==
    ASSUME ManagedInv, NEW e \in {"cancelled", "error"}, e = "cancelled" => stopped,
           Unwind(e) \/ Interrupt(e), UNCHANGED <<code, asked, stopped, settings>>
    PROVE  Managed!Step
<1> USE DEF ManagedInv, TypeOK, PCs, settings
<1>1. CASE Unwind(e)
  <2>1. pc = "communicating" /\ KeptSeen = keepAlive /\ proc' = proc
    BY <1>1 DEF Unwind, KeptSeen
  <2>2. CASE proc = "exited" \/ logs = "broken"
    <3>1. Conclude(e, KeptSeen)
      BY <1>1, <2>1, <2>2 DEF Unwind
    <3>2. proc' # "live" \/ (logs = "broken" /\ proc = "live")
      BY <2>1, <2>2
    <3>. QED
      BY <2>1, <3>1, <3>2, ConcludeSeen
  <2>3. CASE ~(proc = "exited" \/ logs = "broken")
    <3>1. UNCHANGED <<TaskSeen, ProcSeen>>
      BY <1>1, <2>1, <2>3 DEF Unwind, TaskSeen, ProcSeen
    <3>. QED
      BY <3>1 DEF Managed!Step
  <2>. QED
    BY <2>2, <2>3
<1>2. CASE Interrupt(e)
  <2>1. pc \in {"terminating", "killing"} /\ KeptSeen = skip
    BY <1>2 DEF Interrupt, KeptSeen
  <2>2. Conclude(e, KeptSeen)
    BY <1>2, <2>1 DEF Interrupt
  <2>3. proc' # "live" \/ (logs = "broken" /\ proc = "live")
    BY <1>2 DEF Interrupt
  <2>. QED
    BY <2>1, <2>2, <2>3, ConcludeSeen
<1>. QED
  BY <1>1, <1>2

\* Every step of an Invocation is a step of a managed process.
LEMMA ManagedStep ==
    ASSUME ManagedInv, [Next]_vars
    PROVE  Managed!Step
<1> USE DEF ManagedInv, TypeOK, PCs, SeenInv, settings
<1>1. ASSUME RunAsTask PROVE Managed!Step
  <2>1. Managed!Create
    BY <1>1 DEF RunAsTask, ProcessInv, TaskSeen, ProcSeen, Managed!Create
  <2>. QED
    BY <2>1 DEF Managed!Step
<1>2. ASSUME Start PROVE Managed!Step
  <2>1. Managed!Start
    BY <1>2 DEF Start, ProcessInv, NoProcessLeftBehind, StoppedInv, TaskSeen, ProcSeen,
                Managed!Start
  <2>. QED
    BY <2>1 DEF Managed!Step
<1>3. ASSUME StartFails PROVE Managed!Step
  <2>1. Managed!Break
    BY <1>3 DEF StartFails, EndTask, ProcessInv, NoProcessLeftBehind, StoppedInv,
                TaskSeen, ProcSeen, Managed!Break
  <2>. QED
    BY <2>1 DEF Managed!Step
<1>4. ASSUME CommunicateEnds PROVE Managed!Step
  <2> USE <1>4 DEF CommunicateEnds, StoppedInv, TaskSeen, ProcSeen, KeptSeen
  <2>1. CASE keepAlive /\ logs = "ok"
    <3>1. Managed!Pause
      BY <2>1 DEF Managed!Pause, Managed!Running
    <3>. QED
      BY <3>1 DEF Managed!Step
  <2>2. CASE logs = "broken"
    <3>1. Managed!Break
      BY <2>2 DEF Conclude, Outcome, Managed!Break
    <3>. QED
      BY <3>1 DEF Managed!Step
  <2>3. CASE ~keepAlive /\ logs = "ok"
    <3>1. PICK r \in {"returned", "failed"} : result' = r
      BY <2>3 DEF Conclude, Outcome
    <3>2. Managed!End(r)
      BY <2>3, <3>1 DEF Conclude, Managed!End, Managed!Running
    <3>. QED
      BY <3>2 DEF Managed!Step
  <2>. QED
    BY <2>1, <2>2, <2>3
<1>5. ASSUME DelayElapses PROVE Managed!Step
  <2>1. UNCHANGED <<TaskSeen, ProcSeen>>
    BY <1>5 DEF DelayElapses, OutcomeInv, TaskSeen, ProcSeen
  <2>. QED
    BY <2>1 DEF Managed!Step
<1>6. ASSUME CancelDelivered PROVE Managed!Step
  <2>1. CASE pc \in {"starting", "delay"} /\ EndTask("cancelled") /\ UNCHANGED proc
    <3>1. Managed!EndCancelled("cancelled")
      BY <1>6, <2>1 DEF CancelDelivered, EndTask, ProcessInv, NoProcessLeftBehind,
                        TaskSeen, ProcSeen, Managed!EndCancelled
    <3>. QED
      BY <3>1 DEF Managed!Step
  <2>2. CASE Unwind("cancelled") \/ Interrupt("cancelled")
    <3>1. stopped /\ UNCHANGED <<code, asked, stopped, settings>>
      BY <1>6 DEF CancelDelivered
    <3>. QED
      BY <2>2, <3>1, RaisedSeen
  <2>. QED
    BY <1>6, <2>1, <2>2 DEF CancelDelivered
<1>7. ASSUME Terminated PROVE Managed!Step
  <2>1. raised \in {"cancelled", "error"} /\ (raised = "cancelled" => stopped)
    BY <1>7 DEF Terminated, OutcomeInv
  <2>. QED
    BY <1>7, <2>1, ConcludeSeen DEF Terminated, KeptSeen
<1>8. ASSUME StopTimeout PROVE Managed!Step
  <2>1. CASE proc = "exited" \/ logs = "ok"
    <3>1. UNCHANGED <<TaskSeen, ProcSeen>>
      BY <1>8, <2>1 DEF StopTimeout, TaskSeen, ProcSeen
    <3>. QED
      BY <3>1 DEF Managed!Step
  <2>2. CASE ~(proc = "exited" \/ logs = "ok")
    <3>1. raised \in {"cancelled", "error"} /\ (raised = "cancelled" => stopped)
      BY <1>8 DEF StopTimeout, OutcomeInv
    <3>2. Conclude(raised, KeptSeen) /\ proc' = proc
      BY <1>8, <2>2 DEF StopTimeout, KeptSeen
    <3>. QED
      BY <1>8, <2>2, <3>1, <3>2, ConcludeSeen DEF StopTimeout
  <2>. QED
    BY <2>1, <2>2
<1>9. ASSUME KillTimeout PROVE Managed!Step
  <2>1. raised \in {"cancelled", "error"} /\ (raised = "cancelled" => stopped)
    BY <1>9 DEF KillTimeout, OutcomeInv
  <2>2. proc' # "live"
    BY <1>9 DEF KillTimeout, ProcessInv
  <2>. QED
    BY <1>9, <2>1, <2>2, ConcludeSeen DEF KillTimeout, KeptSeen
<1>10. ASSUME ReadFails PROVE Managed!Step
  BY <1>10, RaisedSeen DEF ReadFails
<1>11. ASSUME NEW c \in Codes, Exit(c) PROVE Managed!Step
  <2>1. CASE pc = "done" /\ proc = "live"
    <3>1. result = "error"
      BY <2>1
    <3>2. Managed!OrphanExits
      BY <1>11, <2>1, <3>1 DEF Exit, TaskSeen, ProcSeen, Managed!OrphanExits
    <3>. QED
      BY <3>2 DEF Managed!Step
  <2>2. CASE ~(pc = "done" /\ proc = "live")
    <3>1. UNCHANGED <<TaskSeen, ProcSeen>>
      BY <1>11, <2>2 DEF Exit, TaskSeen, ProcSeen
    <3>. QED
      BY <3>1 DEF Managed!Step
  <2>. QED
    BY <2>1, <2>2
<1>12. ASSUME NEW d \in Delays, Restart(d) PROVE Managed!Step
  <2>1. CASE ProcSeen = "up" /\ ProcSeen' = "killed"
    <3>1. Managed!Kill
      BY <1>12, <2>1 DEF Restart, TaskSeen, Managed!Kill
    <3>. QED
      BY <3>1 DEF Managed!Step
  <2>2. CASE ~(ProcSeen = "up" /\ ProcSeen' = "killed")
    <3>1. UNCHANGED <<TaskSeen, ProcSeen>>
      BY <1>12, <2>2, DelaysAssumption
      DEF Restart, ProcessInv, NoProcessLeftBehind, TaskSeen, ProcSeen
    <3>. QED
      BY <3>1 DEF Managed!Step
  <2>. QED
    BY <2>1, <2>2
<1>13. ASSUME Cancel PROVE Managed!Step
  <2>1. CASE stopped
    <3>1. UNCHANGED <<TaskSeen, ProcSeen>>
      BY <1>13, <2>1 DEF Cancel, TaskSeen, ProcSeen
    <3>. QED
      BY <3>1 DEF Managed!Step
  <2>2. CASE ~stopped
    <3>1. Managed!Cancel
      BY <1>13, <2>2 DEF Cancel, TaskSeen, ProcSeen, Managed!Cancel
    <3>. QED
      BY <3>1 DEF Managed!Step
  <2>. QED
    BY <2>1, <2>2
<1>14. ASSUME EngageKeepAlive \/ LogsBreak \/ UNCHANGED vars PROVE Managed!Step
  <2>1. UNCHANGED <<TaskSeen, ProcSeen>>
    BY <1>14 DEF EngageKeepAlive, LogsBreak, vars, TaskSeen, ProcSeen
  <2>. QED
    BY <2>1 DEF Managed!Step
<1>. QED
  BY <1>1, <1>2, <1>3, <1>4, <1>5, <1>6, <1>7, <1>8,
     <1>9, <1>10, <1>11, <1>12, <1>13, <1>14
     DEF Next, Monitor

\* An Invocation is a managed process, whatever the return codes, the delays and the
\* order of exits, restarts, cancellations and time limits: for its callers a process
\* kept alive comes back, none is started for a cancelled task, and none outlives its
\* task unless the database is lost.
THEOREM InvocationIsManaged == Spec => ImplementsManagedProcess
<1>1. Init => Managed!Init
  BY DEF Init, TaskSeen, ProcSeen, KeptSeen, Managed!Init
<1>2. ManagedInv /\ [Next]_vars
        => [Managed!Next]_<<TaskSeen, ProcSeen, KeptSeen, logs>>
  BY ManagedStep, SeenMonotone DEF Managed!Next
<1>. QED
  BY <1>1, <1>2, ManagedInvHolds, PTL
  DEF Spec, ImplementsManagedProcess, Managed!Spec

-----------------------------------------------------------------------------
\* The steps that the monitor task has left once it is cancelled, at most: the
\* delivery, the wait after SIGTERM and the one after SIGKILL.
StepsLeft ==
    IF pc = "done" THEN 0
    ELSE IF pc = "killing" THEN 1
    ELSE IF pc = "terminating" THEN 2
    ELSE 3

\* A cancellation is to be delivered, or a time limit of _terminate runs.
StepDue ==
    \/ cancelPending /\ pc \notin {"idle", "done"}
    \/ ~cancelPending /\ pc \in {"terminating", "killing"}

\* A step of the monitor task of a cancelled Invocation takes it closer to its end, ...
LEMMA MonitorDescends ==
    ASSUME ManagedInv, stopped, Monitor
    PROVE  StepsLeft' < StepsLeft
<1> USE DEF ManagedInv, TypeOK, PCs, StoppedInv, StepsLeft
<1>1. ASSUME Start PROVE FALSE
  BY <1>1 DEF Start
<1>2. ASSUME StartFails \/ CommunicateEnds \/ DelayElapses PROVE FALSE
  BY <1>2 DEF StartFails, CommunicateEnds, DelayElapses
<1>3. ASSUME CancelDelivered PROVE StepsLeft' < StepsLeft
  <2>1. CASE pc \in {"starting", "delay"} /\ EndTask("cancelled")
    BY <2>1 DEF EndTask
  <2>2. CASE Unwind("cancelled")
    BY <2>2 DEF Unwind, Conclude
  <2>3. CASE Interrupt("cancelled")
    BY <2>3 DEF Interrupt, Conclude
  <2>. QED
    BY <1>3, <2>1, <2>2, <2>3 DEF CancelDelivered
<1>4. ASSUME StopTimeout PROVE StepsLeft' < StepsLeft
  <2>1. pc = "terminating" /\ pc' \in {"killing", "done"}
    BY <1>4 DEF StopTimeout, Conclude
  <2>. QED
    BY <2>1
<1>5. ASSUME KillTimeout PROVE StepsLeft' < StepsLeft
  <2>1. pc = "killing" /\ pc' = "done"
    BY <1>5 DEF KillTimeout, Conclude
  <2>. QED
    BY <2>1
<1>. QED
  BY <1>1, <1>2, <1>3, <1>4, <1>5 DEF Monitor

\* ... and no other step takes it back.
LEMMA OthersDescend ==
    ASSUME ManagedInv, stopped, [Next]_vars, ~Monitor
    PROVE  StepsLeft' <= StepsLeft
<1> USE DEF ManagedInv, TypeOK, PCs, SeenInv, StepsLeft
<1>1. ASSUME RunAsTask PROVE FALSE
  BY <1>1 DEF RunAsTask
<1>2. ASSUME Terminated \/ ReadFails PROVE StepsLeft' <= StepsLeft
  <2>1. pc' = "done" \/ (pc = "communicating" /\ pc' = "terminating")
    BY <1>2 DEF Terminated, ReadFails, Unwind, Interrupt, Conclude
  <2>. QED
    BY <2>1
<1>3. ASSUME NEW c \in Codes, Exit(c) PROVE pc' = pc
  BY <1>3 DEF Exit
<1>4. ASSUME NEW d \in Delays, Restart(d) PROVE pc' = pc
  BY <1>4 DEF Restart
<1>5. ASSUME Cancel \/ EngageKeepAlive \/ LogsBreak \/ UNCHANGED vars PROVE pc' = pc
  BY <1>5 DEF Cancel, EngageKeepAlive, LogsBreak, vars
<1>. QED
  BY <1>1, <1>2, <1>3, <1>4, <1>5 DEF Next

\* What CancelEnds rests on, besides the fairness of the event loop: after a
\* cancellation the monitor task takes three steps at most before it ends, whatever
\* the process, its readers and further callers do in between; in particular a
\* second cancellation, a restart() or keep_alive never prolong the end.  Until then
\* one of these steps is due.
THEOREM CancelledInThreeSteps ==
    Spec => /\ [](stopped /\ pc # "done" => StepDue)
            /\ [][stopped => /\ StepsLeft' <= StepsLeft
                             /\ Monitor => StepsLeft' < StepsLeft]_vars
<1>1. ManagedInv /\ [Next]_vars
        => [stopped => /\ StepsLeft' <= StepsLeft
                       /\ Monitor => StepsLeft' < StepsLeft]_vars
  <2>1. ASSUME ManagedInv, [Next]_vars, stopped
        PROVE  StepsLeft' <= StepsLeft /\ (Monitor => StepsLeft' < StepsLeft)
    <3>1. StepsLeft \in Int /\ StepsLeft' \in Int
      BY DEF StepsLeft
    <3>. QED
      BY <2>1, <3>1, MonitorDescends, OthersDescend
  <2>. QED
    BY <2>1
<1>2. ManagedInv => (stopped /\ pc # "done" => StepDue)
  BY DEF ManagedInv, TypeOK, StoppedInv, SeenInv, StepDue
<1>. QED
  BY <1>1, <1>2, ManagedInvHolds, PTL DEF Spec
=============================================================================
