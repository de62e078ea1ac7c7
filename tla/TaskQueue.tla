----------------------------- MODULE TaskQueue -----------------------------
(***************************************************************************)
(* What the scheduler promises about the tasks of its queue, without rows, *)
(* copies or processes: tasks run one at a time, each until it has a       *)
(* result; a run that is cut short is repeated before any new task begins. *)
(* (At least once: a command may have had its effect before the cut.)      *)
(***************************************************************************)
CONSTANT Tasks

VARIABLE phase   \* where each task is in its life

Phases == {"absent", "waiting", "running", "interrupted", "succeeded", "failed"}

TypeOK == phase \in [Tasks -> Phases]

In(ph) == {t \in Tasks : phase[t] = ph}

Init == phase = [t \in Tasks |-> "absent"]

\* Tasks are added to the queue, several at once.
Submit(new) ==
    /\ new \subseteq In("absent")
    /\ phase' = [t \in Tasks |-> IF t \in new THEN "waiting" ELSE phase[t]]

\* A run begins: nothing else runs, and what was interrupted goes first.
Begin(t) ==
    /\ In("running") = {}
    /\ \/ phase[t] = "interrupted"
       \/ phase[t] = "waiting" /\ In("interrupted") = {}
    /\ phase' = [phase EXCEPT ![t] = "running"]

\* The run is cut short and leaves no result.
Interrupt(t) ==
    /\ phase[t] = "running"
    /\ phase' = [phase EXCEPT ![t] = "interrupted"]

\* The run ends and its result is final.
Finish(t, result) ==
    /\ phase[t] = "running"
    /\ phase' = [phase EXCEPT ![t] = result]

Next ==
    \/ \E new \in SUBSET Tasks : Submit(new)
    \/ \E t \in Tasks :
          \/ Begin(t)
          \/ Interrupt(t)
          \/ \E result \in {"succeeded", "failed"} : Finish(t, result)

Spec == Init /\ [][Next]_phase
=============================================================================
