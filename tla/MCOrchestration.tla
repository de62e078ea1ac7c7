--------------------------- MODULE MCOrchestration ---------------------------
EXTENDS Orchestration

CONSTANTS m1, m2, s1, s2

MCMachines == <<m1, m2>>

\* No faults, faults of a machine, of the two switches, and faults at a location
\* the cluster does not have.
MCPlans ==
    {[hardware |-> FALSE, fault |-> <<>>, keep |-> FALSE],
     [hardware |-> TRUE, fault |-> <<m2>>, keep |-> TRUE],
     [hardware |-> TRUE, fault |-> <<s1, s2>>, keep |-> FALSE],
     [hardware |-> TRUE, fault |-> <<>>, keep |-> FALSE]}
=============================================================================
