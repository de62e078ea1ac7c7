------------------------------- MODULE MCWorker -------------------------------
EXTENDS Worker

Base(kind) == [kind |-> kind, phc |-> FALSE, keep |-> FALSE, loads |-> {},
               fault |-> FALSE, monitor |-> FALSE, supported |-> TRUE,
               atBoot |-> FALSE]

\* A monitored benchmark, one with load, the software faults of each kind of
\* vendor, two of them where chrony starts at boot, and one that cannot be
\* configured.
MCSetups ==
    {[Base("linuxptp") EXCEPT !.phc = TRUE, !.monitor = TRUE],
     [Base("single") EXCEPT !.loads = {"iperf", "stress"}],
     [Base("chrony") EXCEPT !.monitor = TRUE, !.atBoot = TRUE],
     [Base("linuxptp") EXCEPT !.phc = TRUE, !.keep = TRUE, !.fault = TRUE],
     [Base("chrony") EXCEPT !.keep = TRUE, !.fault = TRUE],
     [Base("single") EXCEPT !.keep = TRUE, !.fault = TRUE, !.atBoot = TRUE],
     [Base("single") EXCEPT !.supported = FALSE]}
=============================================================================
