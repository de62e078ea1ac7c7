------------------------------ MODULE MCCampaign ------------------------------
EXTENDS Campaign, TLC

CONSTANTS p1, p2, a1, a2, nokey, noprofile, notask

base == <<"base">>
slave == <<"fault", "hardware", "slave">>

MCKey == {<<base, "chrony", "rpi-4">>, <<slave, "chrony", "rpi-4">>}
MCFaultKey == {<<slave, "chrony", "rpi-4">>}

\* The calls of analyze are interchangeable.
Symmetry == Permutations(Analyzer)

\* Logs with one fault; logs with none and with five sign changes, which make the
\* profile corrupt if there must be a fault, and the analysis raise otherwise; and
\* logs with a record that cannot be read.
Sound == [NoLog EXCEPT !.primary = TRUE, !.others = TRUE, !.flips = 6,
                       !.begun = 1, !.resolved = 1]
MCLog == {Sound, [Sound EXCEPT !.flips = 5, !.begun = 0, !.resolved = 0],
          [Sound EXCEPT !.parses = FALSE]}

\* Two profiles of each of two benchmarks and a pause; and one of the first, which is
\* queued before the others.
MCRequests ==
    LET One == [benchmarks |-> {base}, clusters |-> <<CLUSTER_PI>>, vendors |-> <<"chrony">>,
                target |-> 1, priority |-> 1, pause |-> FALSE]
        Both == [One EXCEPT !.benchmarks = {base, slave}, !.target = 2, !.priority = 0,
                            !.pause = TRUE]
    IN  {Both, One}
=============================================================================
