------------------------------- MODULE Catalogue -------------------------------
(***************************************************************************)
(* The tables the commands are driven by: the registry of benchmarks, the  *)
(* clusters with their machines, and the sockets of the power strips.      *)
(*                                                                         *)
(* An id is a tuple of its parts.  Names, descriptions, tags, addresses    *)
(* and interfaces are left out, and so is what no decision depends on.     *)
(***************************************************************************)
EXTENDS Integers, FiniteSets, SequencesExt

-----------------------------------------------------------------------------
(* Benchmarks *)

\* The defaults of a benchmark, in minutes and machines; network and cpu are loads
\* in percent, config the logarithms of the message intervals.
PTPConfig(announce, sync, delayreq) ==
    [announce |-> announce, sync |-> sync, delayreq |-> delayreq]
has_non_standard_intervals(config) == config # PTPConfig(1, 0, 0)

Benchmark(id) ==
    [id |-> id, minutes |-> 20, machines |-> 2, ptpKeep |-> FALSE, sshKeep |-> FALSE,
     software |-> FALSE, hardware |-> FALSE, failover |-> FALSE, location |-> "none",
     steps |-> TRUE, network |-> 0, cpu |-> 0, type |-> "unprioritized", aux |-> FALSE,
     config |-> PTPConfig(1, 0, 0), monitor |-> FALSE]

BASE == Benchmark(<<"base">>)
TEST == [Benchmark(<<"test", "test">>) EXCEPT !.minutes = 1]
DEMO == [Benchmark(<<"test", "demo">>) EXCEPT !.minutes = 5]
NO_SWITCH == Benchmark(<<"configuration", "no_switch">>)
RESOURCE_CONSUMPTION == [Benchmark(<<"resource_consumption">>) EXCEPT !.monitor = TRUE]

benchmark_scalability(nodes) ==
    [Benchmark(<<"scalability", nodes - 1>>) EXCEPT !.machines = nodes, !.monitor = TRUE]

Fault(kind, place, location) ==
    [Benchmark(<<"fault", kind, place>>) EXCEPT
        !.machines = 3, !.minutes = 15, !.location = location,
        !.software = (kind = "software"), !.hardware = (kind = "hardware")]

SOFTWARE_FAULT_SLAVE == [Fault("software", "slave", "PRIMARY_SLAVE") EXCEPT !.ptpKeep = TRUE]
HARDWARE_FAULT_SWITCH == Fault("hardware", "switch", "SWITCH")
\* The machine restarts: its session is kept alive and its clock may step again.
MachineFault(place, location) ==
    [Fault("hardware", place, location) EXCEPT !.sshKeep = TRUE, !.steps = FALSE]
HARDWARE_FAULT_SLAVE == MachineFault("slave", "PRIMARY_SLAVE")
HARDWARE_FAULT_MASTER == MachineFault("master", "MASTER")
HARDWARE_FAULT_MASTER_FAILOVER ==
    [MachineFault("master_failover", "MASTER") EXCEPT !.failover = TRUE]

resource_contention(component, type, level) ==
    [Benchmark(<<"load", component, type, level>>) EXCEPT
        !.type = type, !.network = IF component = "net" THEN level ELSE 0,
        !.cpu = IF component = "cpu" THEN level ELSE 0]

resource_contention_aux(id) == [Benchmark(<<"load", "aux", id>>) EXCEPT !.aux = TRUE]

config_test(interval) ==
    [Benchmark(<<"config", "interval", interval>>) EXCEPT
        !.config = PTPConfig(1, interval, interval)]

\* The load levels of a component, each registered twice, then one benchmark each
\* of the two types that spare PTP.
Contention(component, levels) ==
    FlattenSeq([i \in DOMAIN levels |->
        LET b == resource_contention(component, "unprioritized", levels[i]) IN <<b, b>>])
    \o <<resource_contention(component, "prioritized", 100),
         resource_contention(component, "isolated", 100)>>

Registrations ==
    <<BASE, TEST, DEMO>>
    \o [i \in 1 .. 11 |-> benchmark_scalability(<<2, 3, 12, 4, 5, 6, 7, 8, 9, 10, 11>>[i])]
    \o <<SOFTWARE_FAULT_SLAVE, HARDWARE_FAULT_SWITCH, HARDWARE_FAULT_SLAVE,
         HARDWARE_FAULT_MASTER, HARDWARE_FAULT_MASTER_FAILOVER, NO_SWITCH,
         RESOURCE_CONSUMPTION>>
    \o Contention("net", <<10, 20, 33, 50, 66, 80, 90, 100>>) \o Contention("cpu", <<50, 100>>)
    \o [i \in 1 .. 6 |-> resource_contention_aux(
            <<"alarm", "cache", "cyclic", "memory", "switch", "timer">>[i])]
    \o [i \in 1 .. 7 |-> config_test(<<3, 1, 0, -1, -2, -4, -7>>[i])]

\* registered_entries is a dictionary: the place of an id is that of its first
\* registration, its value that of the last.
register(entries, b) ==
    LET known == {i \in DOMAIN entries : entries[i].id = b.id}
    IN  IF known = {} THEN Append(entries, b)
        ELSE [i \in DOMAIN entries |-> IF i \in known THEN b ELSE entries[i]]

BenchmarkDB == FoldLeft(register, <<>>, Registrations)

-----------------------------------------------------------------------------
(* Clusters *)

ANALYZED_VENDORS == <<"ptpd", "linuxptp", "sptp", "chrony">>

\* The types of the machines of a cluster, in their order; the last is that of all
\* further ones.
EndpointTypes == <<"MASTER", "PRIMARY_SLAVE", "SECONDARY_SLAVE", "TERTIARY_SLAVE">>
EndpointType(i) == EndpointTypes[IF i <= 3 THEN i ELSE 4]

\* Every cluster is laid out alike, with the iperf server on its master.
Layout(names) ==
    [i \in DOMAIN names |-> [id |-> <<names[i]>>, server |-> i = 1, role |-> EndpointType(i)]]

Cluster(id, layout) ==
    [id |-> id, machines |-> layout, hardware |-> FALSE, vendors |-> ANALYZED_VENDORS]

CLUSTER_PI ==
    [Cluster("rpi-4", Layout(<<"rpi06", "rpi08", "rpi07">>)) EXCEPT !.hardware = TRUE]
CLUSTER_PI5 ==
    [Cluster("rpi-5", Layout(<<"rpi56", "rpi58", "rpi57">>)) EXCEPT !.hardware = TRUE]
CLUSTER_PETALINUX ==
    Cluster("petalinux", Layout(<<"petalinux01", "petalinux02", "petalinux03", "petalinux04">>))
CLUSTER_TK1 ==
    [Cluster("tk-1", Layout(<<"tk1-1", "tk1-2">>)) EXCEPT
        !.vendors = <<"ptpd", "linuxptp", "chrony">>]

\* Copies of all machines, with new ids and roles, that keep their servers.
create_big_bad_cluster_machines ==
    LET all == CLUSTER_PI5.machines \o CLUSTER_PETALINUX.machines
               \o CLUSTER_PI.machines \o CLUSTER_TK1.machines
    IN  [i \in DOMAIN all |->
            [all[i] EXCEPT !.id = <<"bb">> \o @, !.role = EndpointType(i)]]

CLUSTER_BIG_BAD == Cluster("big-bad", create_big_bad_cluster_machines)

ANALYZED_CLUSTERS ==
    <<CLUSTER_PI, CLUSTER_PI5, CLUSTER_PETALINUX, CLUSTER_TK1, CLUSTER_BIG_BAD>>

\* Switches have a socket of a power strip and are part of no cluster.
SWITCHES == <<[id |-> <<"switch">>, server |-> FALSE, role |-> "SWITCH"],
              [id |-> <<"switch2">>, server |-> FALSE, role |-> "SWITCH"]>>

\* Which machine is plugged where: four ports of each strip are in use.
machine_socket_map ==
    LET Strip(id, names) ==
            {[machine |-> <<names[i]>>, strip |-> id, port |-> <<1, 2, 4, 6>>[i]] : i \in 1 .. 4}
    IN  Strip(0, <<"switch", "rpi06", "rpi07", "rpi08">>)
        \cup Strip(1, <<"switch2", "rpi56", "rpi57", "rpi58">>)
        \cup Strip(2, <<"petalinux01", "petalinux02", "petalinux03", "petalinux04">>)

power_strips == 0 .. 2

\* A machine has a socket of its own, on a strip there is.
Plugged(m) ==
    \E e \in machine_socket_map :
        /\ e.machine = m.id /\ e.strip \in power_strips
        /\ \A f \in machine_socket_map \ {e} :
              f.machine # m.id /\ <<f.strip, f.port>> # <<e.strip, e.port>>

\* The machine of the orchestrator is part of no analyzed cluster.
MACHINE_RPISERV == [id |-> <<"rpi-serv">>, server |-> FALSE, role |-> "ORCHESTRATOR"]

\* The ids by which a worker finds its machine.
machines ==
    {m.id : m \in ToSet(CLUSTER_PI.machines \o CLUSTER_PI5.machines \o <<MACHINE_RPISERV>>
                        \o SWITCHES \o CLUSTER_PETALINUX.machines \o CLUSTER_TK1.machines
                        \o create_big_bad_cluster_machines)}

\* Mutant: the last machines.
subset_cluster_Last(c, n) == SubSeq(c.machines, Len(c.machines) - n + 1, Len(c.machines))

\* The machines of the cluster that a benchmark of n machines runs on.
subset_cluster(c, n) == SubSeq(c.machines, 1, n)

machines_by_type(found, role) ==
    IF role = "SWITCH" THEN SWITCHES
    ELSE SelectSeq(found, LAMBDA m : m.role = role)

\* unpack_one_value raises unless there is exactly one.
unpack_one_value(values) == Len(values) = 1

\* Mutant: without the hardware faults.
supported_benchmarks_AnyFault(c) ==
    SelectSeq(BenchmarkDB, LAMBDA b : b.machines <= Len(c.machines))

supported_benchmarks(c) ==
    SelectSeq(BenchmarkDB, LAMBDA b : /\ b.machines <= Len(c.machines)
                                      /\ b.hardware => c.hardware)

-----------------------------------------------------------------------------
(* Vendors *)

MachineClientType == {"master", "failover_master", "slave"}

\* Mutant: the secondary slave stays a slave.
get_effective_client_type_NoFailover(m, failover) ==
    IF m.role = "MASTER" THEN "master" ELSE "slave"

\* The role of a machine for the daemons.
get_effective_client_type(m, failover) ==
    IF m.role = "MASTER" THEN "master"
    ELSE IF m.role = "SECONDARY_SLAVE" /\ failover THEN "failover_master" ELSE "slave"

\* The priority of a machine in the election of the master; lower is better.
ptp_priority_1(m) ==
    CASE m.role = "MASTER" -> 1
      [] m.role = "SECONDARY_SLAVE" -> 200
      [] m.role \in {"PRIMARY_SLAVE", "TERTIARY_SLAVE"} -> 248

\* The machines that no other one is preferred to.
Elected(found) == {m \in found : \A n \in found : ptp_priority_1(m) <= ptp_priority_1(n)}

\* The types a vendor has a configuration file for: one for all with PTPd and
\* LinuxPTP, one for each with Chrony, and none for a failover with SPTP.
ChronyTemplates == MachineClientType
SPTPTemplates == {"master", "slave"}
config_file_source_path(v) ==
    CASE v \in {"ptpd", "linuxptp"} -> MachineClientType
      [] v = "chrony" -> ChronyTemplates
      [] v = "sptp" -> SPTPTemplates

supports_non_standard_config_interval == {"ptpd", "linuxptp"}

\* Whether create_configuration_file writes the file of vendor v for machine m.
Configured(v, b, m) ==
    /\ has_non_standard_intervals(b.config) => v \in supports_non_standard_config_interval
    /\ get_effective_client_type(m, b.failover) \in config_file_source_path(v)

\* What the daemons of a slave print that has an offset in it, with its source:
\* the name of the command.  PTPd and the tail of Chrony's log run in stdbuf.
SlaveLines(v) ==
    CASE v = "ptpd" -> {<<"stdbuf", "header">>, <<"stdbuf", "slv">>}
      [] v = "linuxptp" -> {<<"ptp4l", "master offset">>, <<"phc2sys", "master offset">>}
      [] v = "chrony" -> {<<"stdbuf", "measurement">>}
      [] v = "sptp" -> {<<"sptp", "offset">>}

\* parse_log_data of the vendors: the lines that become samples.  Those of PTPd
\* need the first header, phc2sys is left out.
ParsePTPd(lines) ==
    IF <<"stdbuf", "header">> \in lines THEN lines \cap {<<"stdbuf", "slv">>} ELSE {}
ParseLinuxPTP(lines) == lines \cap {<<"ptp4l", "master offset">>}
ParseChrony(lines) == lines \cap {<<"stdbuf", "measurement">>}
ParseSPTP(lines) == lines \cap {<<"sptp", "offset">>}
parse_log_data(v, lines) ==
    CASE v = "ptpd" -> ParsePTPd(lines) [] v = "linuxptp" -> ParseLinuxPTP(lines)
      [] v = "chrony" -> ParseChrony(lines) [] v = "sptp" -> ParseSPTP(lines)

-----------------------------------------------------------------------------
\* A benchmark b on cluster c, as the orchestrator sets it up: the machines of the
\* benchmark, and those at the location of its faults.
Involved(c, b) == subset_cluster(c, b.machines)
Faulty(c, b) == machines_by_type(Involved(c, b), b.location)

\* The machines are different and known to their workers; one is the master, and one
\* is the primary slave, whose endpoint the analysis and the summaries look for.
\* The others elect the master, and without it the failover master.
RolesFilled(c, b) ==
    LET found == Involved(c, b)
        master == {m \in ToSet(found) : m.role = "MASTER"}
        Of(type) == {m \in ToSet(found) : get_effective_client_type(m, b.failover) = type}
    IN  /\ \A i, j \in DOMAIN found : found[i].id = found[j].id => i = j
        /\ \A i \in DOMAIN found : found[i].id \in machines
        /\ \A role \in {"MASTER", "PRIMARY_SLAVE"} : unpack_one_value(machines_by_type(found, role))
        /\ Elected(ToSet(found)) = Of("master")
        /\ b.failover => /\ unpack_one_value(machines_by_type(found, "SECONDARY_SLAVE"))
                         /\ Elected(ToSet(found) \ master) = Of("failover_master")

\* Its hardware faults find machines with a socket, and its sessions are kept
\* alive on machines of the benchmark, not on all of them (what module
\* Orchestration assumes of its plans); software faults find the one machine
\* whose worker injects them.
FaultPlaced(c, b) ==
    LET faulty == Faulty(c, b)
    IN  /\ b.hardware =>
              /\ faulty # <<>> /\ \A i \in DOMAIN faulty : Plugged(faulty[i])
              /\ b.sshKeep => /\ ToSet(faulty) \subseteq ToSet(Involved(c, b))
                              /\ ToSet(faulty) # ToSet(Involved(c, b))
        /\ b.software => unpack_one_value(faulty) /\ ToSet(faulty) \subseteq ToSet(Involved(c, b))

\* The network load has one server, which is among the machines of the benchmark.
\* The workers look for it in the whole cluster.
LoadServed(c, b) ==
    b.network > 0 =>
        LET servers == SelectSeq(c.machines, LAMBDA m : m.server)
        IN  unpack_one_value(servers) /\ ToSet(servers) \subseteq ToSet(Involved(c, b))

\* All machines of the benchmark get a configuration for the vendor, and the
\* samples of a slave come from one of its daemons.
VendorEquipped(c, b, v) ==
    /\ \A i \in DOMAIN Involved(c, b) : Configured(v, b, Involved(c, b)[i])
    /\ Cardinality({l[1] : l \in parse_log_data(v, SlaveLines(v))}) = 1
=============================================================================
