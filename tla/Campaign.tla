-------------------------------- MODULE Campaign --------------------------------
(***************************************************************************)
(* The way of the results: queue_benchmarks looks up the tables and the    *)
(* profiles there are and queues tasks; the scheduler runs one of them at  *)
(* a time; each runs an orchestrator with a profile of its own; and the    *)
(* analysis decides whether the profile counts at the next call.           *)
(*                                                                         *)
(* The scheduler is the one of module TaskQueue: what edits and outages do *)
(* to its rows is the subject of module Scheduler.                         *)
(***************************************************************************)
EXTENDS Analysis, Catalogue, SequencesExt

CONSTANTS
    Requests,       \* command lines of queue-benchmarks, see Request
    MaxRequests,    \* bound on the calls
    NoTask

\* The ids that --benchmark-regex matches, --cluster and --vendor as they are given
\* (<<>> for the default), --target-count (NoTarget for none), --priority and
\* --add-pause.
NoTarget == -1

\* The priority of a task that has been started.
RunPriority == 999

Request == [benchmarks: SUBSET {b.id : b \in ToSet(BenchmarkDB)},
            clusters: Seq(ToSet(ANALYZED_CLUSTERS)), vendors: Seq(ToSet(ANALYZED_VENDORS)),
            target: Nat \cup {NoTarget}, priority: 0 .. RunPriority - 1, pause: BOOLEAN]

\* A task: the call it is from, its iteration there, and the place of its combination
\* in the iteration.
Tasks == [key: Key \cup {NoKey}, call: 1 .. MaxRequests, index: Nat, place: Nat,
          priority: 0 .. RunPriority]

ASSUME CampaignAssumption ==
    MaxRequests \in Nat /\ Requests \subseteq Request /\ NoTask \notin Tasks

VARIABLES
    queue,      \* the tasks that wait
    current,    \* the task that runs
    profile,    \* its profile
    left,       \* profiles whose orchestrator goes on without its scheduler
    requests,   \* number of calls of queue_benchmarks
    reached,    \* history: the highest iteration begun of each call
    goal,       \* history: the highest target asked for each key
    exact,      \* history: keys whose tasks were only queued for a target, once for
                \* each iteration, with all earlier results known
    repeated    \* history: those of left whose task was taken up again

queueVars == <<queue, current, profile, left, requests, reached, goal, exact, repeated>>
vars == <<aVars, queueVars>>

Init ==
    /\ AInit
    /\ queue = {} /\ current = NoTask /\ profile = NoProfile /\ left = {}
    /\ requests = 0 /\ reached = [c \in 1 .. MaxRequests |-> 0]
    /\ goal = [k \in Key |-> 0] /\ exact = Key /\ repeated = {}

-----------------------------------------------------------------------------
(* queue_benchmarks *)

\* The combinations of a request in the order of the three loops.
Combinations(r) ==
    LET benchmarks == SelectSeq(BenchmarkDB, LAMBDA b : b.id \in r.benchmarks)
        clusters == IF r.clusters = <<>> THEN ANALYZED_CLUSTERS ELSE r.clusters
        vendors == IF r.vendors = <<>> THEN ANALYZED_VENDORS ELSE r.vendors
        On(b, c) == IF Contains(supported_benchmarks(c), b)
                    THEN SelectSeq(vendors, LAMBDA v : Contains(c.vendors, v)) ELSE <<>>
        Keys(b, c) == [i \in DOMAIN On(b, c) |-> <<b.id, On(b, c)[i], c.id>>]
    IN  FlattenSeq([i \in DOMAIN benchmarks |->
            FlattenSeq([j \in DOMAIN clusters |-> Keys(benchmarks[i], clusters[j])])])

CombinationsOf == [r \in Requests |-> Combinations(r)]

\* What a request asks for are keys, and the benchmark of a key tells whether a
\* fault is expected.
ASSUME KeysAssumption ==
    /\ \A r \in Requests : CombinationsOf[r] \in Seq(Key)
    /\ \A k \in Key : \E i \in DOMAIN BenchmarkDB :
          /\ BenchmarkDB[i].id = k[1]
          /\ k \in FaultKey <=> BenchmarkDB[i].location # "none"

\* The tasks of a combination, at most.
Most(r) == IF r.target = NoTarget THEN 1 ELSE r.target

\* Mutant: the profiles there are are not counted.
NumberToQueue_All(r, k) == Most(r)

\* ProfileQuery finds the processed profiles that are not corrupt.
NumberToQueue(r, k) ==
    LET found == IF r.target = NoTarget THEN 0 ELSE Cardinality(Usable(k))
    IN  IF Most(r) > found THEN Most(r) - found ELSE 0

\* The task of the j-th combination in the iteration i.
Task(r, j, i) ==
    [key |-> CombinationsOf[r][j], call |-> requests + 1, index |-> i, place |-> j,
     priority |-> r.priority]

NewTasks(r) ==
    UNION {{Task(r, j, i) : i \in 1 .. NumberToQueue(r, CombinationsOf[r][j])} :
              j \in DOMAIN CombinationsOf[r]}

\* The pause comes after all tasks of its call.
Pause(r, tasks) ==
    IF r.pause /\ tasks # {}
    THEN {[key |-> NoKey, call |-> requests + 1, index |-> Most(r) + 1, place |-> 0,
           priority |-> r.priority]}
    ELSE {}

\* What the logs of p say, when it is converted without interference.
Good(p) == ~FaultsMissing(p) /\ Verdict(p, 1) = "processed"

GoodProfiles(k) == {p \in closed : row[p].key = k /\ Good(p)}

Waiting(k) == {t \in queue : t.key = k}
Running(k) == IF current # NoTask /\ current.key = k THEN 1 ELSE 0
LeftOf(k) == {p \in left : row[p].key = k}

\* No task and no orchestrator of the key is left, and all its good profiles have
\* been found so.
Settled(k) ==
    /\ Waiting(k) = {} /\ Running(k) = 0 /\ LeftOf(k) = {}
    /\ GoodProfiles(k) \subseteq Usable(k)

Asked(r) == {CombinationsOf[r][j] : j \in DOMAIN CombinationsOf[r]}

\* An option that is given twice makes a combination come twice.
Once(r, k) ==
    \A i, j \in DOMAIN CombinationsOf[r] :
        CombinationsOf[r][i] = k /\ CombinationsOf[r][j] = k => i = j

\* The prompt from five tasks on may be refused, which leaves everything as it is.
QueueBenchmarks(r) ==
    LET new == NewTasks(r)
    IN  /\ requests < MaxRequests
        /\ requests' = requests + 1
        /\ queue' = queue \cup new \cup Pause(r, new)
        /\ goal' = [k \in Key |-> IF k \in Asked(r) /\ r.target > goal[k]
                                  THEN r.target ELSE goal[k]]
        /\ exact' = {k \in exact :
                        k \in Asked(r) => r.target # NoTarget /\ Once(r, k) /\ Settled(k)}
        /\ UNCHANGED <<current, profile, left, reached, repeated, aVars>>

-----------------------------------------------------------------------------
(* The scheduler, and the orchestrator of its task *)

\* Mutant: without the sort, the tasks of one combination follow each other.
Earlier_Unsorted(t, u) ==
    \/ t.call < u.call
    \/ t.call = u.call /\ t.place < u.place
    \/ t.call = u.call /\ t.place = u.place /\ t.index < u.index

\* The ids follow the calls, and in each the sort by the iteration, which leaves
\* the combinations in their order.
Earlier(t, u) ==
    \/ t.call < u.call
    \/ t.call = u.call /\ t.index < u.index
    \/ t.call = u.call /\ t.index = u.index /\ t.place < u.place

\* The highest priority first, then the lowest id.
IsNext(t) ==
    /\ t \in queue
    /\ \A u \in queue \ {t} :
          t.priority > u.priority \/ (t.priority = u.priority /\ Earlier(t, u))

\* The task t is started.
Begin(t) ==
    /\ current = NoTask /\ IsNext(t)
    /\ queue' = queue \ {t}
    /\ UNCHANGED <<left, requests, goal, exact, repeated>>

Reach(t) == reached' = [reached EXCEPT ![t.call] = IF t.index > @ THEN t.index ELSE @]

\* run_orchestration saves a profile for the next task.
RunNext(t) ==
    /\ Begin(t) /\ t.key # NoKey /\ Reach(t)
    /\ Created # Profile
    /\ profile' = CHOOSE q \in Profile : q \notin Created
    /\ Create(profile', t.key)
    /\ current' = [t EXCEPT !.priority = RunPriority]

\* The repositories or the restart of the machines fail: the task ends before there
\* is a profile.
FailNext(t) ==
    /\ Begin(t) /\ t.key # NoKey /\ Reach(t)
    /\ LoseOrchestrator
    /\ UNCHANGED <<current, profile>>

\* The task of --add-pause ends, with the key or with its deadline.
PauseEnds(t) ==
    /\ Begin(t) /\ t.key = NoKey
    /\ UNCHANGED <<aVars, current, profile, reached>>

\* Mutant: the task has ended and its profile has not.
TaskEnds_Unclosed ==
    /\ current # NoTask
    /\ current' = NoTask
    /\ UNCHANGED <<aVars, queue, profile, left, requests, reached, goal, exact, repeated>>

TaskEnds ==
    /\ current # NoTask
    /\ Close(profile)
    /\ current' = NoTask /\ profile' = NoProfile
    /\ UNCHANGED <<queue, left, requests, reached, goal, exact, repeated>>

\* The orchestrator is lost, at its deadline or alone, and its task with it; or
\* the scheduler as well, which takes the task up again when it is back.
TaskIsLost ==
    /\ current # NoTask
    /\ LoseOrchestrator
    /\ queue' \in {queue, queue \cup {current}}
    /\ current' = NoTask /\ profile' = NoProfile
    /\ UNCHANGED <<left, requests, reached, goal, exact, repeated>>

\* The orchestrator survives its deadline, and its task is over; or it survives the
\* scheduler, which takes the task up again when it is back.
OrchestratorIsLeft(again) ==
    /\ current # NoTask
    /\ LoseOrchestrator
    /\ queue' = IF again THEN queue \cup {current} ELSE queue
    /\ left' = left \cup {profile}
    /\ repeated' = IF again THEN repeated \cup {profile} ELSE repeated
    /\ current' = NoTask /\ profile' = NoProfile
    /\ UNCHANGED <<requests, reached, goal, exact>>

\* It makes its last save, or is lost after all.
LeftEnds(p) ==
    /\ p \in left
    /\ Close(p) \/ UNCHANGED aVars
    /\ left' = left \ {p}
    /\ UNCHANGED <<queue, current, profile, requests, reached, goal, exact, repeated>>

-----------------------------------------------------------------------------
Queueing == \E r \in Requests : QueueBenchmarks(r)
Scheduling ==
    \/ \E t \in queue : RunNext(t) \/ FailNext(t) \/ PauseEnds(t)
    \/ TaskEnds \/ TaskIsLost
    \/ \E again \in BOOLEAN : OrchestratorIsLeft(again)
    \/ \E p \in Profile : LeftEnds(p)
Analysing == (Analyze \/ AdminActions) /\ UNCHANGED queueVars

Next == Queueing \/ Scheduling \/ Analysing

Spec == Init /\ [][Next]_vars

-----------------------------------------------------------------------------
QueueTypeOK ==
    /\ queue \subseteq Tasks /\ IsFiniteSet(queue) /\ current \in Tasks \cup {NoTask}
    /\ profile \in Profile \cup {NoProfile} /\ (profile = NoProfile <=> current = NoTask)
    /\ requests \in 0 .. MaxRequests /\ reached \in [1 .. MaxRequests -> Nat]
    /\ goal \in [Key -> Nat] /\ exact \subseteq Key
    /\ left \subseteq Profile /\ repeated \subseteq Profile

TypeOK == ATypeOK /\ QueueTypeOK

\* "Sort by task iteration index so that tasks run interleaved" (scheduler.py:169):
\* no task of a call is begun while one of an earlier iteration waits, also when
\* tasks fail, or are lost and taken up again.
Interleaved == \A t \in queue : t.key # NoKey => reached[t.call] <= t.index

\* The profiles that are good or may become so without a task.
Counted(k) == GoodProfiles(k) \cup LeftOf(k)

\* "Queues as many as necessary to reach the target count": the good profiles, the
\* orchestrators that go on, the task that runs and those that wait are never more
\* than the target, for a key all of whose calls had a target and were made when its
\* earlier tasks and orchestrators were over and its good profiles found.  Only a
\* task that was taken up again while its orchestrator went on yields two of them.
TargetKept ==
    \A k \in exact :
        Cardinality(Counted(k) \ repeated) + Running(k) + Cardinality(Waiting(k)) <= goal[k]

\* What any call can ask the cluster c for.
Queueable(c) == ToSet(supported_benchmarks(c))
Clusters == ToSet(ANALYZED_CLUSTERS)

\* Whatever benchmark the first call queues for a cluster, the cluster has the
\* machines for it and a place for its faults.
FaultsHaveAPlace ==
    requests = 0 =>
        \A c \in Clusters : \A b \in Queueable(c) : RolesFilled(c, b) /\ FaultPlaced(c, b)

\* Network load has one server on every cluster but the one of all machines, where
\* the workers find four and raise.
LoadsHaveAServer ==
    requests = 0 =>
        \A c \in Clusters : c.id # "big-bad" => \A b \in Queueable(c) : LoadServed(c, b)

\* Whatever is queued, the vendor can be configured for it and its samples are
\* found, but for the two combinations that queue_benchmarks lets through: message
\* intervals of their own with Chrony and SPTP, and a failover with SPTP.
VendorsAreEquipped ==
    requests = 0 =>
        \A c \in Clusters : \A b \in Queueable(c), v \in ToSet(c.vendors) :
            VendorEquipped(c, b, v) <=>
                /\ has_non_standard_intervals(b.config) => v \in {"ptpd", "linuxptp"}
                /\ b.failover => v # "sptp"
=============================================================================
