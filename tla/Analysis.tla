------------------------------- MODULE Analysis -------------------------------
(***************************************************************************)
(* What becomes of the profiles of finished benchmarks: the command that   *)
(* converts their logs and summarizes them, the admin actions on profiles, *)
(* and the orchestrators that create and close the rows meanwhile.         *)
(*                                                                         *)
(* Every action is one statement that reads or writes the database, with   *)
(* the computation before it.  The endpoints of a profile count as one     *)
(* series of samples, and a series as what decides about the profile.      *)
(***************************************************************************)
EXTENDS Integers, FiniteSets

CONSTANTS
    Profile,        \* the profiles that are ever created
    Key,            \* benchmark, vendor and cluster of a profile or a summary
    FaultKey,       \* those whose benchmark has a fault_location
    Log,            \* what the logs of a profile may contain, see LogType
    NoProfile, NoKey,   \* no profile and no key
    Analyzer,       \* processes that run the analysis
    MaxAnalyses,    \* bound on how often run_analysis is called
    MaxIncidents    \* bound on incidents, see below

\* parses: whether the samples can be read from the records; primary, others: whether
\* the primary slave and the other endpoints logged samples; series: whether the
\* timestamps, the clock steps and the times of the faults pass their checks; flips:
\* the sign changes after the clock step; metrics: whether the records of the
\* resource monitor can be read; begun, resolved: the faults that were logged.
LogType == [parses: BOOLEAN, primary: BOOLEAN, others: BOOLEAN,
            series: {"sound", "unsound", "stepping"}, flips: Nat, metrics: BOOLEAN,
            begun: Nat, resolved: Nat]

ASSUME AnalysisAssumption ==
    /\ FaultKey \subseteq Key /\ Log \subseteq LogType
    /\ IsFiniteSet(Profile) /\ NoProfile \notin Profile /\ NoKey \notin Key
    /\ {MaxAnalyses, MaxIncidents} \subseteq Nat

NoLog == [parses |-> TRUE, primary |-> FALSE, others |-> FALSE, series |-> "sound",
          flips |-> 0, metrics |-> TRUE, begun |-> 0, resolved |-> 0]

Row == [key: Key \cup {NoKey}, running: BOOLEAN, processed: BOOLEAN, corrupted: BOOLEAN]
NoRow == [key |-> NoKey, running |-> FALSE, processed |-> FALSE, corrupted |-> FALSE]

VARIABLES
    row,        \* the table of profiles
    closed,     \* those whose orchestrator has made its last save
    log,        \* the logs of a closed profile
    samples,    \* how often the samples and faults of a profile are in the database
    converged,  \* whether its primary slave has a convergence_timestamp
    summary,    \* the summaries of a key, as the counts they hold
    pc,         \* where an analyzer is
    force,      \* its --force
    todo,       \* the profiles it has still to convert
    copy,       \* their rows as it read them
    cur,        \* the profile it converts
    keys,       \* the keys it has still to summarize
    curKey,     \* the key it summarizes
    count,      \* the number of endpoints it found
    admin,      \* the profile and row a clearing admin request has read, and whether
                \* it has deleted the samples
    analyses,   \* number of calls of run_analysis
    incidents,  \* number of lost processes, clearing requests and overlapping calls
    disturbed,  \* history: profiles whose conversion was interfered with
    skipped     \* history: keys whose profiles changed without an invalidation

data == <<samples, converged>>
process == <<pc, force, todo, copy, cur, keys, curKey, count>>
counters == <<analyses, incidents>>
history == <<disturbed, skipped>>
aVars == <<row, closed, log, data, summary, process, admin, counters, history>>

NoRequest == [profile |-> NoProfile, row |-> NoRow, deleted |-> FALSE]
NoRows == [p \in Profile |-> NoRow]

\* How often the samples of a profile are in the database: each conversion writes
\* those of the clock, of the path and of the faults.
NoSamples == [p \in Profile |-> 0]

\* The computed columns of an endpoint, which stay when its samples are deleted:
\* only convergence_timestamp, of the primary slave, decides anything later.
NothingComputed == [p \in Profile |-> FALSE]

\* A summary has a count, and columns of statistics.
NoSummaries == [k \in Key |-> {}]

AInit ==
    /\ row = NoRows /\ closed = {} /\ log = [p \in Profile |-> NoLog]
    /\ samples = NoSamples
    /\ converged = NothingComputed /\ summary = NoSummaries
    /\ pc = [a \in Analyzer |-> "idle"] /\ force = [a \in Analyzer |-> FALSE]
    /\ todo = [a \in Analyzer |-> {}] /\ copy = [a \in Analyzer |-> NoRows]
    /\ cur = [a \in Analyzer |-> NoProfile]
    /\ keys = [a \in Analyzer |-> {}] /\ curKey = [a \in Analyzer |-> NoKey]
    /\ count = [a \in Analyzer |-> 0]
    /\ admin = NoRequest
    /\ analyses = 0 /\ incidents = 0
    /\ disturbed = {} /\ skipped = {}

-----------------------------------------------------------------------------
(* The orchestrator *)

Created == {p \in Profile : row[p] # NoRow}

Create(p, k) ==
    /\ row[p] = NoRow
    /\ row' = [row EXCEPT ![p] = [NoRow EXCEPT !.key = k, !.running = TRUE]]
    /\ UNCHANGED <<closed, log, data, summary, process, admin, counters, history>>

\* The last save writes the object of the orchestrator, with the flags of the
\* analysis as they were when it was created.  By then the logs are complete.
Close(p) ==
    /\ row[p] # NoRow /\ p \notin closed
    /\ row' = [row EXCEPT ![p] = [NoRow EXCEPT !.key = row[p].key]]
    /\ closed' = closed \cup {p}
    /\ \E l \in Log : log' = [log EXCEPT ![p] = l]
    /\ UNCHANGED <<data, summary, process, admin, counters, history>>

\* The orchestrator is lost or fails without a save: the profile, if there is one by
\* then, stays running for ever.
LoseOrchestrator ==
    /\ incidents < MaxIncidents
    /\ incidents' = incidents + 1
    /\ UNCHANGED <<row, closed, log, data, summary, process, admin, analyses, history>>

-----------------------------------------------------------------------------
(* The admin pages *)

Busy(p) == \E a \in Analyzer : cur[a] = p

\* delete_analysis_output and reanalyze_profile: the rows are read, ...
AdminRead(p) ==
    /\ admin = NoRequest /\ incidents < MaxIncidents /\ row[p] # NoRow
    /\ admin' = [profile |-> p, row |-> row[p], deleted |-> FALSE]
    /\ incidents' = incidents + 1
    /\ UNCHANGED <<row, closed, log, data, summary, process, analyses, history>>

Cleared(r) == [r EXCEPT !.processed = FALSE, !.corrupted = FALSE]

\* ... and cleared, with a save of all their fields.  The summaries are left
\* alone.
AdminWrite ==
    LET p == admin.profile
    IN  /\ row' = [row EXCEPT ![p] = Cleared(admin.row)]
        /\ admin' = NoRequest
        /\ disturbed' = IF Busy(p) THEN disturbed \cup {p} ELSE disturbed
        /\ skipped' = skipped \cup {row[p].key}
        /\ UNCHANGED <<closed, log, converged, summary, process, counters>>

\* delete_analysis_output does it in a transaction, ...
AdminClear ==
    /\ admin # NoRequest /\ ~admin.deleted
    /\ samples' = [samples EXCEPT ![admin.profile] = 0]
    /\ AdminWrite

\* ... and reanalyze_profile without one: it deletes the samples, ...
AdminDelete ==
    LET p == admin.profile
    IN  /\ admin # NoRequest /\ ~admin.deleted
        /\ samples' = [samples EXCEPT ![p] = 0]
        /\ admin' = [admin EXCEPT !.deleted = TRUE]
        /\ disturbed' = disturbed \cup {p}
        /\ UNCHANGED <<row, closed, log, converged, summary, process, counters, skipped>>

\* ... and saves the row.  What it goes on with is StartAnalysis.
AdminSave ==
    /\ admin.deleted
    /\ AdminWrite
    /\ UNCHANGED samples

\* The request is lost: in between, it leaves a processed profile without samples.
AdminLost ==
    /\ admin # NoRequest
    /\ admin' = NoRequest
    /\ UNCHANGED <<row, closed, log, data, summary, process, counters, history>>

-----------------------------------------------------------------------------
(* analyze *)

\* Mutant: without the filter on is_running.
ToAnalyze_AlsoRunning(forced) ==
    {p \in Created : forced \/ ~row[p].processed}

ToAnalyze(forced) ==
    {p \in Created : ~row[p].running /\ (forced \/ ~row[p].processed)}

\* The query is evaluated once: the loop goes over the rows as they were then.
StartAnalysis(a, forced) ==
    /\ pc[a] = "idle" /\ analyses < MaxAnalyses
    /\ analyses' = analyses + 1
    /\ IF \A b \in Analyzer : pc[b] = "idle"
       THEN UNCHANGED incidents
       ELSE incidents < MaxIncidents /\ incidents' = incidents + 1
    /\ pc' = [pc EXCEPT ![a] = "analyzing"]
    /\ force' = [force EXCEPT ![a] = forced]
    /\ todo' = [todo EXCEPT ![a] = ToAnalyze(forced)]
    /\ copy' = [copy EXCEPT ![a] = [p \in Profile |-> IF p \in ToAnalyze(forced)
                                                    THEN row[p] ELSE NoRow]]
    /\ UNCHANGED <<row, closed, log, data, summary, cur, keys, curKey, count, admin,
                   history>>

Others(a, p) == \E b \in Analyzer \ {a} : cur[b] = p

BeginConversion(a, p) ==
    /\ pc[a] = "analyzing" /\ p \in todo[a]
    /\ pc' = [pc EXCEPT ![a] = "clearing"]
    /\ todo' = [todo EXCEPT ![a] = @ \ {p}] /\ cur' = [cur EXCEPT ![a] = p]
    /\ disturbed' = IF Others(a, p) THEN disturbed \cup {p} ELSE disturbed \ {p}
    /\ skipped' = IF row[p].processed THEN skipped \cup {row[p].key} ELSE skipped
    /\ UNCHANGED <<row, closed, log, converged, summary, force, copy, keys, curKey, count,
                   admin, counters>>

\* Mutant: the samples of the last conversion are left.
ClearSamples_Kept(a, p) == BeginConversion(a, p) /\ UNCHANGED samples

\* convert_profile begins with clear_analysis_data: it deletes the samples, faults
\* among them, and leaves the computed fields of the endpoints.
ClearSamples(a, p) ==
    /\ BeginConversion(a, p)
    /\ samples' = [samples EXCEPT ![p] = 0]

\* The analyzer writes its copy of the current row, changed to r.
Save(a, r) ==
    /\ copy' = [copy EXCEPT ![a][cur[a]] = r]
    /\ row' = [row EXCEPT ![cur[a]] = r]

SaveCleared(a) ==
    /\ pc[a] = "clearing"
    /\ pc' = [pc EXCEPT ![a] = "parsing"]
    /\ Save(a, Cleared(copy[a][cur[a]]))
    /\ skipped' = IF row[cur[a]].processed THEN skipped \cup {row[cur[a]].key} ELSE skipped
    /\ UNCHANGED <<closed, log, data, summary, force, todo, cur, keys, curKey, count, admin,
                   counters, disturbed>>

ConversionFrame ==
    UNCHANGED <<closed, log, summary, force, todo, keys, curKey, count, admin, counters,
                disturbed>>

HasSamples(p) == log[p].primary \/ log[p].others
Expected(p) == row[p].key \in FaultKey
FaultsMissing(p) == Expected(p) /\ log[p].begun + log[p].resolved = 0

Parsed(p) ==
    IF ~log[p].parses THEN "raises" ELSE IF FaultsMissing(p) THEN "corrupt" ELSE "series"

\* parse_log_data and process_fault_data of all endpoints: a fault that is expected
\* must be there.  For a record that cannot be read it raises; the samples that it
\* may have saved for other endpoints by then are read by nobody, as the profile
\* stays unprocessed.
Parse(a) ==
    LET p == cur[a]
    IN  /\ pc[a] = "parsing"
        /\ samples' = [samples EXCEPT ![p] = IF log[p].parses THEN @ + 1 ELSE @]
        /\ pc' = [pc EXCEPT ![a] = Parsed(p)]
        /\ UNCHANGED <<row, converged, copy, cur, skipped>> /\ ConversionFrame

\* detect_clock_convergence: none with less than five sign changes, and the sixth
\* is the convergence, which there may not be.
Convergence(flips) ==
    IF flips < 5 THEN "corrupt" ELSE IF flips = 5 THEN "raises" ELSE "processed"

\* The last part of process_timeseries_data.
FaultVerdict(p) ==
    LET begun == log[p].begun
        resolved == log[p].resolved
        missing == IF Expected(p) THEN "corrupt" ELSE "processed"
    IN  IF begun + resolved > 2 THEN "corrupt"
        ELSE IF begun = 0 THEN missing
        ELSE IF begun > 1 THEN "raises"
        ELSE IF resolved = 0 THEN missing ELSE "processed"

\* process_system_metrics_data: a record that cannot be read raises.
MetricsRead(p) == log[p].metrics

\* The timestamps of the samples, s times in the database, are unique and do not
\* go back.
TimestampsSound(p, s) == s = 1 /\ log[p].series # "unsound"

\* Timeseries._validate_series asserts it again, and raises where the first check
\* marks the profile as corrupt.
SeriesValid(p, s) == s = 1 /\ log[p].series # "unsound"

\* detect_clock_step raises for more steps than the benchmark permits.
StepsPermitted(p) == log[p].series # "stepping"

\* process_timeseries_data does nothing without samples, in the logs or in the
\* database.
Verdict(p, s) ==
    CASE ~MetricsRead(p) -> "raises"
      [] MetricsRead(p) /\ ~HasSamples(p) -> "corrupt"
      [] MetricsRead(p) /\ HasSamples(p) /\ s = 0 -> "processed"
      [] MetricsRead(p) /\ HasSamples(p) /\ s > 0 ->
            IF ~TimestampsSound(p, s) THEN "corrupt"
            ELSE IF ~SeriesValid(p, s) \/ ~StepsPermitted(p) THEN "raises"
            ELSE IF Convergence(log[p].flips) # "processed" THEN Convergence(log[p].flips)
            ELSE FaultVerdict(p)

ProcessSeries(a) ==
    LET p == cur[a]
        verdict == Verdict(p, samples[p])
    IN  /\ pc[a] = "series"
        /\ pc' = [pc EXCEPT ![a] = verdict]
        /\ converged' = [converged EXCEPT ![p] =
                            @ \/ (verdict = "processed" /\ samples[p] = 1 /\ log[p].primary)]
        /\ UNCHANGED <<row, samples, copy, cur, skipped>> /\ ConversionFrame

\* Mutant: a corrupt profile is not marked as processed.
SaveFlags_Unprocessed(a) ==
    /\ pc[a] \in {"processed", "corrupt"}
    /\ Save(a, [copy[a][cur[a]] EXCEPT !.processed = (pc[a] = "processed"),
                                       !.corrupted = (pc[a] = "corrupt")])
    /\ pc' = [pc EXCEPT ![a] = "invalidating"]
    /\ skipped' = skipped \cup {row[cur[a]].key}
    /\ UNCHANGED <<data, cur>> /\ ConversionFrame

\* A corrupt profile counts as processed, too.
SaveFlags(a) ==
    /\ pc[a] \in {"processed", "corrupt"}
    /\ Save(a, [copy[a][cur[a]] EXCEPT !.processed = TRUE, !.corrupted = (pc[a] = "corrupt")])
    /\ pc' = [pc EXCEPT ![a] = "invalidating"]
    /\ skipped' = skipped \cup {row[cur[a]].key}
    /\ UNCHANGED <<data, cur>> /\ ConversionFrame

EndConversion(a) ==
    /\ pc' = [pc EXCEPT ![a] = "analyzing"] /\ cur' = [cur EXCEPT ![a] = NoProfile]
    /\ copy' = [copy EXCEPT ![a][cur[a]] = NoRow]
    /\ UNCHANGED <<row, closed, log, data, force, todo, keys, curKey, count, admin, counters,
                   disturbed>>

\* Any other exception is logged: the profile stays cleared and unprocessed, and
\* the summary as it is.
ConversionRaises(a) ==
    /\ pc[a] = "raises"
    /\ EndConversion(a)
    /\ UNCHANGED <<summary, skipped>>

\* An analyzer has read the profiles of the key and not saved their summary yet.
Pending(k) == \E b \in Analyzer : pc[b] = "saving" /\ curKey[b] = k

Validated(k) == IF Pending(k) THEN skipped ELSE skipped \ {k}

\* Mutant: only the summaries of profiles that are not corrupt are deleted.
Invalidate_UnlessCorrupt(a) ==
    LET k == row[cur[a]].key
    IN  /\ pc[a] = "invalidating"
        /\ summary' = IF row[cur[a]].corrupted THEN summary ELSE [summary EXCEPT ![k] = {}]
        /\ skipped' = Validated(k)
        /\ EndConversion(a)

\* BenchmarkSummary.invalidate deletes the summaries of the profile's key.
Invalidate(a) ==
    LET k == row[cur[a]].key
    IN  /\ pc[a] = "invalidating"
        /\ summary' = [summary EXCEPT ![k] = {}]
        /\ skipped' = Validated(k)
        /\ EndConversion(a)

-----------------------------------------------------------------------------
(* summarize *)

SummaryFrame == UNCHANGED <<row, closed, log, data, todo, copy, cur, admin, counters,
                            disturbed>>

StartSummaries(a) ==
    /\ pc[a] = "analyzing" /\ todo[a] = {}
    /\ pc' = [pc EXCEPT ![a] = "summarizing"]
    /\ keys' = [keys EXCEPT ![a] = Key]
    /\ UNCHANGED <<summary, force, curKey, count, skipped>> /\ SummaryFrame

Usable(k) == {p \in Profile : row[p].key = k /\ row[p].processed /\ ~row[p].corrupted}

Idle(a) ==
    /\ pc' = [pc EXCEPT ![a] = "idle"] /\ force' = [force EXCEPT ![a] = FALSE]
    /\ keys' = [keys EXCEPT ![a] = {}] /\ curKey' = [curKey EXCEPT ![a] = NoKey]
    /\ count' = [count EXCEPT ![a] = 0]

\* The loops over vendors, clusters and benchmarks have a fixed order.
AtKey(a, k) == keys[a] # {} /\ k = CHOOSE l \in keys[a] : TRUE

\* BenchmarkSummary.create returns if there is one.
KeepSummary(a, k) ==
    /\ pc[a] = "summarizing" /\ AtKey(a, k)
    /\ summary[k] # {} /\ ~force[a]
    /\ keys' = [keys EXCEPT ![a] = @ \ {k}]
    /\ UNCHANGED <<summary, pc, force, curKey, count, skipped>> /\ SummaryFrame

\* load_samples_to_series raises a RuntimeError when converged samples are asked of
\* an endpoint that never converged, and has no series without samples.
Loads(p) == converged[p]
HasSeries(p) == samples[p] > 0

\* With --force it deletes it.  The query reads the samples of the primary slaves:
\* one that never converged raises a RuntimeError, which ends the run; one
\* without samples makes it "no data", which is the summary of no endpoints.
QuerySamples(a, k) ==
    LET found == Usable(k)
    IN  /\ pc[a] = "summarizing" /\ AtKey(a, k)
        /\ summary[k] = {} \/ force[a]
        /\ summary' = [summary EXCEPT ![k] = {}]
        /\ IF \A p \in found : Loads(p)
           THEN /\ count' = [count EXCEPT ![a] = IF \A p \in found : HasSeries(p)
                                                 THEN Cardinality(found) ELSE 0]
                /\ pc' = [pc EXCEPT ![a] = "saving"]
                /\ keys' = [keys EXCEPT ![a] = @ \ {k}]
                /\ curKey' = [curKey EXCEPT ![a] = k]
                /\ UNCHANGED force
           ELSE Idle(a)
        /\ UNCHANGED skipped /\ SummaryFrame

SaveSummary(a) ==
    /\ pc[a] = "saving"
    /\ summary' = [summary EXCEPT ![curKey[a]] = @ \cup {count[a]}]
    /\ pc' = [pc EXCEPT ![a] = "summarizing"]
    /\ curKey' = [curKey EXCEPT ![a] = NoKey] /\ count' = [count EXCEPT ![a] = 0]
    /\ UNCHANGED <<force, keys, skipped>> /\ SummaryFrame

EndAnalysis(a) ==
    /\ pc[a] = "summarizing" /\ keys[a] = {}
    /\ Idle(a)
    /\ UNCHANGED <<summary, skipped>> /\ SummaryFrame

\* The process is lost.  Between the two halves of clear_analysis_data it leaves a
\* processed profile without samples.
LoseAnalyzer(a) ==
    /\ pc[a] # "idle" /\ incidents < MaxIncidents
    /\ incidents' = incidents + 1
    /\ Idle(a)
    /\ todo' = [todo EXCEPT ![a] = {}] /\ copy' = [copy EXCEPT ![a] = NoRows]
    /\ cur' = [cur EXCEPT ![a] = NoProfile]
    /\ disturbed' = IF pc[a] = "clearing" THEN disturbed \cup {cur[a]} ELSE disturbed
    /\ UNCHANGED <<row, closed, log, data, summary, admin, analyses, skipped>>

-----------------------------------------------------------------------------
Convert(a) ==
    \/ \E p \in Profile : ClearSamples(a, p)
    \/ SaveCleared(a) \/ Parse(a) \/ ProcessSeries(a)
    \/ SaveFlags(a) \/ ConversionRaises(a) \/ Invalidate(a)

Summarize(a) ==
    \/ StartSummaries(a) \/ SaveSummary(a) \/ EndAnalysis(a)
    \/ \E k \in Key : KeepSummary(a, k) \/ QuerySamples(a, k)

Analyze ==
    \E a \in Analyzer :
        \/ \E forced \in BOOLEAN : StartAnalysis(a, forced)
        \/ Convert(a) \/ Summarize(a) \/ LoseAnalyzer(a)

AdminActions ==
    AdminClear \/ AdminDelete \/ AdminSave \/ AdminLost \/ \E p \in Profile : AdminRead(p)

ANext ==
    \/ \E p \in Profile : Close(p) \/ \E k \in Key : Create(p, k)
    \/ LoseOrchestrator
    \/ Analyze \/ AdminActions

ASpec == AInit /\ [][ANext]_aVars

-----------------------------------------------------------------------------
ATypeOK ==
    /\ row \in [Profile -> Row] /\ closed \subseteq Profile
    /\ log \in [Profile -> Log \cup {NoLog}]
    /\ samples \in [Profile -> Nat]
    /\ converged \in [Profile -> BOOLEAN]
    /\ summary \in [Key -> SUBSET Nat]
    /\ pc \in [Analyzer -> {"idle", "analyzing", "clearing", "parsing", "series",
                            "processed", "corrupt", "raises", "invalidating",
                            "summarizing", "saving"}]
    /\ force \in [Analyzer -> BOOLEAN] /\ todo \in [Analyzer -> SUBSET Profile]
    /\ copy \in [Analyzer -> [Profile -> Row]]
    /\ cur \in [Analyzer -> Profile \cup {NoProfile}]
    /\ keys \in [Analyzer -> SUBSET Key] /\ curKey \in [Analyzer -> Key \cup {NoKey}]
    /\ count \in [Analyzer -> Nat]
    /\ admin \in [profile: Profile \cup {NoProfile}, row: Row, deleted: BOOLEAN]
    /\ analyses \in 0 .. MaxAnalyses /\ incidents \in 0 .. MaxIncidents
    /\ disturbed \subseteq Profile /\ skipped \subseteq Key

\* Only the profiles of benchmarks that are over have been analysed: analyze()
\* takes none that runs, and the last save of an orchestrator undoes no analysis.
AnalysedAfterTheRun == \A p \in Profile : row[p].processed => p \in closed

\* The flags of a profile that was converted tell what its logs hold, and its
\* samples are there once, after any number of analyses, failures and losses of
\* convert_profile.  It says nothing, until the next conversion of the profile, where
\* another process wrote to it during one, where an analyzer was lost between the
\* halves of clear_analysis_data, and where reanalyze_profile has deleted its samples.
FlagsTellTheLog ==
    \A p \in Profile :
        (row[p].processed /\ ~Busy(p) /\ p \notin disturbed) =>
            /\ samples[p] = 1
            /\ row[p].corrupted <=> FaultsMissing(p) \/ Verdict(p, 1) = "corrupt"

\* A summary counts the usable profiles of its key: convert_profile is followed by
\* BenchmarkSummary.invalidate, also when two analyses overlap.  It says nothing of
\* a key of which a profile was cleared, lost its samples or changed its flags, from
\* then until the next invalidation that no summary in the making outlives.
SummariesAgree ==
    \A k \in Key \ skipped :
        (\A p \in Usable(k) : samples[p] > 0 /\ p \notin disturbed) => summary[k] \subseteq {Cardinality(Usable(k))}

\* The logs of the profile make no step of the conversion raise.
Decidable(p) == log[p].parses /\ (FaultsMissing(p) \/ Verdict(p, 1) # "raises")

\* A conversion that is over has decided: the profile is processed, good or corrupt,
\* unless its logs made it raise, and analyze() goes on with the next one.
ConversionDecides ==
    [][\A a \in Analyzer :
        (cur[a] # NoProfile /\ cur[a] \notin disturbed /\ pc'[a] = "analyzing") =>
            (row'[cur[a]].processed <=> Decidable(cur[a]))]_aVars
=============================================================================
