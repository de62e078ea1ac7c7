---------------------------- MODULE AnalysisProofs ----------------------------
(***************************************************************************)
(* Theorems about Analysis for any number of profiles, keys, analyses and  *)
(* incidents, and their proofs.                                            *)
(***************************************************************************)
EXTENDS Analysis, FiniteSetTheorems, TLAPS

Converting == {"clearing", "parsing", "series", "processed", "corrupt", "raises",
               "invalidating"}

\* The rows that processes hold have the keys of the rows in the table, and a row
\* without a key is the one of a profile that does not exist.
KeyInv ==
    /\ \A p \in Profile : row[p].key = NoKey => row[p] = NoRow
    /\ admin.deleted => admin # NoRequest
    /\ admin # NoRequest =>
          /\ admin.profile \in Profile
          /\ admin.row.key = row[admin.profile].key /\ admin.row.key # NoKey
    /\ \A a \in Analyzer :
          /\ cur[a] \notin todo[a] /\ (pc[a] \in Converting <=> cur[a] # NoProfile)
          /\ \A p \in Profile : p \in todo[a] \/ p = cur[a] =>
                row[p].key # NoKey /\ copy[a][p].key = row[p].key

TypeInv == ATypeOK /\ KeyInv

\* A profile that exists is closed or marked as running: the query of an analysis
\* and a request of the admin pages that has read a closed row hold no open one.
RunInv ==
    /\ \A p \in Profile :
          /\ row[p].key # NoKey => row[p].running \/ p \in closed
          /\ row[p].processed => p \in closed
    /\ admin # NoRequest => admin.row.running \/ admin.profile \in closed
    /\ \A a \in Analyzer : todo[a] \subseteq closed /\ (cur[a] # NoProfile => cur[a] \in closed)

\* What the conversion has decided is what the logs say.
Decided(p) ==
    /\ samples[p] = 1
    /\ row[p].corrupted <=> FaultsMissing(p) \/ Verdict(p, 1) = "corrupt"

\* How far the conversion of p by the analyzer a is, if nobody interferes with it.
Stage(a, p) ==
    /\ pc[a] = "clearing" => samples[p] = 0
    /\ pc[a] = "parsing" => samples[p] = 0 /\ ~row[p].processed
    /\ pc[a] = "series" => /\ samples[p] = 1 /\ ~row[p].processed
                           /\ log[p].parses /\ ~FaultsMissing(p)
    /\ pc[a] = "processed" => /\ samples[p] = 1 /\ ~row[p].processed
                              /\ log[p].parses /\ ~FaultsMissing(p)
                              /\ Verdict(p, 1) = "processed"
    /\ pc[a] = "corrupt" => /\ samples[p] = 1 /\ ~row[p].processed /\ log[p].parses
                            /\ FaultsMissing(p) \/ Verdict(p, 1) = "corrupt"
    /\ pc[a] = "raises" => ~row[p].processed /\ ~Decidable(p)
    /\ pc[a] = "invalidating" => row[p].processed /\ Decidable(p) /\ Decided(p)

\* Two analyzers with the same profile disturb it; an undisturbed conversion has
\* done what its stage says; and one that is over has decided.
FlagInv ==
    /\ \A p \in Profile : \A a, b \in Analyzer :
          a # b /\ cur[a] = p /\ cur[b] = p => p \in disturbed
    /\ \A p \in Profile : \A a \in Analyzer : cur[a] = p /\ p \notin disturbed => Stage(a, p)
    /\ \A p \in Profile : row[p].processed /\ ~Busy(p) /\ p \notin disturbed => Decided(p)

LEMMA NoRowType == NoRow \in Row
BY AnalysisAssumption DEF NoRow, Row

LEMMA NoLogType == Log \cup {NoLog} \subseteq LogType
<1>1. NoLog \in LogType
    BY DEF NoLog, LogType
<1>2. Log \subseteq LogType
    BY AnalysisAssumption
<1> QED
    BY <1>1, <1>2, Zenon

LEMMA VerdictType ==
    ASSUME NEW p \in Profile, NEW s \in Nat, log[p] \in LogType
    PROVE  Verdict(p, s) \in {"processed", "corrupt", "raises"}
<1>1. FaultVerdict(p) \in {"processed", "corrupt", "raises"}
    BY Zenon DEF FaultVerdict
<1>2. Convergence(log[p].flips) \in {"processed", "corrupt", "raises"}
    BY Zenon DEF Convergence
<1>3. MetricsRead(p) \in BOOLEAN /\ HasSamples(p) \in BOOLEAN
    BY DEF MetricsRead, HasSamples, LogType
<1>4. s = 0 \/ s > 0
    OBVIOUS
<1> QED
    BY <1>1, <1>2, <1>3, <1>4 DEF Verdict

LEMMA InitType == AInit => TypeInv
<1> SUFFICES ASSUME AInit PROVE TypeInv
    OBVIOUS
<1> USE AnalysisAssumption, NoRowType, NoLogType
<1>1. ATypeOK
    BY DEF AInit, ATypeOK, NoRows, NoSamples, NothingComputed, NoSummaries, NoRequest
<1>2. KeyInv
    BY DEF AInit, KeyInv, NoRows, NoRequest, NoRow, Converting
<1> QED
    BY <1>1, <1>2 DEF TypeInv

LEMMA ClearedType ==
    \A r \in Row : Cleared(r) \in Row /\ Cleared(r).key = r.key /\ Cleared(r).running = r.running
                   /\ ~Cleared(r).processed
BY DEF Cleared, Row

LEMMA NextType == TypeInv /\ [ANext]_aVars => TypeInv'
<1> SUFFICES ASSUME TypeInv, [ANext]_aVars PROVE TypeInv'
    OBVIOUS
<1> USE AnalysisAssumption, NoRowType DEF TypeInv, ATypeOK, KeyInv, aVars, data, process,
        counters, history
<1>1. ASSUME NEW p \in Profile, Close(p) PROVE TypeInv'
  <2>1. ATypeOK'
    <3>1. [NoRow EXCEPT !.key = row[p].key] \in Row
        BY DEF NoRow, Row
    <3>2. log' \in [Profile -> Log \cup {NoLog}]
        BY <1>1 DEF Close
    <3> QED
        BY <1>1, <3>1, <3>2 DEF Close
  <2>2. row[p].key # NoKey
      BY <1>1 DEF Close
  <2>3. row'[p].key = row[p].key
      BY <1>1, <2>2 DEF Close, NoRow
  <2>4. KeyInv'
      BY <1>1, <2>2, <2>3 DEF Close, Converting
  <2> QED
      BY <2>1, <2>4
<1>2. ASSUME NEW p \in Profile, NEW k \in Key, Create(p, k) PROVE TypeInv'
  <2>1. [NoRow EXCEPT !.key = k, !.running = TRUE] \in Row
      BY DEF NoRow, Row
  <2>2. ATypeOK'
      BY <1>2, <2>1 DEF Create
  <2>3. row[p].key = NoKey
      BY <1>2 DEF Create, NoRow
  <2>4. row'[p].key = k /\ k # NoKey
      BY <1>2 DEF Create, NoRow
  <2>5. KeyInv'
      BY <1>2, <2>3, <2>4 DEF Create, Converting
  <2> QED
      BY <2>2, <2>5
<1>3. ASSUME NEW p \in Profile, AdminRead(p) PROVE TypeInv'
    BY <1>3 DEF AdminRead
<1>4. ASSUME AdminClear \/ AdminSave PROVE TypeInv'
  <2>1. admin # NoRequest /\ AdminWrite
      BY <1>4 DEF AdminClear, AdminSave
  <2>2. samples' \in [Profile -> Nat]
    <3>1. CASE AdminClear
        BY <3>1 DEF AdminClear
    <3>2. CASE AdminSave
        BY <3>2 DEF AdminSave
    <3> QED
        BY <1>4, <3>1, <3>2
  <2> DEFINE r == Cleared(admin.row)
             p == admin.profile
  <2>3. p \in Profile /\ r \in Row /\ r.key = row[p].key /\ r.key \in Key
      BY <2>1, ClearedType DEF Row
  <2>4. /\ row' = [row EXCEPT ![p] = r] /\ admin' = NoRequest
        /\ disturbed' \in {disturbed, disturbed \cup {p}}
        /\ skipped' = skipped \cup {row[p].key}
        /\ UNCHANGED <<closed, log, converged, summary, process, counters>>
      BY <2>1 DEF AdminWrite
  <2> HIDE DEF r, p
  <2>5. ATypeOK'
      BY <2>2, <2>3, <2>4 DEF NoRequest
  <2>6. KeyInv'
      BY <2>3, <2>4 DEF NoRequest
  <2> QED
      BY <2>5, <2>6
<1>21. ASSUME AdminDelete PROVE TypeInv'
  <2>1. /\ admin # NoRequest /\ samples' \in [Profile -> Nat]
        /\ admin' = [admin EXCEPT !.deleted = TRUE]
        /\ disturbed' = disturbed \cup {admin.profile}
        /\ UNCHANGED <<row, closed, log, converged, summary, process, counters, skipped>>
      BY <1>21 DEF AdminDelete
  <2>2. admin'.profile = admin.profile /\ admin'.row = admin.row /\ admin' # NoRequest
      BY <2>1 DEF NoRequest
  <2>3. ATypeOK'
      BY <2>1
  <2>4. KeyInv'
      BY <2>1, <2>2
  <2> QED
      BY <2>3, <2>4
<1>22. ASSUME AdminLost PROVE TypeInv'
    BY <1>22 DEF AdminLost, NoRequest
<1>5. ASSUME NEW a \in Analyzer, NEW forced \in BOOLEAN, StartAnalysis(a, forced) PROVE TypeInv'
  <2> DEFINE chosen == ToAnalyze(forced)
             held == [p \in Profile |-> IF p \in chosen THEN row[p] ELSE NoRow]
  <2>1. chosen \subseteq Profile /\ \A p \in chosen : row[p].key # NoKey
      BY DEF ToAnalyze, Created
  <2>2. held \in [Profile -> Row] /\ \A p \in chosen : held[p] = row[p]
      BY <2>1
  <2> HIDE DEF chosen, held
  <2>3. /\ pc[a] = "idle" /\ pc' = [pc EXCEPT ![a] = "analyzing"]
        /\ force' = [force EXCEPT ![a] = forced]
        /\ todo' = [todo EXCEPT ![a] = chosen] /\ copy' = [copy EXCEPT ![a] = held]
      BY <1>5 DEF StartAnalysis, chosen, held
  <2>4. /\ analyses' \in 0 .. MaxAnalyses /\ incidents' \in 0 .. MaxIncidents
        /\ UNCHANGED <<row, closed, log, data, summary, cur, keys, curKey, count, admin,
                       history>>
      BY <1>5 DEF StartAnalysis
  <2>5. ATypeOK'
      BY <2>1, <2>2, <2>3, <2>4
  <2>6. KeyInv'
      BY <2>1, <2>2, <2>3, <2>4 DEF Converting
  <2> QED
      BY <2>5, <2>6
<1>6. ASSUME NEW a \in Analyzer, NEW p \in Profile, ClearSamples(a, p) PROVE TypeInv'
    BY <1>6 DEF ClearSamples, BeginConversion, Others, Converting, Row
<1>7. ASSUME NEW a \in Analyzer, SaveCleared(a) PROVE TypeInv'
  <2> DEFINE r == Cleared(copy[a][cur[a]])
  <2>1. cur[a] \in Profile /\ cur[a] # NoProfile
      BY <1>7 DEF SaveCleared, Converting
  <2>2. r \in Row /\ r.key = copy[a][cur[a]].key /\ row[cur[a]].key \in Key
      BY <2>1, ClearedType DEF Row
  <2> HIDE DEF r
  <2>3. /\ copy' = [copy EXCEPT ![a][cur[a]] = r] /\ row' = [row EXCEPT ![cur[a]] = r]
        /\ pc' = [pc EXCEPT ![a] = "parsing"] /\ pc[a] = "clearing"
        /\ skipped' \in {skipped, skipped \cup {row[cur[a]].key}}
        /\ UNCHANGED <<closed, log, data, summary, force, todo, cur, keys, curKey, count,
                       admin, counters, disturbed>>
      BY <1>7 DEF SaveCleared, Save, r
  <2>4. ATypeOK'
      BY <2>1, <2>2, <2>3
  <2>5. KeyInv'
      BY <2>1, <2>2, <2>3 DEF Converting
  <2> QED
      BY <2>4, <2>5
<1>8. ASSUME NEW a \in Analyzer, Parse(a) PROVE TypeInv'
    BY <1>8 DEF Parse, Parsed, ConversionFrame, Converting
<1>9. ASSUME NEW a \in Analyzer, ProcessSeries(a) PROVE TypeInv'
  <2>1. cur[a] \in Profile
      BY <1>9 DEF ProcessSeries, Converting
  <2>2. log[cur[a]].primary \in BOOLEAN
      BY <2>1, NoLogType DEF LogType
  <2>3. converged' \in [Profile -> BOOLEAN]
      BY <1>9, <2>1, <2>2 DEF ProcessSeries
  <2>4. pc' = [pc EXCEPT ![a] = Verdict(cur[a], samples[cur[a]])]
      BY <1>9 DEF ProcessSeries
  <2>5. pc'[a] \in {"processed", "corrupt", "raises"} /\ \A b \in Analyzer \ {a} : pc'[b] = pc[b]
    <3>1. log[cur[a]] \in LogType
        BY <2>1, NoLogType
    <3> QED
        BY <2>1, <2>4, <3>1, VerdictType
  <2>6. ATypeOK'
      BY <1>9, <2>3, <2>4, <2>5 DEF ProcessSeries, ConversionFrame
  <2>7. KeyInv'
      BY <1>9, <2>5 DEF ProcessSeries, ConversionFrame, Converting
  <2> QED
      BY <2>6, <2>7
<1>10. ASSUME NEW a \in Analyzer, SaveFlags(a) PROVE TypeInv'
  <2> DEFINE r == [copy[a][cur[a]] EXCEPT !.processed = TRUE, !.corrupted = (pc[a] = "corrupt")]
  <2>1. cur[a] \in Profile
      BY <1>10 DEF SaveFlags, Converting
  <2>2. copy[a][cur[a]] \in Row
      BY <2>1
  <2>3. r \in Row /\ r.key = copy[a][cur[a]].key
      BY <2>2 DEF Row
  <2>4. row[cur[a]].key \in Key
      BY <2>1 DEF Row
  <2> HIDE DEF r
  <2>5. /\ copy' = [copy EXCEPT ![a][cur[a]] = r]
        /\ row' = [row EXCEPT ![cur[a]] = r]
      BY <1>10 DEF SaveFlags, Save, r
  <2>6. ATypeOK'
      BY <1>10, <2>1, <2>3, <2>4, <2>5 DEF SaveFlags, ConversionFrame
  <2>7. KeyInv'
      BY <1>10, <2>1, <2>3, <2>5 DEF SaveFlags, ConversionFrame, Converting
  <2> QED
      BY <2>6, <2>7
<1>11. ASSUME NEW a \in Analyzer, ConversionRaises(a) PROVE TypeInv'
    BY <1>11 DEF ConversionRaises, EndConversion, Converting
<1>12. ASSUME NEW a \in Analyzer, Invalidate(a) PROVE TypeInv'
  <2> DEFINE k == row[cur[a]].key
  <2>1. summary' = [summary EXCEPT ![k] = {}]
      BY <1>12 DEF Invalidate
  <2>2. summary' \in [Key -> SUBSET Nat] /\ skipped' \subseteq Key
      BY <1>12, <2>1 DEF Invalidate, Validated
  <2>3. EndConversion(a) /\ cur[a] # NoProfile /\ cur[a] \in Profile
      BY <1>12 DEF Invalidate, Converting
  <2>4. /\ copy' \in [Analyzer -> [Profile -> Row]]
        /\ \A b \in Analyzer, p \in Profile : p # cur[b] => copy'[b][p] = copy[b][p]
      BY <2>3 DEF EndConversion
  <2>5. ATypeOK'
      BY <2>2, <2>3, <2>4 DEF EndConversion
  <2>6. KeyInv'
    <3>1. /\ \A b \in Analyzer \ {a} : pc'[b] = pc[b] /\ cur'[b] = cur[b] /\ copy'[b] = copy[b]
          /\ pc'[a] = "analyzing" /\ cur'[a] = NoProfile
          /\ UNCHANGED <<row, todo, admin>>
        BY <2>3 DEF EndConversion
    <3>2. NoProfile \notin Profile
        BY AnalysisAssumption
    <3>3. ASSUME NEW b \in Analyzer
          PROVE  /\ cur'[b] \notin todo'[b] /\ (pc'[b] \in Converting <=> cur'[b] # NoProfile)
                 /\ \A p \in Profile : p \in todo'[b] \/ p = cur'[b] =>
                       row'[p].key # NoKey /\ copy'[b][p].key = row'[p].key
      <4>1. CASE b = a
        <5>1. todo'[b] \subseteq Profile /\ cur[a] \notin todo'[b]
            BY <3>1, <4>1
        <5>2. \A p \in todo'[b] : copy'[b][p] = copy[b][p]
            BY <2>4, <5>1, <4>1
        <5> QED
            BY <3>1, <3>2, <4>1, <5>1, <5>2 DEF Converting
      <4>2. CASE b # a
          BY <3>1, <4>2
      <4> QED
          BY <4>1, <4>2
    <3> HIDE DEF ATypeOK
    <3> QED
        BY <3>1, <3>3
  <2> QED
      BY <2>5, <2>6
<1>13. ASSUME NEW a \in Analyzer, StartSummaries(a) PROVE TypeInv'
    BY <1>13 DEF StartSummaries, SummaryFrame, Converting
<1>14. ASSUME NEW a \in Analyzer, SaveSummary(a) PROVE TypeInv'
  <2>1. summary' \in [Key -> SUBSET Nat]
    <3>1. summary' = [summary EXCEPT ![curKey[a]] = summary[curKey[a]] \cup {count[a]}]
        BY <1>14 DEF SaveSummary
    <3>2. \A k \in Key : summary[k] \cup {count[a]} \in SUBSET Nat
        OBVIOUS
    <3> QED
        BY <3>1, <3>2
  <2>2. ATypeOK'
      BY <1>14, <2>1 DEF SaveSummary, SummaryFrame
  <2>3. KeyInv'
      BY <1>14 DEF SaveSummary, SummaryFrame, Converting
  <2> QED
      BY <2>2, <2>3
<1>15. ASSUME NEW a \in Analyzer, EndAnalysis(a) PROVE TypeInv'
    BY <1>15 DEF EndAnalysis, Idle, SummaryFrame, Converting
<1>16. ASSUME NEW a \in Analyzer, NEW k \in Key, KeepSummary(a, k) PROVE TypeInv'
    BY <1>16 DEF KeepSummary, SummaryFrame, Converting
<1>17. ASSUME NEW a \in Analyzer, NEW k \in Key, QuerySamples(a, k) PROVE TypeInv'
  <2>1. Cardinality(Usable(k)) \in Nat
      BY FS_Subset, FS_CardinalityType DEF Usable
  <2>2. count' \in [Analyzer -> Nat]
    <3>1. \E n \in Nat : count' = [count EXCEPT ![a] = n]
        BY <1>17, <2>1 DEF QuerySamples, Idle
    <3> QED
        BY <3>1
  <2>3. summary' \in [Key -> SUBSET Nat]
    <3>1. summary' = [summary EXCEPT ![k] = {}]
        BY <1>17 DEF QuerySamples
    <3>2. {} \in SUBSET Nat
        OBVIOUS
    <3> QED
        BY <3>1, <3>2
  <2>4. pc[a] = "summarizing" /\ pc' \in {[pc EXCEPT ![a] = "saving"], [pc EXCEPT ![a] = "idle"]}
      BY <1>17 DEF QuerySamples, Idle
  <2>5. keys' \in [Analyzer -> SUBSET Key] /\ curKey' \in [Analyzer -> Key \cup {NoKey}]
    <3>1. \E s \in SUBSET Key, l \in Key \cup {NoKey} :
             keys' = [keys EXCEPT ![a] = s] /\ curKey' = [curKey EXCEPT ![a] = l]
      <4>1. keys[a] \ {k} \in SUBSET Key /\ {} \in SUBSET Key
          OBVIOUS
      <4> QED
          BY <1>17, <4>1 DEF QuerySamples, Idle
    <3> QED
        BY <3>1
  <2>6. force' \in [Analyzer -> BOOLEAN]
    <3>1. force' \in {force, [force EXCEPT ![a] = FALSE]}
        BY <1>17 DEF QuerySamples, Idle
    <3> QED
        BY <3>1
  <2>7. UNCHANGED <<row, closed, log, data, todo, copy, cur, admin, counters, history>>
      BY <1>17 DEF QuerySamples, SummaryFrame
  <2>8. ATypeOK'
      BY <2>2, <2>3, <2>4, <2>5, <2>6, <2>7
  <2>9. /\ \A b \in Analyzer \ {a} : pc'[b] = pc[b]
        /\ pc[a] \notin Converting /\ pc'[a] \notin Converting
      BY <2>4 DEF Converting
  <2>10. KeyInv'
    <3>1. UNCHANGED <<row, todo, copy, cur, admin>>
        BY <2>7
    <3>2. \A b \in Analyzer : pc'[b] \in Converting <=> pc[b] \in Converting
        BY <2>9
    <3> HIDE DEF ATypeOK
    <3> QED
        BY <3>1, <3>2 DEF KeyInv
  <2> QED
      BY <2>8, <2>10
<1>18. ASSUME NEW a \in Analyzer, LoseAnalyzer(a) PROVE TypeInv'
    BY <1>18 DEF LoseAnalyzer, Idle, NoRows, Converting
<1>19. ASSUME LoseOrchestrator PROVE TypeInv'
    BY <1>19 DEF LoseOrchestrator
<1>20. CASE UNCHANGED aVars
    BY <1>20
<1> HIDE DEF TypeInv, ATypeOK, KeyInv, aVars
<1> QED
    BY <1>1, <1>2, <1>3, <1>4, <1>5, <1>6, <1>7, <1>8, <1>9, <1>10, <1>11, <1>12, <1>13,
       <1>14, <1>15, <1>16, <1>17, <1>18, <1>19, <1>20, <1>21, <1>22
    DEF ANext, Analyze, AdminActions, Convert, Summarize

\* The rows, the states and the counts of every behaviour are of their types, and
\* whoever holds a row of a profile holds one with its key.
THEOREM TypeCorrect == ASpec => []ATypeOK
<1>1. AInit => TypeInv
    BY InitType
<1>2. TypeInv /\ [ANext]_aVars => TypeInv'
    BY NextType
<1>3. TypeInv => ATypeOK
    BY DEF TypeInv
<1> QED
    BY <1>1, <1>2, <1>3, PTL DEF ASpec

-----------------------------------------------------------------------------
(* No profile is analysed before its benchmark is over *)

LEMMA InitRun == AInit => RunInv
BY DEF AInit, RunInv, NoRows, NoRow, NoRequest

LEMMA NextRun == TypeInv /\ RunInv /\ [ANext]_aVars => RunInv'
<1> SUFFICES ASSUME TypeInv, RunInv, [ANext]_aVars PROVE RunInv'
    OBVIOUS
<1> USE AnalysisAssumption DEF TypeInv, ATypeOK, KeyInv, RunInv, aVars, process
<1>1. ASSUME NEW p \in Profile, Close(p) PROVE RunInv'
    BY <1>1 DEF Close, NoRow
<1>2. ASSUME NEW p \in Profile, NEW k \in Key, Create(p, k) PROVE RunInv'
    BY <1>2 DEF Create, NoRow
<1>3. ASSUME NEW p \in Profile, AdminRead(p) PROVE RunInv'
    BY <1>3 DEF AdminRead
<1>4. ASSUME AdminClear \/ AdminSave PROVE RunInv'
  <2>1. admin # NoRequest /\ AdminWrite
      BY <1>4 DEF AdminClear, AdminSave
  <2> QED
      BY <2>1, ClearedType DEF AdminWrite, NoRequest
<1>17. ASSUME AdminDelete \/ AdminLost PROVE RunInv'
    BY <1>17 DEF AdminDelete, AdminLost, NoRequest
<1>5. ASSUME NEW a \in Analyzer, NEW forced \in BOOLEAN, StartAnalysis(a, forced) PROVE RunInv'
  <2>1. ToAnalyze(forced) \subseteq closed
      BY DEF ToAnalyze, Created
  <2> QED
      BY <1>5, <2>1 DEF StartAnalysis
<1>6. ASSUME NEW a \in Analyzer, NEW p \in Profile, ClearSamples(a, p) PROVE RunInv'
    BY <1>6 DEF ClearSamples, BeginConversion
<1>7. ASSUME NEW a \in Analyzer, SaveCleared(a) PROVE RunInv'
  <2>1. cur[a] \in Profile /\ cur[a] \in closed
      BY <1>7 DEF SaveCleared, Converting
  <2>2. ~Cleared(copy[a][cur[a]]).processed
      BY <2>1, ClearedType
  <2> QED
      BY <1>7, <2>1, <2>2 DEF SaveCleared, Save
<1>8. ASSUME NEW a \in Analyzer, Parse(a) PROVE RunInv'
    BY <1>8 DEF Parse, ConversionFrame
<1>9. ASSUME NEW a \in Analyzer, ProcessSeries(a) PROVE RunInv'
    BY <1>9 DEF ProcessSeries, ConversionFrame
<1>10. ASSUME NEW a \in Analyzer, SaveFlags(a) PROVE RunInv'
  <2>1. cur[a] \in Profile /\ cur[a] \in closed
      BY <1>10 DEF SaveFlags, Converting
  <2> QED
      BY <1>10, <2>1 DEF SaveFlags, Save, ConversionFrame
<1>11. ASSUME NEW a \in Analyzer, ConversionRaises(a) PROVE RunInv'
    BY <1>11 DEF ConversionRaises, EndConversion
<1>12. ASSUME NEW a \in Analyzer, Invalidate(a) PROVE RunInv'
    BY <1>12 DEF Invalidate, EndConversion
<1>13. ASSUME NEW a \in Analyzer, Summarize(a) PROVE RunInv'
    BY <1>13 DEF Summarize, SummaryFrame, StartSummaries, SaveSummary, EndAnalysis, KeepSummary,
                 QuerySamples
<1>14. ASSUME NEW a \in Analyzer, LoseAnalyzer(a) PROVE RunInv'
    BY <1>14 DEF LoseAnalyzer
<1>15. ASSUME LoseOrchestrator PROVE RunInv'
    BY <1>15 DEF LoseOrchestrator
<1>16. CASE UNCHANGED aVars
    BY <1>16
<1> HIDE DEF RunInv, TypeInv, ATypeOK, KeyInv, aVars
<1> QED
    BY <1>1, <1>2, <1>3, <1>4, <1>5, <1>6, <1>7, <1>8, <1>9, <1>10, <1>11, <1>12, <1>13,
       <1>14, <1>15, <1>16, <1>17
    DEF ANext, Analyze, AdminActions, Convert

\* No profile is marked as processed before its orchestrator has made its last
\* save, so that this save undoes no analysis: analyze() skips what is_running, and
\* whoever writes back a row as it was read has read one of a closed profile, or
\* has not processed it.
THEOREM OnlyClosedAnalysed == ASpec => []AnalysedAfterTheRun
<1>1. AInit => TypeInv /\ RunInv
    BY InitType, InitRun
<1>2. TypeInv /\ RunInv /\ [ANext]_aVars => TypeInv' /\ RunInv'
    BY NextType, NextRun
<1>3. RunInv => AnalysedAfterTheRun
    BY DEF RunInv, AnalysedAfterTheRun
<1> QED
    BY <1>1, <1>2, <1>3, PTL DEF ASpec

-----------------------------------------------------------------------------
(* The flags of a converted profile *)

\* The verdict on a profile is a matter of its key and its logs.
LEMMA SameVerdict ==
    ASSUME NEW p \in Profile, row'[p].key = row[p].key, log'[p] = log[p]
    PROVE  /\ FaultsMissing(p)' <=> FaultsMissing(p)
           /\ Verdict(p, 1)' = Verdict(p, 1)
<1>1. FaultsMissing(p)' <=> FaultsMissing(p)
    BY DEF FaultsMissing, Expected
<1>2. FaultVerdict(p)' = FaultVerdict(p)
    BY DEF FaultVerdict, Expected
<1>3. Verdict(p, 1)' = Verdict(p, 1)
    BY <1>2 DEF Verdict, MetricsRead, HasSamples, TimestampsSound, SeriesValid, StepsPermitted
<1> QED
    BY <1>1, <1>3

\* What does not touch the stages and results of conversions.
LEMMA FlagsKept ==
    ASSUME FlagInv, UNCHANGED <<row, log, samples, disturbed, cur>>,
           \A a \in Analyzer : cur[a] \in Profile => pc'[a] = pc[a]
    PROVE  FlagInv'
BY SameVerdict DEF FlagInv, Stage, Decided, Decidable, Busy

\* A row that is written from outside is not processed, and a conversion of it is
\* disturbed.
LEMMA FlagsTouched ==
    ASSUME FlagInv, NEW p \in Profile, UNCHANGED <<pc, cur>>,
           \A q \in Profile \ {p} : /\ row'[q] = row[q] /\ log'[q] = log[q]
                                    /\ samples'[q] = samples[q],
           ~row'[p].processed, Busy(p) => p \in disturbed', disturbed \subseteq disturbed'
    PROVE  FlagInv'
BY SameVerdict DEF FlagInv, Stage, Decided, Decidable, Busy

\* The samples of a profile that counts as disturbed from then on are changed.
LEMMA FlagsEmptied ==
    ASSUME FlagInv, NEW p \in Profile, UNCHANGED <<pc, cur, row, log>>,
           \A q \in Profile \ {p} : samples'[q] = samples[q],
           p \in disturbed', disturbed \subseteq disturbed'
    PROVE  FlagInv'
BY SameVerdict DEF FlagInv, Stage, Decided, Decidable, Busy

\* The conversion of cur[a] has gone on.
LEMMA FlagsAdvanced ==
    ASSUME FlagInv, NEW a \in Analyzer, NEW p \in Profile, cur[a] = p,
           UNCHANGED <<cur, log, disturbed>>, row'[p].key = row[p].key,
           \A q \in Profile \ {p} : row'[q] = row[q] /\ samples'[q] = samples[q],
           \A b \in Analyzer \ {a} : pc'[b] = pc[b],
           p \notin disturbed => Stage(a, p)'
    PROVE  FlagInv'
BY SameVerdict DEF FlagInv, Stage, Decided, Decidable, Busy

\* The conversion of cur[a] is over.
LEMMA FlagsLeft ==
    ASSUME FlagInv, NEW a \in Analyzer, cur' = [cur EXCEPT ![a] = NoProfile],
           cur \in [Analyzer -> Profile \cup {NoProfile}],
           UNCHANGED <<row, log, samples>>, disturbed \subseteq disturbed',
           \A b \in Analyzer \ {a} : pc'[b] = pc[b],
           \A p \in Profile : cur[a] = p /\ p \notin disturbed' /\ row[p].processed => Decided(p)
    PROVE  FlagInv'
BY SameVerdict, AnalysisAssumption DEF FlagInv, Stage, Decided, Decidable, Busy

LEMMA InitFlags == AInit => FlagInv
BY AnalysisAssumption DEF AInit, FlagInv, NoRows, NoRow

LEMMA NextFlags == TypeInv /\ RunInv /\ FlagInv /\ [ANext]_aVars => FlagInv'
<1> SUFFICES ASSUME TypeInv, RunInv, FlagInv, [ANext]_aVars PROVE FlagInv'
    OBVIOUS
<1> USE AnalysisAssumption DEF TypeInv, ATypeOK, KeyInv, aVars, data, process, counters, history
<1>1. ASSUME NEW p \in Profile, Close(p) PROVE FlagInv'
  <2>1. ~Busy(p)
      BY <1>1 DEF Close, RunInv, Busy
  <2>2. ~row'[p].processed
      BY <1>1 DEF Close, NoRow
  <2>3. \A q \in Profile \ {p} : /\ row'[q] = row[q] /\ log'[q] = log[q]
                                 /\ samples'[q] = samples[q]
      BY <1>1 DEF Close
  <2>4. UNCHANGED <<pc, cur, disturbed>>
      BY <1>1 DEF Close
  <2> QED
      BY <2>1, <2>2, <2>3, <2>4, FlagsTouched
<1>2. ASSUME NEW p \in Profile, NEW k \in Key, Create(p, k) PROVE FlagInv'
  <2>1. ~Busy(p)
    <3>1. row[p].key = NoKey
        BY <1>2 DEF Create, NoRow
    <3> QED
        BY <3>1 DEF Busy
  <2>2. ~row'[p].processed
      BY <1>2 DEF Create, NoRow
  <2>3. \A q \in Profile \ {p} : /\ row'[q] = row[q] /\ log'[q] = log[q]
                                 /\ samples'[q] = samples[q]
      BY <1>2 DEF Create
  <2>4. UNCHANGED <<pc, cur, disturbed>>
      BY <1>2 DEF Create
  <2> QED
      BY <2>1, <2>2, <2>3, <2>4, FlagsTouched
<1>3. ASSUME NEW p \in Profile, AdminRead(p) PROVE FlagInv'
    BY <1>3, FlagsKept DEF AdminRead
<1>4. ASSUME AdminClear \/ AdminSave PROVE FlagInv'
  <2> DEFINE p == admin.profile
  <2>1. p \in Profile /\ AdminWrite
      BY <1>4 DEF AdminClear, AdminSave
  <2>2. ~row'[p].processed
      BY <2>1, ClearedType DEF AdminWrite
  <2>3. \A q \in Profile \ {p} : /\ row'[q] = row[q] /\ log'[q] = log[q]
                                 /\ samples'[q] = samples[q]
      BY <1>4 DEF AdminClear, AdminSave, AdminWrite
  <2>4. UNCHANGED <<pc, cur>>
      BY <2>1 DEF AdminWrite
  <2>5. (Busy(p) => p \in disturbed') /\ disturbed \subseteq disturbed'
      BY <2>1 DEF AdminWrite
  <2> HIDE DEF p
  <2> QED
      BY <2>1, <2>2, <2>3, <2>4, <2>5, FlagsTouched
<1>17. ASSUME AdminDelete PROVE FlagInv'
  <2> DEFINE p == admin.profile
  <2>1. p \in Profile /\ p \in disturbed' /\ disturbed \subseteq disturbed'
      BY <1>17 DEF AdminDelete
  <2>2. UNCHANGED <<pc, cur, row, log>>
      BY <1>17 DEF AdminDelete
  <2>3. \A q \in Profile \ {p} : samples'[q] = samples[q]
      BY <1>17 DEF AdminDelete
  <2> HIDE DEF p
  <2> QED
      BY <2>1, <2>2, <2>3, FlagsEmptied
<1>18. ASSUME AdminLost PROVE FlagInv'
    BY <1>18, FlagsKept DEF AdminLost
<1>5. ASSUME NEW a \in Analyzer, NEW forced \in BOOLEAN, StartAnalysis(a, forced) PROVE FlagInv'
  <2>1. \A b \in Analyzer : cur[b] \in Profile => pc'[b] = pc[b]
      BY <1>5 DEF StartAnalysis, Converting
  <2> QED
      BY <1>5, <2>1, FlagsKept DEF StartAnalysis
<1>6. ASSUME NEW a \in Analyzer, NEW p \in Profile, ClearSamples(a, p) PROVE FlagInv'
  <2>1. /\ cur[a] = NoProfile /\ cur' = [cur EXCEPT ![a] = p]
        /\ pc' = [pc EXCEPT ![a] = "clearing"] /\ samples' = [samples EXCEPT ![p] = 0]
        /\ row' = row /\ log' = log
      BY <1>6 DEF ClearSamples, BeginConversion, Converting
  <2>2. \A q \in Profile \ {p} : q \in disturbed' <=> q \in disturbed
      BY <1>6 DEF ClearSamples, BeginConversion
  <2>3. (\E b \in Analyzer \ {a} : cur[b] = p) <=> p \in disturbed'
      BY <1>6 DEF ClearSamples, BeginConversion, Others
  <2>4. ASSUME NEW q \in Profile, NEW b \in Analyzer, NEW c \in Analyzer,
               b # c, cur'[b] = q, cur'[c] = q
        PROVE  q \in disturbed'
      BY <2>1, <2>2, <2>3, <2>4 DEF FlagInv
  <2>5. ASSUME NEW q \in Profile, NEW b \in Analyzer, cur'[b] = q, q \notin disturbed'
        PROVE  Stage(b, q)'
    <3>1. CASE b = a
        BY <2>1, <2>5, <3>1 DEF Stage
    <3>2. CASE b # a
      <4>1. q # p
          BY <2>1, <2>3, <2>5, <3>2
      <4>2. Stage(b, q)
          BY <2>1, <2>2, <2>5, <3>2, <4>1 DEF FlagInv
      <4> QED
          BY <2>1, <3>2, <4>1, <4>2, SameVerdict DEF Stage, Decided, Decidable
    <3> QED
        BY <3>1, <3>2
  <2>6. ASSUME NEW q \in Profile, row'[q].processed, ~Busy(q)', q \notin disturbed'
        PROVE  Decided(q)'
    <3>1. q # p /\ ~Busy(q)
        BY <2>1, <2>6 DEF Busy
    <3>2. Decided(q)
        BY <2>1, <2>2, <2>6, <3>1 DEF FlagInv
    <3> QED
        BY <2>1, <3>1, <3>2, SameVerdict DEF Decided
  <2> QED
      BY <2>4, <2>5, <2>6 DEF FlagInv
<1>7. ASSUME NEW a \in Analyzer, SaveCleared(a) PROVE FlagInv'
  <2>1. PICK p \in Profile : p = cur[a]
      BY <1>7 DEF SaveCleared, Converting
  <2> DEFINE r == Cleared(copy[a][p])
  <2>2. ~r.processed /\ r.key = row[p].key
      BY <2>1, ClearedType
  <2> HIDE DEF r
  <2>3. row' = [row EXCEPT ![p] = r]
      BY <1>7, <2>1 DEF SaveCleared, Save, r
  <2>4. p \notin disturbed => Stage(a, p)
      BY <2>1 DEF FlagInv
  <2>5. pc' = [pc EXCEPT ![a] = "parsing"] /\ pc[a] = "clearing"
      BY <1>7 DEF SaveCleared
  <2>6. UNCHANGED <<cur, log, disturbed, samples>>
      BY <1>7 DEF SaveCleared
  <2>7. row'[p] = r
      BY <2>1, <2>3
  <2>8. p \notin disturbed => Stage(a, p)'
      BY <2>1, <2>2, <2>4, <2>5, <2>6, <2>7 DEF Stage
  <2> QED
      BY <2>1, <2>2, <2>3, <2>5, <2>6, <2>7, <2>8, FlagsAdvanced
<1>8. ASSUME NEW a \in Analyzer, Parse(a) PROVE FlagInv'
  <2>1. PICK p \in Profile : p = cur[a]
      BY <1>8 DEF Parse, Converting
  <2>2. p \notin disturbed => Stage(a, p)
      BY <2>1 DEF FlagInv
  <2>3. /\ pc' = [pc EXCEPT ![a] = Parsed(p)] /\ pc[a] = "parsing"
        /\ samples' = [samples EXCEPT ![p] = IF log[p].parses THEN @ + 1 ELSE @]
      BY <1>8, <2>1 DEF Parse
  <2>4. UNCHANGED <<cur, log, disturbed, row>>
      BY <1>8 DEF Parse, ConversionFrame
  <2>5. p \notin disturbed => Stage(a, p)'
    <3>1. CASE log[p].parses
        BY <2>1, <2>2, <2>3, <2>4, <3>1, SameVerdict DEF Stage, Parsed
    <3>2. CASE ~log[p].parses
        BY <2>1, <2>2, <2>3, <2>4, <3>2, SameVerdict DEF Stage, Parsed, Decidable
    <3> QED
        BY <3>1, <3>2
  <2> QED
      BY <2>1, <2>3, <2>4, <2>5, FlagsAdvanced
<1>9. ASSUME NEW a \in Analyzer, ProcessSeries(a) PROVE FlagInv'
  <2>1. PICK p \in Profile : p = cur[a]
      BY <1>9 DEF ProcessSeries, Converting
  <2>2. p \notin disturbed => Stage(a, p)
      BY <2>1 DEF FlagInv
  <2>3. pc' = [pc EXCEPT ![a] = Verdict(p, samples[p])] /\ pc[a] = "series"
      BY <1>9, <2>1 DEF ProcessSeries
  <2>4. UNCHANGED <<cur, log, disturbed, row, samples>>
      BY <1>9 DEF ProcessSeries, ConversionFrame
  <2>5. Verdict(p, samples[p]) \in {"processed", "corrupt", "raises"}
      BY <2>1, NoLogType, VerdictType
  <2>6. p \notin disturbed => Stage(a, p)'
    <3> SUFFICES ASSUME p \notin disturbed PROVE Stage(a, p)'
        OBVIOUS
    <3>1. /\ pc'[a] = Verdict(p, 1) /\ samples[p] = 1 /\ ~row[p].processed
          /\ log[p].parses /\ ~FaultsMissing(p)
        BY <2>2, <2>3 DEF Stage
    <3>2. /\ FaultsMissing(p)' <=> FaultsMissing(p)
          /\ Verdict(p, 1)' = Verdict(p, 1)
        BY <2>4, SameVerdict
    <3>3. Decidable(p)' <=> Verdict(p, 1) # "raises"
        BY <2>4, <3>1, <3>2 DEF Decidable
    <3> QED
        BY <2>1, <2>3, <2>4, <2>5, <3>1, <3>2, <3>3 DEF Stage
  <2> QED
      BY <2>1, <2>3, <2>4, <2>6, FlagsAdvanced
<1>10. ASSUME NEW a \in Analyzer, SaveFlags(a) PROVE FlagInv'
  <2>1. PICK p \in Profile : p = cur[a]
      BY <1>10 DEF SaveFlags, Converting
  <2> DEFINE bad == pc[a] = "corrupt"
             r == [copy[a][p] EXCEPT !.processed = TRUE, !.corrupted = bad]
  <2>2. r.key = row[p].key /\ (r.corrupted <=> pc[a] = "corrupt") /\ r.processed
    <3>1. copy[a][p] \in Row /\ copy[a][p].key = row[p].key
        BY <2>1
    <3>2. bad \in BOOLEAN
        OBVIOUS
    <3> HIDE DEF bad
    <3>3. r.key = row[p].key /\ r.corrupted = bad /\ r.processed = TRUE
        BY <3>1, <3>2 DEF Row
    <3> QED
        BY <3>3 DEF bad
  <2> HIDE DEF r
  <2>3. row' = [row EXCEPT ![p] = r]
      BY <1>10, <2>1 DEF SaveFlags, Save, r
  <2>4. p \notin disturbed => Stage(a, p)
      BY <2>1 DEF FlagInv
  <2>5. pc' = [pc EXCEPT ![a] = "invalidating"] /\ pc[a] \in {"processed", "corrupt"}
      BY <1>10 DEF SaveFlags
  <2>6. UNCHANGED <<cur, log, disturbed, samples>>
      BY <1>10 DEF SaveFlags, ConversionFrame
  <2>7. row'[p] = r
      BY <2>1, <2>3
  <2>8. p \notin disturbed => Stage(a, p)'
    <3> SUFFICES ASSUME p \notin disturbed PROVE Stage(a, p)'
        OBVIOUS
    <3>1. samples[p] = 1 /\ (r.corrupted <=> FaultsMissing(p) \/ Verdict(p, 1) = "corrupt")
        BY <2>2, <2>4, <2>5 DEF Stage
    <3>2. Decided(p)'
        BY <2>2, <2>6, <2>7, <3>1, SameVerdict DEF Decided
    <3>3. Decidable(p)
        BY <2>4, <2>5 DEF Stage, Decidable
    <3>4. Decidable(p)'
        BY <2>2, <2>6, <2>7, <3>3, SameVerdict DEF Decidable
    <3> QED
        BY <2>1, <2>2, <2>5, <2>7, <3>2, <3>4 DEF Stage
  <2> QED
      BY <2>1, <2>2, <2>3, <2>5, <2>6, <2>7, <2>8, FlagsAdvanced
<1>11. ASSUME NEW a \in Analyzer, ConversionRaises(a) PROVE FlagInv'
  <2>1. /\ pc[a] = "raises" /\ cur' = [cur EXCEPT ![a] = NoProfile]
        /\ pc' = [pc EXCEPT ![a] = "analyzing"]
        /\ UNCHANGED <<row, log, samples, disturbed>>
      BY <1>11 DEF ConversionRaises, EndConversion
  <2>2. \A p \in Profile : cur[a] = p /\ p \notin disturbed' => ~row[p].processed
      BY <2>1 DEF FlagInv, Stage
  <2> QED
      BY <2>1, <2>2, FlagsLeft
<1>12. ASSUME NEW a \in Analyzer, Invalidate(a) PROVE FlagInv'
  <2>1. /\ pc[a] = "invalidating" /\ cur' = [cur EXCEPT ![a] = NoProfile]
        /\ pc' = [pc EXCEPT ![a] = "analyzing"]
        /\ UNCHANGED <<row, log, samples, disturbed>>
      BY <1>12 DEF Invalidate, EndConversion
  <2>2. \A p \in Profile : cur[a] = p /\ p \notin disturbed' => Decided(p)
      BY <2>1 DEF FlagInv, Stage
  <2> QED
      BY <2>1, <2>2, FlagsLeft
<1>13. ASSUME NEW a \in Analyzer, Summarize(a) PROVE FlagInv'
  <2>1. UNCHANGED <<row, log, samples, disturbed, cur>>
      BY <1>13 DEF Summarize, SummaryFrame, StartSummaries, SaveSummary, EndAnalysis,
                   KeepSummary, QuerySamples
  <2>2. pc[a] \in {"analyzing", "summarizing", "saving"} /\ \A b \in Analyzer \ {a} : pc'[b] = pc[b]
      BY <1>13 DEF Summarize, StartSummaries, SaveSummary, EndAnalysis, KeepSummary,
                   QuerySamples, Idle
  <2>3. \A b \in Analyzer : cur[b] \in Profile => pc'[b] = pc[b]
      BY <2>2 DEF Converting
  <2> QED
      BY <2>1, <2>3, FlagsKept
<1>14. ASSUME NEW a \in Analyzer, LoseAnalyzer(a) PROVE FlagInv'
  <2>1. /\ cur' = [cur EXCEPT ![a] = NoProfile] /\ pc' = [pc EXCEPT ![a] = "idle"]
        /\ UNCHANGED <<row, log, samples>>
      BY <1>14 DEF LoseAnalyzer, Idle
  <2>2. disturbed \subseteq disturbed' /\ (pc[a] = "clearing" => cur[a] \in disturbed')
      BY <1>14 DEF LoseAnalyzer
  <2>3. ASSUME NEW p \in Profile, cur[a] = p, p \notin disturbed', row[p].processed
        PROVE  Decided(p)
    <3>1. Stage(a, p) /\ pc[a] # "clearing" /\ pc[a] \in Converting
        BY <2>2, <2>3 DEF FlagInv
    <3> QED
        BY <2>3, <3>1 DEF Stage, Converting
  <2> QED
      BY <2>1, <2>2, <2>3, FlagsLeft
<1>15. ASSUME LoseOrchestrator PROVE FlagInv'
    BY <1>15, FlagsKept DEF LoseOrchestrator
<1>16. CASE UNCHANGED aVars
    BY <1>16, FlagsKept
<1> QED
    BY <1>1, <1>2, <1>3, <1>4, <1>5, <1>6, <1>7, <1>8, <1>9, <1>10, <1>11, <1>12, <1>13,
       <1>14, <1>15, <1>16, <1>17, <1>18
    DEF ANext, Analyze, AdminActions, Convert

\* The flags of a profile that was converted say what its logs hold, and its samples
\* are there once, after any number of analyses, failures and losses of
\* convert_profile.  Left out, until the next conversion, are the profiles whose
\* conversion another process wrote into, whose analyzer was lost between the halves
\* of clear_analysis_data, and whose samples reanalyze_profile has deleted.
THEOREM FlagsAreRight == ASpec => []FlagsTellTheLog
<1>1. AInit => TypeInv /\ RunInv /\ FlagInv
    BY InitType, InitRun, InitFlags
<1>2. TypeInv /\ RunInv /\ FlagInv /\ [ANext]_aVars => TypeInv' /\ RunInv' /\ FlagInv'
    BY NextType, NextRun, NextFlags
<1>3. FlagInv => FlagsTellTheLog
    BY DEF FlagInv, FlagsTellTheLog, Decided
<1> QED
    BY <1>1, <1>2, <1>3, PTL DEF ASpec

\* A conversion that nobody interferes with decides on its profile exactly when its
\* logs make no step raise; it never ends with a profile that was left undecided by
\* an oversight, nor with one that is decided although a step raised.
THEOREM EveryConversionDecides == ASpec => ConversionDecides
<1>1. AInit => TypeInv /\ RunInv /\ FlagInv
    BY InitType, InitRun, InitFlags
<1>2. TypeInv /\ RunInv /\ FlagInv /\ [ANext]_aVars => TypeInv' /\ RunInv' /\ FlagInv'
    BY NextType, NextRun, NextFlags
<1>3. TypeInv /\ FlagInv /\ [ANext]_aVars =>
          [\A a \in Analyzer :
              (cur[a] # NoProfile /\ cur[a] \notin disturbed /\ pc'[a] = "analyzing") =>
                  (row'[cur[a]].processed <=> Decidable(cur[a]))]_aVars
  <2> SUFFICES ASSUME TypeInv, FlagInv, ANext, NEW a \in Analyzer, cur[a] # NoProfile,
                      cur[a] \notin disturbed, pc'[a] = "analyzing"
               PROVE  row'[cur[a]].processed <=> Decidable(cur[a])
      OBVIOUS
  <2> USE DEF TypeInv, ATypeOK, KeyInv, data, process, counters, history
  <2>1. cur[a] \in Profile /\ pc[a] \in Converting
      OBVIOUS
  <2>2. ConversionRaises(a) \/ Invalidate(a)
    <3>1. pc'[a] # pc[a]
        BY <2>1 DEF Converting
    <3>6. ASSUME AdminActions PROVE FALSE
        BY <3>1, <3>6 DEF AdminActions, AdminClear, AdminSave, AdminWrite, AdminDelete, AdminLost,
                          AdminRead
    <3>2. PICK b \in Analyzer :
              \/ \E forced \in BOOLEAN : StartAnalysis(b, forced)
              \/ Convert(b) \/ Summarize(b) \/ LoseAnalyzer(b)
        BY <3>1, <3>6 DEF ANext, Close, LoseOrchestrator, Create, Analyze
    <3>3. CASE \E forced \in BOOLEAN : StartAnalysis(b, forced)
        BY <2>1, <3>1, <3>3 DEF StartAnalysis, Converting
    <3>4. CASE Summarize(b) \/ LoseAnalyzer(b)
        BY <2>1, <3>1, <3>4 DEF Summarize, StartSummaries, SaveSummary, EndAnalysis, KeepSummary,
           QuerySamples, Idle, LoseAnalyzer, Converting
    <3>5. CASE Convert(b)
      <4>1. ASSUME NEW p \in Profile, ClearSamples(b, p) PROVE FALSE
          BY <3>1, <4>1 DEF ClearSamples, BeginConversion
      <4>2. CASE SaveCleared(b) \/ Parse(b) \/ SaveFlags(b)
          BY <3>1, <4>2 DEF SaveCleared, Parse, Parsed, SaveFlags
      <4>3. CASE ProcessSeries(b)
        <5>1. Verdict(cur[b], samples[cur[b]]) \in {"processed", "corrupt", "raises"}
            BY <4>3, NoLogType, VerdictType DEF ProcessSeries, Converting
        <5> QED
            BY <3>1, <4>3, <5>1 DEF ProcessSeries
      <4>4. CASE ConversionRaises(b) \/ Invalidate(b)
        <5>1. b = a
            BY <3>1, <4>4 DEF ConversionRaises, Invalidate, EndConversion
        <5> QED
            BY <4>4, <5>1
      <4> QED
          BY <3>5, <4>1, <4>2, <4>3, <4>4 DEF Convert
    <3> QED
        BY <3>2, <3>3, <3>4, <3>5
  <2>3. row' = row /\ pc[a] \in {"raises", "invalidating"}
      BY <2>2 DEF ConversionRaises, Invalidate, EndConversion
  <2>4. Stage(a, cur[a])
      BY <2>1 DEF FlagInv
  <2> QED
      BY <2>3, <2>4 DEF Stage
<1> QED
    BY <1>1, <1>2, <1>3, PTL DEF ASpec, ConversionDecides
-----------------------------------------------------------------------------
(* The counts of the summaries *)

\* The samples of the profiles that a summary of k would count are all there.
Intact(k) == \A p \in Usable(k) : samples[p] > 0 /\ p \notin disturbed

\* The summary of a key counts its usable profiles, and so does the one that an
\* analyzer is about to save.
SumInv ==
    \A k \in Key \ skipped : Intact(k) =>
        /\ summary[k] \subseteq {Cardinality(Usable(k))}
        /\ \A a \in Analyzer :
              pc[a] = "saving" /\ curKey[a] = k => count[a] = Cardinality(Usable(k))

LEMMA InitSum == AInit => SumInv
BY DEF AInit, SumInv, NoSummaries

\* What neither touches the summaries nor, of a key that is still to agree with its
\* summary, the usable profiles.
LEMMA SumKept ==
    ASSUME SumInv, UNCHANGED summary,
           \A a \in Analyzer : pc'[a] = "saving" =>
               pc[a] = "saving" /\ curKey'[a] = curKey[a] /\ count'[a] = count[a],
           \A k \in Key \ skipped' : Intact(k)' =>
               k \notin skipped /\ Usable(k)' = Usable(k) /\ Intact(k)
    PROVE  SumInv'
BY DEF SumInv

\* A row that is written keeps its key, and is not usable before or after, or its
\* key is skipped from then on.
LEMMA RowWritten ==
    ASSUME SumInv, TypeInv, NEW p \in Profile, NEW r \in Row, row' = [row EXCEPT ![p] = r],
           UNCHANGED <<summary, curKey, count>>,
           \A a \in Analyzer : pc'[a] = "saving" => pc[a] = "saving",
           \A q \in Profile \ {p} : samples'[q] = samples[q] /\ (q \in disturbed => q \in disturbed'),
           skipped \subseteq skipped',
           \A k \in Key \ skipped' : p \notin Usable(k) /\ p \notin Usable(k)'
    PROVE  SumInv'
<1>1. \A q \in Profile \ {p} : row'[q] = row[q]
    BY DEF TypeInv, ATypeOK
<1>2. ASSUME NEW k \in Key \ skipped' PROVE Usable(k)' = Usable(k)
    BY <1>1, <1>2 DEF Usable
<1>3. ASSUME NEW k \in Key \ skipped', Intact(k)' PROVE Intact(k)
    BY <1>2, <1>3 DEF Intact, Usable
<1> QED
    BY <1>2, <1>3, SumKept

LEMMA NextSum == TypeInv /\ RunInv /\ FlagInv /\ SumInv /\ [ANext]_aVars => SumInv'
<1> SUFFICES ASSUME TypeInv, RunInv, FlagInv, SumInv, [ANext]_aVars PROVE SumInv'
    OBVIOUS
<1> USE AnalysisAssumption DEF aVars, data, process, counters, history
<1>1. ASSUME NEW p \in Profile, Close(p) PROVE SumInv'
  <2> DEFINE r == [NoRow EXCEPT !.key = row[p].key]
  <2>1. r \in Row /\ ~r.processed
      BY NoRowType DEF r, Row, NoRow, TypeInv, ATypeOK
  <2>2. row' = [row EXCEPT ![p] = r]
      BY <1>1 DEF Close, r
  <2> HIDE DEF r
  <2>3. row'[p] = r /\ ~row[p].processed
      BY <1>1, <2>2 DEF Close, RunInv, TypeInv, ATypeOK
  <2>4. \A k \in Key : p \notin Usable(k) /\ p \notin Usable(k)'
      BY <2>1, <2>3 DEF Usable
  <2>5. UNCHANGED <<summary, curKey, count, pc, samples, disturbed, skipped>>
      BY <1>1 DEF Close
  <2> QED
      BY <2>1, <2>2, <2>4, <2>5, RowWritten
<1>2. ASSUME NEW p \in Profile, NEW k \in Key, Create(p, k) PROVE SumInv'
  <2> DEFINE r == [NoRow EXCEPT !.key = k, !.running = TRUE]
  <2>1. r \in Row /\ ~r.processed
      BY NoRowType DEF r, Row, NoRow
  <2>2. row' = [row EXCEPT ![p] = r]
      BY <1>2 DEF Create, r
  <2> HIDE DEF r
  <2>3. row'[p] = r /\ ~row[p].processed
      BY <1>2, <2>2 DEF Create, NoRow, TypeInv, ATypeOK
  <2>4. \A l \in Key : p \notin Usable(l) /\ p \notin Usable(l)'
      BY <2>1, <2>3 DEF Usable
  <2>5. UNCHANGED <<summary, curKey, count, pc, samples, disturbed, skipped>>
      BY <1>2 DEF Create
  <2> QED
      BY <2>1, <2>2, <2>4, <2>5, RowWritten
<1>3. ASSUME LoseOrchestrator \/ (\E p \in Profile : AdminRead(p)) \/ AdminLost \/ UNCHANGED aVars
      PROVE  SumInv'
  <2>1. UNCHANGED <<row, summary, curKey, count, pc, samples, disturbed, skipped>>
      BY <1>3 DEF LoseOrchestrator, AdminRead, AdminLost
  <2> QED
      BY <2>1, SumKept DEF Usable, Intact
<1>4. ASSUME AdminClear \/ AdminSave PROVE SumInv'
  <2> DEFINE p == admin.profile
             r == Cleared(admin.row)
  <2>1. p \in Profile /\ r \in Row /\ ~r.processed /\ AdminWrite
      BY <1>4, ClearedType DEF AdminClear, AdminSave, TypeInv, ATypeOK, KeyInv
  <2>2. row' = [row EXCEPT ![p] = r] /\ skipped' = skipped \cup {row[p].key}
      BY <2>1 DEF AdminWrite
  <2>3. UNCHANGED <<summary, curKey, count, pc>>
      BY <2>1 DEF AdminWrite
  <2>4. \A q \in Profile \ {p} : samples'[q] = samples[q] /\ (q \in disturbed => q \in disturbed')
      BY <1>4 DEF AdminClear, AdminSave, AdminWrite, TypeInv, ATypeOK
  <2> HIDE DEF r, p
  <2>5. row'[p] = r
      BY <2>1, <2>2 DEF TypeInv, ATypeOK
  <2>6. \A k \in Key \ skipped' : p \notin Usable(k) /\ p \notin Usable(k)'
      BY <2>1, <2>2, <2>5 DEF Usable
  <2> QED
      BY <2>1, <2>2, <2>3, <2>4, <2>6, RowWritten
<1>17. ASSUME AdminDelete PROVE SumInv'
  <2> DEFINE p == admin.profile
  <2>1. p \in Profile /\ p \in disturbed' /\ disturbed \subseteq disturbed'
      BY <1>17 DEF AdminDelete, TypeInv, KeyInv
  <2>2. \A q \in Profile \ {p} : samples'[q] = samples[q]
      BY <1>17 DEF AdminDelete, TypeInv, ATypeOK
  <2>3. UNCHANGED <<row, summary, curKey, count, pc, skipped>>
      BY <1>17 DEF AdminDelete
  <2> HIDE DEF p
  <2>4. \A k \in Key : Usable(k)' = Usable(k)
      BY <2>3 DEF Usable
  <2>5. ASSUME NEW k \in Key, Intact(k)' PROVE Intact(k)
    <3>1. p \notin Usable(k)
        BY <2>1, <2>4, <2>5 DEF Intact
    <3> QED
        BY <2>1, <2>2, <2>4, <2>5, <3>1 DEF Intact, Usable
  <2> QED
      BY <2>3, <2>4, <2>5, SumKept
<1>5. ASSUME NEW a \in Analyzer, NEW forced \in BOOLEAN, StartAnalysis(a, forced) PROVE SumInv'
  <2>1. UNCHANGED <<row, summary, curKey, count, samples, disturbed, skipped>>
      BY <1>5 DEF StartAnalysis
  <2>2. \A b \in Analyzer : pc'[b] = "saving" => pc[b] = "saving"
      BY <1>5 DEF StartAnalysis, TypeInv, ATypeOK
  <2> QED
      BY <2>1, <2>2, SumKept DEF Usable, Intact
<1>6. ASSUME NEW a \in Analyzer, NEW p \in Profile, ClearSamples(a, p) PROVE SumInv'
  <2>1. /\ row' = row /\ samples' = [samples EXCEPT ![p] = 0]
        /\ skipped' = IF row[p].processed THEN skipped \cup {row[p].key} ELSE skipped
        /\ UNCHANGED <<summary, curKey, count>>
      BY <1>6 DEF ClearSamples, BeginConversion
  <2>2. \A b \in Analyzer : pc'[b] = "saving" => pc[b] = "saving"
      BY <1>6 DEF ClearSamples, BeginConversion, TypeInv, ATypeOK
  <2>3. \A q \in Profile \ {p} : q \in disturbed => q \in disturbed'
      BY <1>6 DEF ClearSamples, BeginConversion
  <2>4. \A k \in Key \ skipped' : p \notin Usable(k)
      BY <2>1 DEF Usable
  <2>5. \A k \in Key : Usable(k)' = Usable(k)
      BY <2>1 DEF Usable
  <2>6. ASSUME NEW k \in Key \ skipped', Intact(k)' PROVE Intact(k)
      BY <2>1, <2>3, <2>4, <2>5, <2>6 DEF Intact, Usable, TypeInv, ATypeOK
  <2> QED
      BY <2>1, <2>2, <2>5, <2>6, SumKept
<1>7. ASSUME NEW a \in Analyzer, SaveCleared(a) PROVE SumInv'
  <2> DEFINE p == cur[a]
             r == Cleared(copy[a][p])
  <2>1. p \in Profile
      BY <1>7 DEF SaveCleared, Converting, TypeInv, ATypeOK, KeyInv
  <2>2. r \in Row /\ ~r.processed
      BY <2>1, ClearedType DEF TypeInv, ATypeOK
  <2>3. /\ row' = [row EXCEPT ![p] = r]
        /\ skipped' = IF row[p].processed THEN skipped \cup {row[p].key} ELSE skipped
      BY <1>7 DEF SaveCleared, Save
  <2>4. UNCHANGED <<summary, curKey, count, samples, disturbed>>
      BY <1>7 DEF SaveCleared
  <2>5. \A b \in Analyzer : pc'[b] = "saving" => pc[b] = "saving"
      BY <1>7 DEF SaveCleared, TypeInv, ATypeOK
  <2> HIDE DEF r, p
  <2>6. row'[p] = r
      BY <2>1, <2>3 DEF TypeInv, ATypeOK
  <2>7. \A k \in Key \ skipped' : p \notin Usable(k) /\ p \notin Usable(k)'
      BY <2>2, <2>3, <2>6 DEF Usable
  <2> QED
      BY <2>1, <2>2, <2>3, <2>4, <2>5, <2>7, RowWritten
<1>8. ASSUME NEW a \in Analyzer, Parse(a) PROVE SumInv'
  <2> DEFINE p == cur[a]
  <2>1. p \in Profile
      BY <1>8 DEF Parse, Converting, TypeInv, ATypeOK, KeyInv
  <2>2. p \notin disturbed => ~row[p].processed
      BY <1>8, <2>1 DEF Parse, FlagInv, Stage
  <2>3. /\ UNCHANGED <<row, summary, curKey, count, disturbed, skipped>>
        /\ \A q \in Profile \ {p} : samples'[q] = samples[q]
      BY <1>8, <2>1 DEF Parse, ConversionFrame, TypeInv, ATypeOK
  <2>4. \A b \in Analyzer : pc'[b] = "saving" => pc[b] = "saving"
      BY <1>8 DEF Parse, Parsed, TypeInv, ATypeOK
  <2> HIDE DEF p
  <2>5. \A k \in Key : Usable(k)' = Usable(k)
      BY <2>3 DEF Usable
  <2>6. ASSUME NEW k \in Key, Intact(k)' PROVE Intact(k)
    <3>1. p \notin Usable(k)
        BY <2>2, <2>3, <2>5, <2>6 DEF Intact, Usable
    <3> QED
        BY <2>3, <2>5, <2>6, <3>1 DEF Intact, Usable, TypeInv, ATypeOK
  <2> QED
      BY <2>3, <2>4, <2>5, <2>6, SumKept
<1>9. ASSUME NEW a \in Analyzer, ProcessSeries(a) PROVE SumInv'
  <2>1. cur[a] \in Profile
      BY <1>9 DEF ProcessSeries, Converting, TypeInv, ATypeOK, KeyInv
  <2>2. Verdict(cur[a], samples[cur[a]]) # "saving"
      BY <2>1, NoLogType, VerdictType DEF TypeInv, ATypeOK
  <2>3. pc' = [pc EXCEPT ![a] = Verdict(cur[a], samples[cur[a]])]
      BY <1>9 DEF ProcessSeries
  <2>4. \A b \in Analyzer : pc'[b] = "saving" => pc[b] = "saving"
      BY <2>2, <2>3 DEF TypeInv, ATypeOK
  <2>5. UNCHANGED <<row, summary, curKey, count, disturbed, skipped, samples>>
      BY <1>9 DEF ProcessSeries, ConversionFrame
  <2> QED
      BY <2>4, <2>5, SumKept DEF Usable, Intact
<1>10. ASSUME NEW a \in Analyzer, SaveFlags(a) PROVE SumInv'
  <2> DEFINE p == cur[a]
             r == [copy[a][p] EXCEPT !.processed = TRUE, !.corrupted = (pc[a] = "corrupt")]
  <2>1. p \in Profile
      BY <1>10 DEF SaveFlags, Converting, TypeInv, ATypeOK, KeyInv
  <2>2. copy[a][p] \in Row /\ copy[a][p].key = row[p].key
      BY <2>1 DEF TypeInv, ATypeOK, KeyInv
  <2>3. r \in Row /\ r.key = row[p].key
      BY <2>2 DEF Row
  <2>4. row' = [row EXCEPT ![p] = r] /\ skipped' = skipped \cup {row[p].key}
      BY <1>10 DEF SaveFlags, Save
  <2>5. UNCHANGED <<summary, curKey, count, samples, disturbed>>
      BY <1>10 DEF SaveFlags, ConversionFrame
  <2>6. \A b \in Analyzer : pc'[b] = "saving" => pc[b] = "saving"
      BY <1>10 DEF SaveFlags, TypeInv, ATypeOK
  <2> HIDE DEF r, p
  <2>7. row'[p] = r
      BY <2>1, <2>4 DEF TypeInv, ATypeOK
  <2>8. \A k \in Key \ skipped' : p \notin Usable(k) /\ p \notin Usable(k)'
      BY <2>3, <2>4, <2>7 DEF Usable
  <2> QED
      BY <2>1, <2>3, <2>4, <2>5, <2>6, <2>8, RowWritten
<1>11. ASSUME NEW a \in Analyzer, ConversionRaises(a) PROVE SumInv'
  <2>1. UNCHANGED <<row, summary, curKey, count, samples, disturbed, skipped>>
      BY <1>11 DEF ConversionRaises, EndConversion
  <2>2. \A b \in Analyzer : pc'[b] = "saving" => pc[b] = "saving"
      BY <1>11 DEF ConversionRaises, EndConversion, TypeInv, ATypeOK
  <2> QED
      BY <2>1, <2>2, SumKept DEF Usable, Intact
<1>12. ASSUME NEW a \in Analyzer, Invalidate(a) PROVE SumInv'
  <2> DEFINE k == row[cur[a]].key
  <2>1. UNCHANGED <<row, curKey, count, samples, disturbed>>
      BY <1>12 DEF Invalidate, EndConversion
  <2>2. \A b \in Analyzer : pc'[b] = "saving" => pc[b] = "saving"
      BY <1>12 DEF Invalidate, EndConversion, TypeInv, ATypeOK
  <2>3. /\ summary' = [summary EXCEPT ![k] = {}]
        /\ skipped' = IF Pending(k) THEN skipped ELSE skipped \ {k}
      BY <1>12 DEF Invalidate, Validated
  <2> HIDE DEF k
  <2>4. \A l \in Key : Usable(l)' = Usable(l) /\ (Intact(l)' <=> Intact(l))
      BY <2>1 DEF Usable, Intact
  <2>5. ASSUME NEW l \in Key \ skipped', Intact(l) PROVE summary'[l] \subseteq {Cardinality(Usable(l))}
      BY <2>3, <2>5 DEF SumInv, TypeInv, ATypeOK
  <2>6. ASSUME NEW l \in Key \ skipped', Intact(l),
               NEW b \in Analyzer, pc'[b] = "saving", curKey'[b] = l
        PROVE  count'[b] = Cardinality(Usable(l))
    <3>1. pc[b] = "saving" /\ curKey[b] = l
        BY <2>1, <2>2, <2>6
    <3>2. l \notin skipped
        BY <2>3, <2>6, <3>1 DEF Pending
    <3> QED
        BY <2>1, <2>6, <3>1, <3>2 DEF SumInv
  <2> QED
      BY <2>4, <2>5, <2>6 DEF SumInv
<1>13. ASSUME NEW a \in Analyzer, StartSummaries(a) \/ EndAnalysis(a) \/ \E k \in Key : KeepSummary(a, k)
       PROVE  SumInv'
  <2>1. UNCHANGED <<row, summary, samples, disturbed, skipped>>
      BY <1>13 DEF StartSummaries, EndAnalysis, KeepSummary, SummaryFrame
  <2>2. \A b \in Analyzer : pc'[b] = "saving" =>
            pc[b] = "saving" /\ curKey'[b] = curKey[b] /\ count'[b] = count[b]
      BY <1>13 DEF StartSummaries, EndAnalysis, KeepSummary, Idle, TypeInv, ATypeOK
  <2> QED
      BY <2>1, <2>2, SumKept DEF Usable, Intact
<1>14. ASSUME NEW a \in Analyzer, NEW k \in Key, QuerySamples(a, k) PROVE SumInv'
  <2>1. UNCHANGED <<row, samples, disturbed, skipped>> /\ summary' = [summary EXCEPT ![k] = {}]
      BY <1>14 DEF QuerySamples, SummaryFrame
  <2>2. \A l \in Key : Usable(l)' = Usable(l) /\ (Intact(l)' <=> Intact(l))
      BY <2>1 DEF Usable, Intact
  <2>3. ASSUME NEW b \in Analyzer \ {a}, pc'[b] = "saving"
        PROVE  pc[b] = "saving" /\ curKey'[b] = curKey[b] /\ count'[b] = count[b]
      BY <1>14, <2>3 DEF QuerySamples, Idle, TypeInv, ATypeOK
  <2>4. ASSUME pc'[a] = "saving", Intact(k) PROVE curKey'[a] = k /\ count'[a] = Cardinality(Usable(k))
    <3>1. \A p \in Usable(k) : HasSeries(p)
        BY <2>4 DEF Intact, HasSeries
    <3>2. \A p \in Usable(k) : Loads(p)
        BY <1>14, <2>4 DEF QuerySamples, Idle, TypeInv, ATypeOK
    <3> QED
        BY <1>14, <3>1, <3>2 DEF QuerySamples, TypeInv, ATypeOK
  <2>5. pc'[a] = "saving" => curKey'[a] = k
      BY <1>14 DEF QuerySamples, Idle, TypeInv, ATypeOK
  <2>6. \A l \in Key : summary'[l] \subseteq summary[l]
      BY <2>1 DEF TypeInv, ATypeOK
  <2> QED
      BY <2>1, <2>2, <2>3, <2>4, <2>5, <2>6 DEF SumInv
<1>15. ASSUME NEW a \in Analyzer, SaveSummary(a) PROVE SumInv'
  <2>1. UNCHANGED <<row, samples, disturbed, skipped>>
      BY <1>15 DEF SaveSummary, SummaryFrame
  <2>2. pc[a] = "saving" /\ summary' = [summary EXCEPT ![curKey[a]] = summary[curKey[a]] \cup {count[a]}]
      BY <1>15 DEF SaveSummary
  <2>3. \A l \in Key : Usable(l)' = Usable(l) /\ (Intact(l)' <=> Intact(l))
      BY <2>1 DEF Usable, Intact
  <2>4. \A b \in Analyzer : pc'[b] = "saving" =>
            pc[b] = "saving" /\ curKey'[b] = curKey[b] /\ count'[b] = count[b]
      BY <1>15 DEF SaveSummary, TypeInv, ATypeOK
  <2>5. ASSUME NEW l \in Key \ skipped, Intact(l) PROVE summary'[l] \subseteq {Cardinality(Usable(l))}
    <3>1. summary[l] \subseteq {Cardinality(Usable(l))}
        BY <2>5 DEF SumInv
    <3>2. curKey[a] = l => count[a] = Cardinality(Usable(l))
        BY <2>2, <2>5 DEF SumInv
    <3> QED
        BY <2>2, <3>1, <3>2 DEF TypeInv, ATypeOK
  <2> QED
      BY <2>1, <2>3, <2>4, <2>5 DEF SumInv
<1>16. ASSUME NEW a \in Analyzer, LoseAnalyzer(a) PROVE SumInv'
  <2>1. UNCHANGED <<row, summary, samples, skipped>> /\ disturbed \subseteq disturbed'
      BY <1>16 DEF LoseAnalyzer
  <2>2. \A b \in Analyzer : pc'[b] = "saving" =>
            pc[b] = "saving" /\ curKey'[b] = curKey[b] /\ count'[b] = count[b]
      BY <1>16 DEF LoseAnalyzer, Idle, TypeInv, ATypeOK
  <2> QED
      BY <2>1, <2>2, SumKept DEF Usable, Intact
<1> QED
    BY <1>1, <1>2, <1>3, <1>4, <1>5, <1>6, <1>7, <1>8, <1>9, <1>10, <1>11, <1>12, <1>13,
       <1>14, <1>15, <1>16, <1>17
    DEF ANext, Analyze, AdminActions, Convert, Summarize

\* All of the above, the invariant of the analysis.
AnalysisInv == TypeInv /\ RunInv /\ FlagInv /\ SumInv

LEMMA InitAnalysis == AInit => AnalysisInv
BY InitType, InitRun, InitFlags, InitSum DEF AnalysisInv

LEMMA NextAnalysis == AnalysisInv /\ [ANext]_aVars => AnalysisInv'
BY NextType, NextRun, NextFlags, NextSum DEF AnalysisInv

\* The summary of a key counts its usable profiles: invalidate() follows every
\* conversion that decides, and a summary that was queried before and is saved after
\* it is known as stale.  Left out are keys of which a profile was cleared, lost its
\* samples or changed its flags, from then until the next such invalidation.
THEOREM SummariesAreRight == ASpec => []SummariesAgree
<1>1. AnalysisInv => SummariesAgree
    BY DEF AnalysisInv, SumInv, Intact, SummariesAgree
<1> QED
    BY <1>1, InitAnalysis, NextAnalysis, PTL DEF ASpec
=============================================================================
