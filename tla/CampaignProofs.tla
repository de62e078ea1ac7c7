----------------------------- MODULE CampaignProofs -----------------------------
(***************************************************************************)
(* Theorems about Campaign for any requests, profiles, analyses and        *)
(* incidents, and their proofs.                                            *)
(***************************************************************************)
EXTENDS Campaign, AnalysisProofs

-----------------------------------------------------------------------------
(* Types, and whose profile a task has *)

\* The task that runs has a profile with its key that is still open, like those whose
\* orchestrators go on without a task; a profile that is closed has a key; and tasks
\* are those of calls that were made.
LinkInv ==
    /\ \A p \in closed : row[p].key # NoKey
    /\ current # NoTask =>
          /\ profile \in Profile \ (closed \cup left) /\ row[profile].key = current.key
          /\ current.key \in Key /\ current.call <= requests
    /\ \A p \in left : p \in Profile \ closed /\ row[p].key # NoKey
    /\ \A t \in queue : t.call <= requests

QueueInv == QueueTypeOK /\ LinkInv

LEMMA UsableFinite ==
    ASSUME NEW k
    PROVE  IsFiniteSet(Usable(k)) /\ Cardinality(Usable(k)) \in Nat
<1>1. IsFiniteSet(Profile)
    BY AnalysisAssumption
<1>2. Usable(k) \in SUBSET Profile
    BY DEF Usable
<1> QED
    BY <1>1, <1>2, FS_Subset, FS_CardinalityType

\* What a request asks for at most, and with which priority.
LEMMA RequestType ==
    ASSUME NEW r \in Requests
    PROVE  /\ r.target \in Nat \cup {NoTarget} /\ r.priority \in 0 .. RunPriority - 1
           /\ Most(r) \in Nat
           /\ CombinationsOf[r] \in Seq(Key)
<1>1. r.target \in Nat \cup {NoTarget} /\ r.priority \in 0 .. RunPriority - 1
    BY CampaignAssumption DEF Request
<1>2. CombinationsOf[r] \in Seq(Key)
    BY KeysAssumption
<1> QED
    BY <1>1, <1>2 DEF Most

\* No task is queued with the priority of those that were begun.
LEMMA PriorityBelow ==
    ASSUME NEW r \in Requests PROVE r.priority # RunPriority
<1>1. r.priority \in 0 .. RunPriority - 1
    BY RequestType
<1>2. RunPriority \in Nat
    BY DEF RunPriority
<1>3. RunPriority \notin 0 .. RunPriority - 1
    BY <1>2
<1> QED
    BY <1>1, <1>3, Zenon

LEMMA NumberType ==
    ASSUME NEW r \in Requests, NEW k PROVE NumberToQueue(r, k) \in Nat
BY RequestType, UsableFinite DEF NumberToQueue

\* The tasks of a combination are at most as many as it is to have.
LEMMA TasksCounted ==
    ASSUME NEW r \in Requests, NEW j \in DOMAIN CombinationsOf[r], NEW n \in Nat
    PROVE  /\ IsFiniteSet({Task(r, j, i) : i \in 1 .. n})
           /\ Cardinality({Task(r, j, i) : i \in 1 .. n}) <= n
<1> DEFINE T == {Task(r, j, i) : i \in 1 .. n}
           f == [i \in 1 .. n |-> Task(r, j, i)]
<1>1. f \in Surjection(1 .. n, T)
    BY DEF Surjection
<1>2. IsFiniteSet(1 .. n) /\ Cardinality(1 .. n) = n
    BY FS_Interval
<1> HIDE DEF f, T
<1>3. IsFiniteSet(T) /\ Cardinality(T) <= n
    BY <1>1, <1>2, FS_Surjection
<1> QED
    BY <1>3 DEF T

\* The tasks of a call are finitely many; all have its number and its priority.
LEMMA NewTasksFinite ==
    ASSUME NEW r \in Requests
    PROVE  IsFiniteSet(NewTasks(r))
<1> DEFINE C == CombinationsOf[r]
           Of(j) == {Task(r, j, i) : i \in 1 .. NumberToQueue(r, C[j])}
           S == {Of(j) : j \in DOMAIN C}
           f == [j \in DOMAIN C |-> Of(j)]
<1>1. DOMAIN C = 1 .. Len(C) /\ Len(C) \in Nat
    BY RequestType
<1>2. IsFiniteSet(DOMAIN C)
  <2>1. \A n \in Nat : IsFiniteSet(1 .. n)
      <3> SUFFICES ASSUME NEW n \in Nat PROVE IsFiniteSet(1 .. n)
          OBVIOUS
      <3>1. 1 \in Int /\ n \in Int
          OBVIOUS
      <3> QED
          BY <3>1, FS_Interval
  <2> HIDE DEF C
  <2> QED
      BY <1>1, <2>1
<1>3. f \in Surjection(DOMAIN C, S)
    BY DEF Surjection
<1>4. ASSUME NEW j \in DOMAIN C PROVE IsFiniteSet(Of(j))
    BY <1>4, NumberType, TasksCounted
<1>5. \A T \in S : IsFiniteSet(T)
    BY <1>4
<1> HIDE DEF f, Of
<1>6. IsFiniteSet(S)
    BY <1>2, <1>3, FS_Surjection
<1>7. IsFiniteSet(UNION S)
    BY <1>5, <1>6, FS_UNION
<1> QED
    BY <1>7 DEF NewTasks, Of

LEMMA NewTasksType ==
    ASSUME NEW r \in Requests, QueueTypeOK, requests < MaxRequests
    PROVE  /\ NewTasks(r) \subseteq Tasks
           /\ \A t \in NewTasks(r) : /\ t.call = requests + 1 /\ t.priority = r.priority
                                     /\ t.key \in Key
<1> SUFFICES ASSUME NEW t \in NewTasks(r)
             PROVE  /\ t \in Tasks /\ t.call = requests + 1 /\ t.priority = r.priority
                    /\ t.key \in Key
    OBVIOUS
<1>1. PICK j \in DOMAIN CombinationsOf[r] :
          \E i \in 1 .. NumberToQueue(r, CombinationsOf[r][j]) : t = Task(r, j, i)
    BY DEF NewTasks
<1>2. PICK i \in 1 .. NumberToQueue(r, CombinationsOf[r][j]) : t = Task(r, j, i)
    BY <1>1
<1>3. j \in Nat /\ CombinationsOf[r][j] \in Key
    BY RequestType
<1>4. i \in Nat
    BY <1>2, NumberType
<1>5. requests + 1 \in 1 .. MaxRequests
    BY CampaignAssumption DEF QueueTypeOK
<1>6. r.priority \in 0 .. RunPriority
    BY RequestType DEF RunPriority
<1> QED
    BY <1>2, <1>3, <1>4, <1>5, <1>6 DEF Task, Tasks

LEMMA PauseType ==
    ASSUME NEW r \in Requests, QueueTypeOK, requests < MaxRequests, NEW new
    PROVE  /\ Pause(r, new) \subseteq Tasks /\ IsFiniteSet(Pause(r, new))
           /\ \A t \in Pause(r, new) : /\ t.call = requests + 1 /\ t.priority = r.priority
                                       /\ t.key = NoKey
<1> DEFINE pause == [key |-> NoKey, call |-> requests + 1, index |-> Most(r) + 1, place |-> 0,
                     priority |-> r.priority]
<1>1. requests + 1 \in 1 .. MaxRequests
    BY CampaignAssumption DEF QueueTypeOK
<1>2. r.priority \in 0 .. RunPriority
    BY RequestType DEF RunPriority
<1>3. pause \in Tasks /\ pause.call = requests + 1 /\ pause.priority = r.priority
      /\ pause.key = NoKey
    BY <1>1, <1>2, RequestType DEF Tasks
<1> HIDE DEF pause
<1>4. Pause(r, new) \in {{pause}, {}}
    BY DEF Pause, pause
<1>5. IsFiniteSet({pause}) /\ IsFiniteSet({})
    BY FS_Singleton, FS_EmptySet
<1> QED
    BY <1>3, <1>4, <1>5

-----------------------------------------------------------------------------
(* Every step of the campaign is one of the analysis, or none of its business *)

LEMMA NextComposed == TypeInv /\ QueueInv /\ [Next]_vars => [ANext]_aVars
<1> SUFFICES ASSUME TypeInv, QueueInv, [Next]_vars PROVE [ANext]_aVars
    OBVIOUS
<1>1. ASSUME NEW r \in Requests, QueueBenchmarks(r) PROVE UNCHANGED aVars
    BY <1>1 DEF QueueBenchmarks
<1>2. ASSUME NEW t \in queue, RunNext(t) PROVE ANext
  <2>1. t.key \in Key
      BY <1>2 DEF RunNext, QueueInv, QueueTypeOK, Tasks
  <2>2. \E q \in Profile : q \notin Created
      BY <1>2 DEF RunNext, Created
  <2>3. profile' \in Profile
      BY <1>2, <2>2 DEF RunNext
  <2>4. Create(profile', t.key)
      BY <1>2 DEF RunNext
  <2> QED
      BY <2>1, <2>3, <2>4 DEF ANext
<1>3. ASSUME NEW t \in queue, FailNext(t) PROVE ANext
    BY <1>3 DEF FailNext, ANext
<1>4. ASSUME NEW t \in queue, PauseEnds(t) PROVE UNCHANGED aVars
    BY <1>4 DEF PauseEnds
<1>5. ASSUME TaskEnds PROVE ANext
    BY <1>5 DEF TaskEnds, QueueInv, LinkInv, ANext
<1>6. ASSUME TaskIsLost \/ \E again \in BOOLEAN : OrchestratorIsLeft(again) PROVE ANext
    BY <1>6 DEF TaskIsLost, OrchestratorIsLeft, ANext
<1>9. ASSUME NEW p \in Profile, LeftEnds(p) PROVE ANext \/ UNCHANGED aVars
    BY <1>9 DEF LeftEnds, ANext
<1>7. ASSUME Analysing PROVE ANext
    BY <1>7 DEF Analysing, ANext
<1>8. ASSUME UNCHANGED vars PROVE UNCHANGED aVars
    BY <1>8 DEF vars
<1> QED
    BY <1>1, <1>2, <1>3, <1>4, <1>5, <1>6, <1>7, <1>8, <1>9 DEF Next, Queueing, Scheduling

\* The analysis leaves alone what the queue depends on.
LEMMA AnalysisKeepsKeys ==
    ASSUME TypeInv, Analyze \/ AdminActions
    PROVE  /\ UNCHANGED <<closed, log>>
           /\ \A p \in Profile : row'[p].key = row[p].key
<1> USE DEF TypeInv, ATypeOK, KeyInv, data, process, counters, history
<1>1. CASE AdminActions
  <2>1. CASE AdminClear \/ AdminSave
    <3>1. admin # NoRequest /\ AdminWrite
        BY <2>1 DEF AdminClear, AdminSave
    <3>2. admin.profile \in Profile /\ admin.row \in Row
          /\ admin.row.key = row[admin.profile].key
        BY <3>1
    <3>3. UNCHANGED <<closed, log>> /\ row' = [row EXCEPT ![admin.profile] = Cleared(admin.row)]
        BY <3>1 DEF AdminWrite
    <3> QED
        BY <3>2, <3>3, ClearedType
  <2>2. CASE AdminDelete \/ AdminLost \/ \E p \in Profile : AdminRead(p)
      BY <2>2 DEF AdminDelete, AdminLost, AdminRead
  <2> QED
      BY <1>1, <2>1, <2>2 DEF AdminActions
<1>2. ASSUME NEW a \in Analyzer,
             \/ \E forced \in BOOLEAN : StartAnalysis(a, forced)
             \/ \E p \in Profile : ClearSamples(a, p)
             \/ Parse(a) \/ ProcessSeries(a) \/ ConversionRaises(a) \/ Invalidate(a)
             \/ Summarize(a) \/ LoseAnalyzer(a)
      PROVE  UNCHANGED <<closed, log, row>>
    BY <1>2 DEF StartAnalysis, ClearSamples, BeginConversion, Parse, ProcessSeries, ConversionFrame,
       ConversionRaises, Invalidate, EndConversion, Summarize, StartSummaries, SaveSummary,
       EndAnalysis, KeepSummary, QuerySamples, SummaryFrame, LoseAnalyzer
<1>3. ASSUME NEW a \in Analyzer, SaveCleared(a) \/ SaveFlags(a)
      PROVE  /\ UNCHANGED <<closed, log>>
             /\ \A p \in Profile : row'[p].key = row[p].key
  <2>1. PICK p \in Profile : p = cur[a]
      BY <1>3 DEF SaveCleared, SaveFlags, Converting
  <2>2. copy[a][p] \in Row /\ copy[a][p].key = row[p].key
      BY <2>1
  <2>3. \E r \in Row : r.key = row[p].key /\ row' = [row EXCEPT ![p] = r]
    <3>1. CASE SaveCleared(a)
        BY <2>1, <2>2, <3>1, ClearedType DEF SaveCleared, Save
    <3>2. CASE SaveFlags(a)
      <4> DEFINE r == [copy[a][p] EXCEPT !.processed = TRUE, !.corrupted = (pc[a] = "corrupt")]
      <4>1. r \in Row /\ r.key = row[p].key
          BY <2>2 DEF Row
      <4>2. row' = [row EXCEPT ![p] = r]
          BY <2>1, <3>2 DEF SaveFlags, Save
      <4> HIDE DEF r
      <4> QED
          BY <4>1, <4>2
    <3> QED
        BY <1>3, <3>1, <3>2
  <2>4. UNCHANGED <<closed, log>>
      BY <1>3 DEF SaveCleared, SaveFlags, ConversionFrame
  <2> QED
      BY <2>3, <2>4
<1> QED
    BY <1>1, <1>2, <1>3 DEF Analyze, Convert

LEMMA InitQueue == Init => QueueInv
<1> SUFFICES ASSUME Init PROVE QueueInv
    OBVIOUS
<1>1. IsFiniteSet({})
    BY FS_EmptySet
<1>2. QueueTypeOK
    BY <1>1, CampaignAssumption DEF Init, QueueTypeOK
<1>3. LinkInv
    BY DEF Init, AInit, LinkInv
<1> QED
    BY <1>2, <1>3 DEF QueueInv

\* Starting a task: it is one of the queue, which the rest stays in.
LEMMA BeginQueue ==
    ASSUME QueueInv, NEW t \in queue, Begin(t)
    PROVE  /\ t \in Tasks /\ queue' \subseteq queue /\ IsFiniteSet(queue')
           /\ Reach(t) => reached' \in [1 .. MaxRequests -> Nat]
<1>1. t \in Tasks /\ queue' = queue \ {t}
    BY DEF QueueInv, QueueTypeOK, Begin
<1>2. IsFiniteSet(queue')
    BY <1>1, FS_RemoveElement DEF QueueInv, QueueTypeOK
<1>3. t.call \in 1 .. MaxRequests /\ t.index \in Nat
    BY <1>1 DEF Tasks
<1>4. Reach(t) => reached' \in [1 .. MaxRequests -> Nat]
    BY <1>3 DEF Reach, QueueInv, QueueTypeOK
<1> QED
    BY <1>1, <1>2, <1>4

\* The task as it is saved at its start.
LEMMA StartedType ==
    ASSUME NEW t \in Tasks
    PROVE  LET u == [t EXCEPT !.priority = RunPriority]
           IN  /\ u \in Tasks /\ u.key = t.key /\ u.call = t.call /\ u.index = t.index
               /\ u.priority = RunPriority
BY DEF Tasks, RunPriority

LEMMA NextQueue == TypeInv /\ QueueInv /\ [Next]_vars => QueueInv'
<1> SUFFICES ASSUME TypeInv, QueueInv, [Next]_vars PROVE QueueInv'
    OBVIOUS
<1> USE AnalysisAssumption, CampaignAssumption DEF QueueInv, aVars, queueVars
<1>1. ASSUME NEW r \in Requests, QueueBenchmarks(r) PROVE QueueInv'
  <2> DEFINE new == NewTasks(r)
             pause == Pause(r, new)
  <2>1. /\ requests < MaxRequests /\ requests' = requests + 1
        /\ queue' = queue \cup new \cup pause
        /\ goal' = [k \in Key |-> IF k \in Asked(r) /\ r.target > goal[k] THEN r.target ELSE goal[k]]
        /\ exact' \subseteq exact
        /\ UNCHANGED <<current, profile, left, reached, repeated, row, closed>>
      BY <1>1 DEF QueueBenchmarks
  <2>2. /\ new \subseteq Tasks /\ IsFiniteSet(new) /\ \A t \in new : t.call = requests + 1
        /\ pause \subseteq Tasks /\ IsFiniteSet(pause) /\ \A t \in pause : t.call = requests + 1
      BY <2>1, NewTasksFinite, NewTasksType, PauseType
  <2> HIDE DEF new, pause
  <2>3. IsFiniteSet(queue')
    <3>1. IsFiniteSet(queue \cup new)
        BY <2>2, FS_Union DEF QueueTypeOK
    <3> QED
        BY <2>1, <2>2, <3>1, FS_Union
  <2>4. goal' \in [Key -> Nat]
      BY <2>1, RequestType DEF QueueTypeOK, NoTarget
  <2>5. QueueTypeOK'
      BY <2>1, <2>2, <2>3, <2>4 DEF QueueTypeOK
  <2>6. LinkInv'
    <3>1. requests \in Nat
        BY DEF QueueTypeOK
    <3>2. current # NoTask => current.call \in Nat
        BY DEF QueueTypeOK, Tasks
    <3>3. \A t \in queue : t.call \in Nat
        BY DEF QueueTypeOK, Tasks
    <3> QED
        BY <2>1, <2>2, <3>1, <3>2, <3>3 DEF LinkInv
  <2> QED
      BY <2>5, <2>6
<1>2. ASSUME NEW t \in queue, RunNext(t) PROVE QueueInv'
  <2>1. Begin(t) /\ Reach(t) /\ t.key # NoKey /\ Create(profile', t.key)
        /\ current' = [t EXCEPT !.priority = RunPriority]
      BY <1>2 DEF RunNext
  <2>2. t \in Tasks /\ queue' \subseteq queue /\ IsFiniteSet(queue')
        /\ reached' \in [1 .. MaxRequests -> Nat]
      BY <2>1, BeginQueue
  <2>3. current' \in Tasks /\ current'.key = t.key /\ current'.call = t.call /\ t.key \in Key
      BY <2>1, <2>2, StartedType DEF Tasks
  <2>4. profile' \in Profile
    <3>1. \E q \in Profile : q \notin Created
        BY <1>2 DEF RunNext, Created
    <3> QED
        BY <1>2, <3>1 DEF RunNext
  <2>5. QueueTypeOK'
      BY <2>1, <2>2, <2>3, <2>4 DEF QueueTypeOK, Begin
  <2>6. row[profile'] = NoRow /\ closed' = closed /\ row'[profile'].key = t.key
        /\ \A p \in Profile : p # profile' => row'[p] = row[p]
      BY <2>1, <2>4 DEF Create, NoRow, TypeInv, ATypeOK
  <2>7. profile' \notin closed \cup left
      BY <2>6 DEF LinkInv, NoRow
  <2>8. closed \subseteq Profile /\ left' = left
      BY <2>1 DEF TypeInv, ATypeOK, Begin
  <2>9. LinkInv'
      BY <2>1, <2>2, <2>3, <2>4, <2>6, <2>7, <2>8 DEF LinkInv, Begin
  <2> QED
      BY <2>5, <2>9
<1>3. ASSUME NEW t \in queue, FailNext(t) \/ PauseEnds(t) PROVE QueueInv'
  <2>1. Begin(t) /\ (Reach(t) \/ reached' = reached)
        /\ UNCHANGED <<row, closed, current, profile>>
      BY <1>3 DEF FailNext, PauseEnds, LoseOrchestrator
  <2>2. queue' \subseteq queue /\ IsFiniteSet(queue') /\ reached' \in [1 .. MaxRequests -> Nat]
      BY <2>1, BeginQueue DEF QueueTypeOK
  <2>3. UNCHANGED <<left, requests, goal, exact, repeated>>
      BY <2>1 DEF Begin
  <2>4. QueueTypeOK'
      BY <2>1, <2>2, <2>3 DEF QueueTypeOK
  <2>5. LinkInv'
      BY <2>1, <2>2, <2>3 DEF LinkInv
  <2> QED
      BY <2>4, <2>5
<1>4. ASSUME TaskEnds PROVE QueueInv'
  <2>1. /\ current # NoTask /\ current' = NoTask /\ profile' = NoProfile
        /\ Close(profile)
        /\ UNCHANGED <<queue, left, requests, reached, goal, exact, repeated>>
      BY <1>4 DEF TaskEnds
  <2>2. QueueTypeOK'
      BY <2>1 DEF QueueTypeOK
  <2>3. profile \in Profile \ left /\ row[profile].key = current.key /\ current.key \in Key
      BY <2>1 DEF LinkInv
  <2>4. closed' = closed \cup {profile} /\ row'[profile].key # NoKey
        /\ \A p \in Profile : p # profile => row'[p] = row[p]
      BY <2>1, <2>3 DEF Close, NoRow, TypeInv, ATypeOK
  <2>5. closed \subseteq Profile
      BY DEF TypeInv, ATypeOK
  <2>6. LinkInv'
      BY <2>1, <2>3, <2>4, <2>5 DEF LinkInv
  <2> QED
      BY <2>2, <2>6
<1>5. ASSUME TaskIsLost \/ \E again \in BOOLEAN : OrchestratorIsLeft(again) PROVE QueueInv'
  <2>1. /\ current # NoTask /\ current' = NoTask /\ profile' = NoProfile
        /\ queue' \in {queue, queue \cup {current}}
        /\ left' \in {left, left \cup {profile}} /\ repeated' \in {repeated, repeated \cup {profile}}
        /\ UNCHANGED <<requests, reached, goal, exact, row, closed>>
      BY <1>5 DEF TaskIsLost, OrchestratorIsLeft, LoseOrchestrator
  <2>2. /\ current \in Tasks /\ current.call <= requests
        /\ profile \in Profile \ closed /\ row[profile].key # NoKey
      BY <2>1 DEF QueueTypeOK, LinkInv
  <2>3. IsFiniteSet(queue')
      BY <2>1, FS_AddElement DEF QueueTypeOK
  <2>4. QueueTypeOK'
      BY <2>1, <2>2, <2>3 DEF QueueTypeOK
  <2>5. LinkInv'
      BY <2>1, <2>2 DEF LinkInv
  <2> QED
      BY <2>4, <2>5
<1>8. ASSUME NEW p \in Profile, LeftEnds(p) PROVE QueueInv'
  <2>1. /\ p \in left /\ left' = left \ {p}
        /\ Close(p) \/ UNCHANGED <<row, closed>>
        /\ UNCHANGED <<queue, current, profile, requests, reached, goal, exact, repeated>>
      BY <1>8 DEF LeftEnds
  <2>2. QueueTypeOK'
      BY <2>1 DEF QueueTypeOK
  <2>3. /\ closed' \in {closed, closed \cup {p}} /\ closed \subseteq Profile
        /\ \A q \in Profile : row'[q].key = row[q].key
    <3>1. CASE Close(p)
        BY <3>1 DEF Close, NoRow, TypeInv, ATypeOK
    <3>2. CASE UNCHANGED <<row, closed>>
        BY <3>2 DEF TypeInv, ATypeOK
    <3> QED
        BY <2>1, <3>1, <3>2
  <2>4. row[p].key # NoKey
      BY <2>1 DEF LinkInv
  <2>5. LinkInv'
      BY <2>1, <2>3, <2>4 DEF LinkInv
  <2> QED
      BY <2>2, <2>5
<1>6. ASSUME Analysing PROVE QueueInv'
  <2>1. /\ UNCHANGED <<queueVars, closed>>
        /\ \A p \in Profile : row'[p].key = row[p].key
      BY <1>6, AnalysisKeepsKeys DEF Analysing
  <2>2. QueueTypeOK'
      BY <2>1 DEF QueueTypeOK
  <2>3. closed \subseteq Profile
      BY DEF TypeInv, ATypeOK
  <2>4. LinkInv'
      BY <2>1, <2>3 DEF LinkInv
  <2> QED
      BY <2>2, <2>4
<1>7. ASSUME UNCHANGED vars PROVE QueueInv'
    BY <1>7 DEF vars, QueueTypeOK, LinkInv
<1> QED
    BY <1>1, <1>2, <1>3, <1>4, <1>5, <1>6, <1>7, <1>8 DEF Next, Queueing, Scheduling

\* The invariant of both parts.
CampaignInv == AnalysisInv /\ QueueInv

LEMMA InitCampaign == Init => CampaignInv
BY InitAnalysis, InitQueue DEF Init, CampaignInv

LEMMA NextCampaign == CampaignInv /\ [Next]_vars => CampaignInv' /\ [ANext]_aVars
BY NextComposed, NextAnalysis, NextQueue DEF CampaignInv, AnalysisInv

\* The queue, the task that runs and the counts of every behaviour are of their types.
THEOREM CampaignTypes == Spec => []TypeOK
<1>1. CampaignInv => TypeOK
    BY DEF CampaignInv, AnalysisInv, TypeInv, QueueInv, TypeOK
<1> QED
    BY <1>1, InitCampaign, NextCampaign, PTL DEF Spec

\* To the analysis, the scheduler with its orchestrators is nothing but processes
\* that create and close profiles: a campaign is a behaviour of Analysis.
THEOREM CampaignIsAnalysed == Spec => ASpec
<1>1. Init => AInit
    BY DEF Init
<1> QED
    BY <1>1, InitCampaign, NextCampaign, PTL DEF Spec, ASpec

\* So what is promised of the analysis alone is true of every campaign: only closed
\* profiles are analysed, their flags tell what their logs hold, the summaries count
\* them, and every conversion decides.
THEOREM CampaignKeepsPromises ==
    Spec => /\ [](AnalysedAfterTheRun /\ FlagsTellTheLog /\ SummariesAgree)
            /\ ConversionDecides
BY CampaignIsAnalysed, OnlyClosedAnalysed, FlagsAreRight, SummariesAreRight,
   EveryConversionDecides, PTL

-----------------------------------------------------------------------------
(* The tasks of a call run interleaved *)

\* The iteration that a call has reached is the one of its task that runs; tasks that
\* are back in the queue were begun; and all others of a call have its priority, so
\* that the scheduler takes them in the order of their ids.
OrderInv ==
    /\ \A c \in 1 .. MaxRequests : c > requests => reached[c] = 0
    /\ current # NoTask =>
          current.priority = RunPriority /\ reached[current.call] = current.index
    /\ \A t \in queue : t.priority = RunPriority /\ t.key # NoKey => t.index <= reached[t.call]
    /\ \A t, u \in queue :
          (t.call = u.call /\ t.priority # RunPriority /\ u.priority # RunPriority) =>
              t.priority = u.priority
    /\ Interleaved

LEMMA InitOrder == Init => OrderInv
BY DEF Init, OrderInv, Interleaved

\* The next task is of the lowest iteration of its call.
LEMMA NextIsFirst ==
    ASSUME QueueTypeOK, OrderInv, NEW t \in queue, IsNext(t), t.key # NoKey,
           NEW u \in queue, u.call = t.call, u.key # NoKey
    PROVE  t.index <= u.index
<1>1. t \in Tasks /\ u \in Tasks
    BY DEF QueueTypeOK
<1>2. /\ t.index \in Nat /\ u.index \in Nat /\ t.priority \in Nat /\ u.priority \in Nat
      /\ u.priority <= RunPriority /\ t.priority <= RunPriority /\ t.call \in 1 .. MaxRequests
  <2>1. /\ t.index \in Nat /\ t.priority \in 0 .. RunPriority /\ t.call \in 1 .. MaxRequests
        /\ u.index \in Nat /\ u.priority \in 0 .. RunPriority
      BY <1>1 DEF Tasks
  <2>2. RunPriority \in Nat
      BY DEF RunPriority
  <2> QED
      BY <2>1, <2>2
<1>3. reached[t.call] \in Nat
    BY <1>2 DEF QueueTypeOK
<1>4. CASE t = u
    BY <1>2, <1>4
<1>5. CASE t # u /\ t.priority = u.priority
  <2>1. Earlier(t, u)
      BY <1>2, <1>5 DEF IsNext
  <2>2. t.call \in Nat /\ u.call \in Nat
      BY <1>2
  <2> QED
      BY <1>2, <2>1, <2>2 DEF Earlier
<1>6. CASE t # u /\ t.priority > u.priority
  <2>1. t.priority = RunPriority
      BY <1>2, <1>6 DEF OrderInv, RunPriority
  <2>2. t.index <= reached[t.call]
      BY <2>1 DEF OrderInv
  <2>3. reached[t.call] <= u.index
      BY DEF OrderInv, Interleaved
  <2> QED
      BY <1>2, <1>3, <2>2, <2>3
<1> QED
    BY <1>4, <1>5, <1>6 DEF IsNext

LEMMA NextOrder == QueueInv /\ OrderInv /\ [Next]_vars => OrderInv'
<1> SUFFICES ASSUME QueueInv, OrderInv, [Next]_vars PROVE OrderInv'
    OBVIOUS
<1> USE CampaignAssumption DEF QueueInv, QueueTypeOK, queueVars
<1>1. ASSUME NEW r \in Requests, QueueBenchmarks(r) PROVE OrderInv'
  <2> DEFINE new == NewTasks(r)
             pause == Pause(r, new)
  <2>1. /\ requests < MaxRequests /\ requests' = requests + 1
        /\ queue' = queue \cup new \cup pause
        /\ UNCHANGED <<current, reached>>
      BY <1>1 DEF QueueBenchmarks
  <2>2. \A t \in new \cup pause :
           t \in Tasks /\ t.call = requests + 1 /\ t.priority = r.priority
      BY <2>1, NewTasksType, PauseType
  <2>3. r.priority # RunPriority /\ requests \in Nat
    <3>1. requests \in Nat
        OBVIOUS
    <3> QED
        BY <3>1, PriorityBelow
  <2> HIDE DEF new, pause
  <2>4. reached[requests + 1] = 0
      BY <2>1 DEF OrderInv
  <2>5. \A t \in new \cup pause : t.index \in Nat /\ reached[t.call] = 0
      BY <2>2, <2>4 DEF Tasks
  <2>6. \A t \in queue : t.call \in Nat /\ t.call <= requests
      BY DEF LinkInv, Tasks
  <2>7. ASSUME NEW t \in queue', NEW u \in queue', t.call = u.call,
               t.priority # RunPriority, u.priority # RunPriority
        PROVE  t.priority = u.priority
    <3>1. CASE t \in queue /\ u \in queue
        BY <2>7, <3>1 DEF OrderInv
    <3>2. CASE t \in new \cup pause /\ u \in new \cup pause
        BY <2>2, <3>2
    <3>3. t.call <= requests <=> t \in queue
        BY <2>1, <2>2, <2>3, <2>6
    <3>4. u.call <= requests <=> u \in queue
        BY <2>1, <2>2, <2>3, <2>6
    <3> QED
        BY <2>1, <2>7, <3>1, <3>2, <3>3, <3>4
  <2>8. \A c \in 1 .. MaxRequests : c > requests' => reached'[c] = 0
      BY <2>1, <2>3 DEF OrderInv
  <2>9. \A t \in queue' : t.priority = RunPriority /\ t.key # NoKey => t.index <= reached'[t.call]
      BY <2>1, <2>2, <2>3 DEF OrderInv
  <2>10. Interleaved'
      BY <2>1, <2>5 DEF OrderInv, Interleaved
  <2> QED
      BY <2>1, <2>7, <2>8, <2>9, <2>10 DEF OrderInv
<1>2. ASSUME NEW t \in queue, RunNext(t) \/ FailNext(t) PROVE OrderInv'
  <2>1. /\ current = NoTask /\ IsNext(t) /\ queue' = queue \ {t} /\ requests' = requests
        /\ t.key # NoKey
        /\ reached' = [reached EXCEPT ![t.call] = IF t.index > reached[t.call] THEN t.index
                                                  ELSE reached[t.call]]
      BY <1>2 DEF RunNext, FailNext, Begin, Reach
  <2>2. t \in Tasks /\ t.call \in 1 .. MaxRequests /\ t.index \in Nat /\ reached[t.call] \in Nat
      BY DEF Tasks
  <2>3. reached[t.call] <= t.index
      BY <2>1 DEF OrderInv, Interleaved
  <2>4. reached' = [reached EXCEPT ![t.call] = t.index]
    <3>1. (IF t.index > reached[t.call] THEN t.index ELSE reached[t.call]) = t.index
        BY <2>2, <2>3
    <3> QED
        BY <2>1, <3>1
  <2>5. \A u \in queue' : u \in queue /\ u \in Tasks
      BY <2>1
  <2>6. ASSUME NEW u \in queue', u.key # NoKey PROVE reached'[u.call] <= u.index
      BY <2>1, <2>2, <2>4, <2>5, <2>6, NextIsFirst DEF OrderInv, Interleaved, Tasks
  <2>7. ASSUME NEW u \in queue', u.priority = RunPriority, u.key # NoKey
        PROVE  u.index <= reached'[u.call]
    <3>1. u.index <= reached[u.call] /\ u.call \in 1 .. MaxRequests /\ u.index \in Nat
        BY <2>5, <2>7 DEF OrderInv, Tasks
    <3> QED
        BY <2>2, <2>3, <2>4, <3>1
  <2>8. \A c \in 1 .. MaxRequests : c > requests' => reached'[c] = 0
    <3>1. t.call <= requests
        BY DEF LinkInv
    <3> QED
        BY <2>1, <2>2, <2>4, <3>1 DEF OrderInv
  <2>9. current' # NoTask => current'.priority = RunPriority /\ reached'[current'.call] = current'.index
    <3>1. current' = NoTask \/ current' = [t EXCEPT !.priority = RunPriority]
        BY <1>2, <2>1 DEF RunNext, FailNext
    <3> QED
        BY <2>2, <2>4, <3>1, StartedType
  <2>10. \A u, v \in queue' :
            (u.call = v.call /\ u.priority # RunPriority /\ v.priority # RunPriority) =>
                u.priority = v.priority
      BY <2>5 DEF OrderInv
  <2> QED
      BY <2>6, <2>7, <2>8, <2>9, <2>10 DEF OrderInv, Interleaved
<1>3. ASSUME NEW t \in queue, PauseEnds(t) PROVE OrderInv'
  <2>1. queue' \subseteq queue /\ UNCHANGED <<current, requests, reached>>
      BY <1>3 DEF PauseEnds, Begin
  <2> QED
      BY <2>1 DEF OrderInv, Interleaved
<1>4. ASSUME TaskEnds PROVE OrderInv'
  <2>1. current' = NoTask /\ UNCHANGED <<queue, requests, reached>>
      BY <1>4 DEF TaskEnds
  <2> QED
      BY <2>1 DEF OrderInv, Interleaved
<1>5. ASSUME TaskIsLost \/ \E again \in BOOLEAN : OrchestratorIsLeft(again) PROVE OrderInv'
  <2>1. /\ current # NoTask /\ current' = NoTask /\ queue' \subseteq queue \cup {current}
        /\ UNCHANGED <<requests, reached>>
      BY <1>5 DEF TaskIsLost, OrchestratorIsLeft
  <2>2. current.priority = RunPriority /\ reached[current.call] = current.index
      BY <2>1 DEF OrderInv
  <2>3. current.index \in Nat
      BY <2>1 DEF Tasks
  <2> QED
      BY <2>1, <2>2, <2>3 DEF OrderInv, Interleaved
<1>6. CASE Analysing \/ (\E p \in Profile : LeftEnds(p)) \/ UNCHANGED vars
  <2>1. UNCHANGED <<queue, current, requests, reached>>
      BY <1>6 DEF Analysing, LeftEnds, vars
  <2> QED
      BY <2>1 DEF OrderInv, Interleaved
<1> QED
    BY <1>1, <1>2, <1>3, <1>4, <1>5, <1>6 DEF Next, Queueing, Scheduling

\* However many calls are mixed, with whatever priorities, and however many tasks
\* fail or are lost and taken up again: no task of a call is begun while one of an
\* earlier iteration of it waits.
THEOREM TasksInterleave == Spec => []Interleaved
<1>1. Init => CampaignInv /\ OrderInv
    BY InitCampaign, InitOrder
<1>2. CampaignInv /\ OrderInv /\ [Next]_vars => CampaignInv' /\ OrderInv'
    BY NextCampaign, NextOrder DEF CampaignInv
<1>3. OrderInv => Interleaved
    BY DEF OrderInv
<1> QED
    BY <1>1, <1>2, <1>3, PTL DEF Spec

-----------------------------------------------------------------------------
(* No more profiles than were asked for *)

\* The profiles that count towards the target.
Met(k) == Counted(k) \ repeated

LEMMA CountsFinite ==
    ASSUME TypeInv, QueueTypeOK, NEW k
    PROVE  /\ IsFiniteSet(Met(k)) /\ Cardinality(Met(k)) \in Nat
           /\ IsFiniteSet(Waiting(k)) /\ Cardinality(Waiting(k)) \in Nat
           /\ Running(k) \in {0, 1}
<1>1. Met(k) \in SUBSET Profile /\ IsFiniteSet(Profile)
    BY AnalysisAssumption DEF Met, Counted, LeftOf, GoodProfiles, TypeInv, ATypeOK, QueueTypeOK
<1>2. IsFiniteSet(Met(k)) /\ Cardinality(Met(k)) \in Nat
    BY <1>1, FS_Subset, FS_CardinalityType
<1>3. Waiting(k) \in SUBSET queue /\ IsFiniteSet(queue)
    BY DEF Waiting, QueueTypeOK
<1>4. IsFiniteSet(Waiting(k)) /\ Cardinality(Waiting(k)) \in Nat
    BY <1>3, FS_Subset, FS_CardinalityType
<1>5. Running(k) \in {0, 1}
    BY DEF Running
<1> QED
    BY <1>2, <1>4, <1>5

\* Whether a closed profile is good depends on its key and its logs.
LEMMA SameGood ==
    ASSUME NEW p \in Profile, row'[p].key = row[p].key, log'[p] = log[p]
    PROVE  Good(p)' <=> Good(p)
BY SameVerdict DEF Good

LEMMA MetKept ==
    ASSUME TypeInv, UNCHANGED <<closed, left, repeated>>,
           \A p \in closed \cup left : row'[p].key = row[p].key /\ log'[p] = log[p], NEW k
    PROVE  Met(k)' = Met(k)
<1>1. closed \subseteq Profile
    BY DEF TypeInv, ATypeOK
<1>2. \A p \in closed : Good(p)' <=> Good(p)
    BY <1>1, SameGood
<1>3. GoodProfiles(k)' = GoodProfiles(k)
    BY <1>2 DEF GoodProfiles
<1>4. LeftOf(k)' = LeftOf(k)
    BY DEF LeftOf
<1> QED
    BY <1>3, <1>4 DEF Met, Counted

\* The tasks that a call adds for a combination it names once.
LEMMA AddedOnce ==
    ASSUME NEW r \in Requests, NEW k \in Asked(r), Once(r, k)
    PROVE  /\ IsFiniteSet({t \in NewTasks(r) : t.key = k})
           /\ Cardinality({t \in NewTasks(r) : t.key = k}) \in Nat
           /\ Cardinality({t \in NewTasks(r) : t.key = k}) <= NumberToQueue(r, k)
<1> DEFINE C == CombinationsOf[r]
           Added == {t \in NewTasks(r) : t.key = k}
<1>1. PICK j \in DOMAIN C : C[j] = k
    BY DEF Asked
<1> DEFINE T == {Task(r, j, i) : i \in 1 .. NumberToQueue(r, k)}
<1>2. Added \subseteq T
  <2> SUFFICES ASSUME NEW t \in NewTasks(r), t.key = k PROVE t \in T
      OBVIOUS
  <2>1. PICK l \in DOMAIN C : \E i \in 1 .. NumberToQueue(r, C[l]) : t = Task(r, l, i)
      BY DEF NewTasks
  <2>2. t.key = C[l]
      BY <2>1 DEF Task
  <2>3. l = j
      BY <1>1, <2>2 DEF Once
  <2> QED
      BY <1>1, <2>1, <2>3
<1>3. NumberToQueue(r, k) \in Nat
    BY NumberType
<1>4. IsFiniteSet(T) /\ Cardinality(T) <= NumberToQueue(r, k)
    BY <1>1, <1>3, TasksCounted
<1> HIDE DEF T, Added
<1>5. IsFiniteSet(Added) /\ Cardinality(Added) <= Cardinality(T)
    BY <1>2, <1>4, FS_Subset
<1>6. Cardinality(Added) \in Nat /\ Cardinality(T) \in Nat
    BY <1>4, <1>5, FS_CardinalityType
<1>7. Cardinality(Added) <= NumberToQueue(r, k)
    BY <1>3, <1>4, <1>5, <1>6
<1> QED
    BY <1>5, <1>6, <1>7 DEF Added

\* A call keeps to its target: what it adds makes up for the usable profiles that
\* are missing, and for a settled key the good ones are among the usable.
LEMMA TargetQueued ==
    ASSUME TypeInv, QueueInv, TargetKept, NEW r \in Requests, QueueBenchmarks(r)
    PROVE  TargetKept'
<1> DEFINE new == NewTasks(r)
           pause == Pause(r, new)
<1>1. /\ requests < MaxRequests /\ requests' = requests + 1
      /\ queue' = queue \cup new \cup pause
      /\ goal' = [k \in Key |-> IF k \in Asked(r) /\ r.target > goal[k] THEN r.target ELSE goal[k]]
      /\ exact' = {k \in exact :
                      k \in Asked(r) => r.target # NoTarget /\ Once(r, k) /\ Settled(k)}
      /\ UNCHANGED <<current, row, closed, log, left, repeated>>
    BY DEF QueueBenchmarks, aVars
<1> SUFFICES ASSUME NEW k \in exact'
             PROVE  Cardinality(Met(k)') + Running(k)' + Cardinality(Waiting(k)') <= goal'[k]
    BY DEF TargetKept, Met
<1>2. k \in exact /\ k \in Key /\ k # NoKey
    BY <1>1, AnalysisAssumption DEF QueueInv, QueueTypeOK
<1>3. Met(k)' = Met(k) /\ Running(k)' = Running(k)
    BY <1>1, MetKept DEF Running
<1>4. Waiting(k)' = Waiting(k) \cup {t \in new : t.key = k}
  <2>1. \A t \in pause : t.key # k
      BY <1>1, <1>2, PauseType DEF QueueInv
  <2> QED
      BY <1>1, <2>1 DEF Waiting
<1>5. Cardinality(Met(k)) + Running(k) + Cardinality(Waiting(k)) <= goal[k]
    BY <1>2 DEF TargetKept, Met
<1>6. goal[k] \in Nat
    BY <1>2 DEF QueueInv, QueueTypeOK
<1>7. CASE k \notin Asked(r)
  <2>1. goal'[k] = goal[k]
      BY <1>1, <1>2, <1>7
  <2>2. {t \in new : t.key = k} = {}
    <3> SUFFICES ASSUME NEW t \in new PROVE t.key # k
        OBVIOUS
    <3>1. PICK j \in DOMAIN CombinationsOf[r] :
              \E i \in 1 .. NumberToQueue(r, CombinationsOf[r][j]) : t = Task(r, j, i)
        BY DEF NewTasks
    <3>2. t.key = CombinationsOf[r][j]
        BY <3>1 DEF Task
    <3> QED
        BY <1>7, <3>2 DEF Asked
  <2> QED
      BY <1>3, <1>4, <1>5, <2>1, <2>2
<1>8. CASE k \in Asked(r)
  <2>1. r.target # NoTarget /\ Once(r, k) /\ Settled(k)
      BY <1>1, <1>8
  <2> DEFINE g == Cardinality(Met(k))
             u == Cardinality(Usable(k))
             n == NumberToQueue(r, k)
             w == Cardinality({t \in new : t.key = k})
  <2>2. w \in Nat /\ n \in Nat /\ w <= n
      BY <1>8, <2>1, AddedOnce, NumberType
  <2>3. g \in Nat /\ u \in Nat /\ g <= u
    <3>1. Met(k) \in SUBSET Usable(k)
        BY <2>1 DEF Settled, Met, Counted
    <3>2. IsFiniteSet(Usable(k)) /\ u \in Nat
        BY UsableFinite
    <3>3. g <= u
        BY <3>1, <3>2, FS_Subset
    <3> QED
        BY <3>2, <3>3, CountsFinite DEF QueueInv
  <2>4. r.target \in Nat
      BY <2>1, RequestType
  <2>5. n = IF r.target > u THEN r.target - u ELSE 0
      BY <2>1 DEF NumberToQueue, Most
  <2>6. goal'[k] = IF r.target > goal[k] THEN r.target ELSE goal[k]
      BY <1>1, <1>2, <1>8
  <2>7. Waiting(k) = {} /\ Running(k) = 0
      BY <2>1 DEF Settled
  <2>8. Cardinality(Waiting(k)') = w /\ Cardinality(Waiting(k)) = 0
      BY <1>4, <2>7, FS_EmptySet
  <2>9. g <= goal[k]
      BY <1>5, <2>3, <2>7, <2>8
  <2>10. Cardinality(Met(k)') = g /\ Running(k)' = 0
      BY <1>3, <2>7
  <2> HIDE DEF g, u, n, w, new, pause
  <2>11. g + w <= goal'[k]
      BY <1>6, <2>2, <2>3, <2>4, <2>5, <2>6, <2>9
  <2> QED
      BY <2>2, <2>3, <2>8, <2>10, <2>11
<1> QED
    BY <1>7, <1>8

\* The sum that the target bounds.
Total(k) == Cardinality(Met(k)) + Running(k) + Cardinality(Waiting(k))

\* A step that begins no call keeps to the target if it adds to no sum.
LEMMA TargetKeptBy ==
    ASSUME TypeInv, QueueInv, TargetKept, UNCHANGED <<goal, exact>>,
           \A k \in Key : Total(k)' <= Total(k) /\ Total(k)' \in Int
    PROVE  TargetKept'
<1> SUFFICES ASSUME NEW k \in exact PROVE Total(k)' <= goal[k]
    BY DEF TargetKept, Total, Met
<1>1. k \in Key /\ goal[k] \in Nat
    BY DEF QueueInv, QueueTypeOK
<1>2. Total(k) <= goal[k]
    BY DEF TargetKept, Total, Met
<1>3. Total(k) \in Int
    BY CountsFinite DEF Total, QueueInv
<1> QED
    BY <1>1, <1>2, <1>3

\* A task that begins leaves the queue, to run or to fail.
LEMMA TargetBegun ==
    ASSUME TypeInv, QueueInv, NEW t \in queue, queue' = queue \ {t}, current = NoTask,
           current' = NoTask \/ (current' # NoTask /\ current'.key = t.key),
           NEW k, Met(k)' = Met(k)
    PROVE  Total(k)' <= Total(k) /\ Total(k)' \in Int
<1>1. Running(k) = 0
    BY DEF Running
<1>2. IsFiniteSet(Waiting(k)) /\ Cardinality(Waiting(k)) \in Nat /\ Cardinality(Met(k)) \in Nat
    BY CountsFinite DEF QueueInv
<1>3. Waiting(k)' = Waiting(k) \ {t}
    BY DEF Waiting
<1>4. CASE t.key = k
  <2>1. t \in Waiting(k)
      BY <1>4 DEF Waiting
  <2>2. Cardinality(Waiting(k)') = Cardinality(Waiting(k)) - 1
      BY <1>2, <1>3, <2>1, FS_RemoveElement
  <2>3. Running(k)' \in {0, 1}
      BY DEF Running
  <2> QED
      BY <1>1, <1>2, <2>2, <2>3 DEF Total
<1>5. CASE t.key # k
  <2>1. Waiting(k)' = Waiting(k)
      BY <1>3, <1>5 DEF Waiting
  <2>2. Running(k)' = 0
      BY <1>5 DEF Running
  <2> QED
      BY <1>1, <1>2, <2>1, <2>2 DEF Total
<1> QED
    BY <1>4, <1>5

\* A profile that is closed may become one that counts for its key, no other one.
LEMMA MetClosed ==
    ASSUME TypeInv, NEW p \in Profile \ closed, Close(p), closed \cup left \subseteq Profile,
           left' \subseteq left, repeated' = repeated, NEW k
    PROVE  Met(k)' \subseteq Met(k) \cup {q \in {p} : row[p].key = k}
<1>1. /\ closed' = closed \cup {p}
      /\ \A q \in Profile : row'[q].key = row[q].key
      /\ \A q \in Profile \ {p} : log'[q] = log[q]
    BY DEF Close, NoRow, TypeInv, ATypeOK
<1>2. \A q \in closed : Good(q)' <=> Good(q)
    BY <1>1, SameGood
<1> QED
    BY <1>1, <1>2 DEF Met, Counted, GoodProfiles, LeftOf

\* The task that runs is over, and for its key there is at most one more profile
\* that counts.
LEMMA TargetEnded ==
    ASSUME TypeInv, QueueInv, TargetKept, UNCHANGED <<goal, exact>>,
           current # NoTask, current' = NoTask, NEW x,
           \A k : Waiting(k)' = Waiting(k),
           \A k : Met(k)' \subseteq Met(k) \cup {p \in {x} : current.key = k}
    PROVE  TargetKept'
<1>1. ASSUME NEW k \in Key PROVE Total(k)' <= Total(k) /\ Total(k)' \in Int
  <2>1. IsFiniteSet(Met(k)) /\ Cardinality(Met(k)) \in Nat /\ Cardinality(Waiting(k)) \in Nat
      BY CountsFinite DEF QueueInv
  <2>2. Waiting(k)' = Waiting(k) /\ Running(k)' = 0
      BY DEF Running
  <2>3. CASE current.key = k
    <3>1. IsFiniteSet(Met(k) \cup {x}) /\ Cardinality(Met(k) \cup {x}) \in
              {Cardinality(Met(k)), Cardinality(Met(k)) + 1}
        BY <2>1, FS_AddElement
    <3>2. Met(k)' \subseteq Met(k) \cup {x}
        OBVIOUS
    <3>3. IsFiniteSet(Met(k)') /\ Cardinality(Met(k)') <= Cardinality(Met(k) \cup {x})
        BY <3>1, <3>2, FS_Subset
    <3>4. Cardinality(Met(k)') \in Nat
        BY <3>3, FS_CardinalityType
    <3>5. Running(k) = 1
        BY <2>3 DEF Running
    <3> QED
        BY <2>1, <2>2, <3>1, <3>3, <3>4, <3>5 DEF Total
  <2>4. CASE current.key # k
    <3>1. Met(k)' \subseteq Met(k)
        BY <2>4
    <3>2. IsFiniteSet(Met(k)') /\ Cardinality(Met(k)') <= Cardinality(Met(k))
        BY <2>1, <3>1, FS_Subset
    <3>3. Cardinality(Met(k)') \in Nat
        BY <3>2, FS_CardinalityType
    <3>4. Running(k) = 0
        BY <2>4 DEF Running
    <3> QED
        BY <2>1, <2>2, <3>2, <3>3, <3>4 DEF Total
  <2> QED
      BY <2>3, <2>4
<1> QED
    BY <1>1, TargetKeptBy

\* The task that runs is over, or back in the queue.
LEMMA TargetReturned ==
    ASSUME TypeInv, QueueInv, TargetKept, UNCHANGED <<goal, exact>>,
           current # NoTask, current' = NoTask, queue' \in {queue, queue \cup {current}},
           \A k : Met(k)' = Met(k)
    PROVE  TargetKept'
<1>1. ASSUME NEW k \in Key PROVE Total(k)' <= Total(k) /\ Total(k)' \in Int
  <2>1. /\ IsFiniteSet(Waiting(k)) /\ Cardinality(Waiting(k)) \in Nat
        /\ Cardinality(Met(k)) \in Nat
      BY CountsFinite DEF QueueInv
  <2>2. Running(k)' = 0
      BY DEF Running
  <2>3. CASE current.key = k
    <3>1. Waiting(k)' \in {Waiting(k), Waiting(k) \cup {current}}
        BY <2>3 DEF Waiting
    <3>2. Cardinality(Waiting(k) \cup {current}) \in {Cardinality(Waiting(k)), Cardinality(Waiting(k)) + 1}
        BY <2>1, FS_AddElement
    <3>3. Cardinality(Waiting(k)') \in {Cardinality(Waiting(k)), Cardinality(Waiting(k)) + 1}
        BY <3>1, <3>2, Zenon
    <3>4. Running(k) = 1
        BY <2>3 DEF Running
    <3> QED
        BY <2>1, <2>2, <3>3, <3>4 DEF Total
  <2>4. CASE current.key # k
    <3>1. Waiting(k)' = Waiting(k)
        BY <2>4 DEF Waiting
    <3>2. Running(k) = 0
        BY <2>4 DEF Running
    <3> QED
        BY <2>1, <2>2, <3>1, <3>2 DEF Total
  <2> QED
      BY <2>3, <2>4
<1> QED
    BY <1>1, TargetKeptBy

LEMMA NextTarget ==
    TypeInv /\ QueueInv /\ TargetKept /\ [Next]_vars => TargetKept'
<1> SUFFICES ASSUME TypeInv, QueueInv, TargetKept, [Next]_vars PROVE TargetKept'
    OBVIOUS
<1>1. ASSUME NEW r \in Requests, QueueBenchmarks(r) PROVE TargetKept'
    BY <1>1, TargetQueued
<1>2. ASSUME NEW t \in queue, RunNext(t) PROVE TargetKept'
  <2>1. /\ queue' = queue \ {t} /\ current = NoTask /\ UNCHANGED <<goal, exact>>
        /\ Create(profile', t.key) /\ current' = [t EXCEPT !.priority = RunPriority]
      BY <1>2 DEF RunNext, Begin
  <2>2. t \in Tasks
      BY DEF QueueInv, QueueTypeOK
  <2>3. current' # NoTask /\ current'.key = t.key
      BY <2>1, <2>2, StartedType, CampaignAssumption
  <2>4. profile' \notin closed \cup left /\ closed \cup left \subseteq Profile
      BY <2>1 DEF Create, NoRow, QueueInv, LinkInv, TypeInv, ATypeOK
  <2>5. \A p \in closed \cup left : row'[p].key = row[p].key /\ log'[p] = log[p]
      BY <2>1, <2>4 DEF Create, TypeInv, ATypeOK
  <2>6. UNCHANGED <<closed, left, repeated>>
      BY <1>2 DEF RunNext, Begin, Create
  <2>7. \A k : Met(k)' = Met(k)
      BY <2>5, <2>6, MetKept
  <2>8. \A k \in Key : Total(k)' <= Total(k) /\ Total(k)' \in Int
      BY <2>1, <2>3, <2>7, TargetBegun
  <2> QED
      BY <2>1, <2>8, TargetKeptBy
<1>3. ASSUME NEW t \in queue, FailNext(t) \/ PauseEnds(t) PROVE TargetKept'
  <2>1. /\ queue' = queue \ {t} /\ current = NoTask /\ current' = NoTask
        /\ UNCHANGED <<goal, exact, row, log, closed, left, repeated>>
      BY <1>3 DEF FailNext, PauseEnds, Begin, LoseOrchestrator, aVars
  <2>2. \A k : Met(k)' = Met(k)
      BY <2>1, MetKept
  <2>3. \A k \in Key : Total(k)' <= Total(k) /\ Total(k)' \in Int
      BY <2>1, <2>2, TargetBegun
  <2> QED
      BY <2>1, <2>3, TargetKeptBy
<1>4. ASSUME TaskEnds PROVE TargetKept'
  <2>1. /\ current # NoTask /\ current' = NoTask /\ Close(profile)
        /\ UNCHANGED <<queue, left, goal, exact, repeated>>
      BY <1>4 DEF TaskEnds
  <2>2. /\ profile \in Profile \ (closed \cup left) /\ row[profile].key = current.key
        /\ closed \cup left \subseteq Profile
      BY <2>1 DEF QueueInv, LinkInv, TypeInv, ATypeOK
  <2>3. \A k : Met(k)' \subseteq Met(k) \cup {p \in {profile} : current.key = k}
      BY <2>1, <2>2, MetClosed
  <2>4. \A k : Waiting(k)' = Waiting(k)
      BY <2>1 DEF Waiting
  <2> QED
      BY <2>1, <2>3, <2>4, TargetEnded
<1>5. ASSUME TaskIsLost PROVE TargetKept'
  <2>1. /\ current # NoTask /\ current' = NoTask /\ queue' \in {queue, queue \cup {current}}
        /\ UNCHANGED <<goal, exact, row, log, closed, left, repeated>>
      BY <1>5 DEF TaskIsLost, LoseOrchestrator
  <2>2. \A k : Met(k)' = Met(k)
      BY <2>1, MetKept
  <2> QED
      BY <2>1, <2>2, TargetReturned
<1>7. ASSUME OrchestratorIsLeft(FALSE) PROVE TargetKept'
  <2>1. /\ current # NoTask /\ current' = NoTask /\ left' = left \cup {profile}
        /\ UNCHANGED <<queue, goal, exact, row, log, closed, repeated>>
      BY <1>7 DEF OrchestratorIsLeft, LoseOrchestrator
  <2>2. closed \subseteq Profile /\ row[profile].key = current.key
      BY <2>1 DEF TypeInv, ATypeOK, QueueInv, LinkInv
  <2>3. \A p \in closed : Good(p)' <=> Good(p)
      BY <2>1, <2>2, SameGood
  <2>4. \A k : Met(k)' \subseteq Met(k) \cup {p \in {profile} : current.key = k}
      BY <2>1, <2>2, <2>3 DEF Met, Counted, GoodProfiles, LeftOf
  <2>5. \A k : Waiting(k)' = Waiting(k)
      BY <2>1 DEF Waiting
  <2> QED
      BY <2>1, <2>4, <2>5, TargetEnded
<1>8. ASSUME OrchestratorIsLeft(TRUE) PROVE TargetKept'
  <2>1. /\ current # NoTask /\ current' = NoTask /\ queue' = queue \cup {current}
        /\ left' = left \cup {profile} /\ repeated' = repeated \cup {profile}
        /\ UNCHANGED <<goal, exact, row, log, closed>>
      BY <1>8 DEF OrchestratorIsLeft, LoseOrchestrator
  <2>2. closed \subseteq Profile /\ profile \notin closed \cup left
      BY <2>1 DEF TypeInv, ATypeOK, QueueInv, LinkInv
  <2>3. \A p \in closed : Good(p)' <=> Good(p)
      BY <2>1, <2>2, SameGood
  <2>4. \A k : Met(k)' = Met(k)
      BY <2>1, <2>2, <2>3 DEF Met, Counted, GoodProfiles, LeftOf
  <2> QED
      BY <2>1, <2>4, TargetReturned
<1>9. ASSUME NEW p \in Profile, LeftEnds(p) PROVE TargetKept'
  <2>1. /\ p \in left /\ left' = left \ {p}
        /\ Close(p) \/ UNCHANGED <<row, log, closed>>
        /\ UNCHANGED <<queue, current, goal, exact, repeated>>
      BY <1>9 DEF LeftEnds, aVars
  <2>2. closed \cup left \subseteq Profile /\ p \notin closed
      BY <2>1 DEF QueueInv, LinkInv, TypeInv, ATypeOK
  <2>3. \A k : Met(k)' \subseteq Met(k)
    <3>1. CASE Close(p)
      <4>1. \A k : Met(k)' \subseteq Met(k) \cup {q \in {p} : row[p].key = k}
          BY <2>1, <2>2, <3>1, MetClosed
      <4>2. \A k : p \in Met(k)' /\ row[p].key = k => p \in Met(k)
          BY <2>1 DEF Met, Counted, LeftOf
      <4> QED
          BY <4>1, <4>2
    <3>2. CASE UNCHANGED <<row, log, closed>>
      <4>1. \A q \in closed : Good(q)' <=> Good(q)
          BY <2>2, <3>2, SameGood
      <4> QED
          BY <2>1, <3>2, <4>1 DEF Met, Counted, GoodProfiles, LeftOf
    <3> QED
        BY <2>1, <3>1, <3>2
  <2>4. ASSUME NEW k \in Key PROVE Total(k)' <= Total(k) /\ Total(k)' \in Int
    <3>1. IsFiniteSet(Met(k)) /\ Cardinality(Met(k)) \in Nat /\ Cardinality(Waiting(k)) \in Nat
          /\ Running(k) \in {0, 1}
        BY CountsFinite DEF QueueInv
    <3>2. Waiting(k)' = Waiting(k) /\ Running(k)' = Running(k)
        BY <2>1 DEF Waiting, Running
    <3>3. Cardinality(Met(k)') <= Cardinality(Met(k)) /\ Cardinality(Met(k)') \in Nat
        BY <2>3, <3>1, FS_Subset, FS_CardinalityType
    <3> QED
        BY <3>1, <3>2, <3>3 DEF Total
  <2> QED
      BY <2>1, <2>4, TargetKeptBy
<1>6. CASE Analysing \/ UNCHANGED vars
  <2>1. /\ UNCHANGED <<queue, current, goal, exact, closed, left, repeated>>
        /\ \A p \in Profile : row'[p].key = row[p].key /\ log'[p] = log[p]
      BY <1>6, AnalysisKeepsKeys DEF Analysing, queueVars, vars, aVars
  <2>2. \A p \in closed \cup left : row'[p].key = row[p].key /\ log'[p] = log[p]
      BY <2>1 DEF TypeInv, ATypeOK, QueueInv, LinkInv
  <2>3. \A k : Met(k)' = Met(k)
      BY <2>1, <2>2, MetKept
  <2>4. \A k : Total(k)' = Total(k)
      BY <2>1, <2>3 DEF Total, Waiting, Running
  <2>5. \A k : Total(k) \in Int
      BY CountsFinite DEF Total, QueueInv
  <2> QED
      BY <2>1, <2>4, <2>5, TargetKeptBy
<1> QED
    BY <1>1, <1>2, <1>3, <1>4, <1>5, <1>6, <1>7, <1>8, <1>9 DEF Next, Queueing, Scheduling

\* "Queues as many as necessary to reach the target count": for a key whose calls all
\* have a target, name it once and are made when the results of the earlier ones
\* are in, there are never more good profiles, orchestrators without a task, running
\* and waiting tasks together than the highest target, through all failures, losses
\* and repeated analyses, but for the profiles of orchestrators that went on while
\* their task was taken up again.
THEOREM TargetIsKept == Spec => []TargetKept
<1>1. Init => CampaignInv /\ TargetKept
  <2> SUFFICES ASSUME Init PROVE TargetKept
      BY InitCampaign
  <2>1. ASSUME NEW k \in Key
        PROVE  /\ Counted(k) \ repeated = {} /\ Running(k) = 0
               /\ Waiting(k) = {} /\ goal[k] = 0
      BY DEF Init, AInit, Counted, GoodProfiles, LeftOf, Running, Waiting
  <2>2. Cardinality({}) = 0
      BY FS_EmptySet
  <2>3. exact = Key
      BY DEF Init
  <2> QED
      BY <2>1, <2>2, <2>3 DEF TargetKept
<1>2. CampaignInv /\ TargetKept /\ [Next]_vars => CampaignInv' /\ TargetKept'
    BY NextCampaign, NextTarget DEF CampaignInv, AnalysisInv
<1> QED
    BY <1>1, <1>2, PTL DEF Spec
=============================================================================
