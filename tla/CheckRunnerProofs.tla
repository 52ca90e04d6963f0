------------------------- MODULE CheckRunnerProofs -------------------------
(***************************************************************************)
(* Proofs about CheckRunner, for any set of monitors and any bounds.       *)
(***************************************************************************)
EXTENDS CheckRunner, FiniteSetTheorems, TLAPS

\* Canceling goroutines changes nothing else about them.
LEMMA CanceledType ==
    ASSUME CTypeOK, NEW G
    PROVE  Canceled(G) \in [Gen -> Tasks]
BY DEF CTypeOK, Canceled, Tasks

LEMMA CTypeInit == CInit => CTypeOK
<1> SUFFICES ASSUME CInit PROVE CTypeOK
  OBVIOUS
<1>1. (CHOOSE m \in Monitor : TRUE) \in Monitor
  BY RunnerAssumption
<1>2. Unborn \in Tasks
  BY <1>1, RunnerAssumption DEF Unborn, Tasks
<1>3. goroutine \in [Gen -> Tasks]
  BY <1>2 DEF CInit
<1>4. ch \in Seq(Result) /\ Len(ch) <= BufferSize
      /\ batch \in Seq(Result) /\ Len(batch) < BatchMax
  BY RunnerAssumption DEF CInit
<1>5. rows \in [Result -> Nat] /\ results \in 0 .. MaxResults
  BY RunnerAssumption DEF CInit
<1>6. /\ version \in [Monitor -> 1 .. MaxVersion]
      /\ fetched \in [Monitor -> 0 .. MaxVersion]
      /\ jobs \in [Monitor -> 0 .. MaxGen]
      /\ started \in 0 .. MaxGen
  BY RunnerAssumption DEF CInit
<1> QED BY <1>3, <1>4, <1>5, <1>6 DEF CInit, CTypeOK

\* The type of the variables one step leaves alone, part by part.
ConfigOK == version \in [Monitor -> 1 .. MaxVersion] /\ enabled \in SUBSET Monitor
SyncOK   == /\ sync \in {"idle", "reconcile", "exited"}
            /\ fetched \in [Monitor -> 0 .. MaxVersion]
            /\ todo \in SUBSET Monitor
TasksOK  == /\ jobs \in [Monitor -> 0 .. MaxGen]
            /\ goroutine \in [Gen -> Tasks]
            /\ started \in 0 .. MaxGen
PhaseOK  == /\ phase \in {"running", "stopping", "canceled", "closed", "stopped"}
            /\ ctxDone \in BOOLEAN
QueueOK  == /\ ch \in Seq(Result) /\ Len(ch) <= BufferSize
            /\ batch \in Seq(Result) /\ Len(batch) < BatchMax
SinkOK   == /\ rows \in [Result -> Nat]
            /\ lost \in SUBSET Result
            /\ results \in 0 .. MaxResults
            /\ writer \in {"loop", "done"}
            /\ panicked \in BOOLEAN
            /\ report \in [Monitor -> {"checked", "aborted"}]

LEMMA TypeParts ==
    CTypeOK <=> ConfigOK /\ SyncOK /\ TasksOK /\ PhaseOK /\ QueueOK /\ SinkOK
BY DEF CTypeOK, ConfigOK, SyncOK, TasksOK, PhaseOK, QueueOK, SinkOK

\* What an insert leaves of the rows and of the results given up.
LEMMA InsertType ==
    ASSUME SinkOK, NEW S \in SUBSET Result, Insert(S)
    PROVE  rows' \in [Result -> Nat] /\ lost' \in SUBSET Result
BY DEF SinkOK, Insert

LEMMA ContentsType ==
    ASSUME NEW s \in Seq(Result)
    PROVE  Contents(s) \in SUBSET Result
BY DEF Contents

LEMMA ConfigStep == CTypeOK /\ [CNext]_cvars => ConfigOK'
<1> SUFFICES ASSUME CTypeOK, [CNext]_cvars PROVE ConfigOK'
  OBVIOUS
<1>1. CASE UNCHANGED config
  BY <1>1 DEF config, ConfigOK, CTypeOK
<1>2. ASSUME NEW m \in Monitor, UpdateMonitor(m) PROVE ConfigOK'
  <2>1. MaxVersion \in Nat
    BY RunnerAssumption
  <2> QED BY <1>2, <2>1 DEF UpdateMonitor, ConfigOK, CTypeOK
<1> QED
  BY <1>1, <1>2
     DEF CNext, SyncStep, JobStep, WriterStep, StopStep, FetchActiveMonitors, reconcileJob,
         CancelInactive, SyncExits, runCheck, recordRegionCheck, JobTick, JobEnds, WriterReceives,
         WriterFlushes, WriterEnds, Shutdown, CancelJobs, CloseResults, StopReturns, cvars

LEMMA SyncTypeStep == CTypeOK /\ [CNext]_cvars => SyncOK'
<1> SUFFICES ASSUME CTypeOK, [CNext]_cvars PROVE SyncOK'
  OBVIOUS
<1>1. CASE UNCHANGED syncer
  BY <1>1 DEF syncer, SyncOK, CTypeOK
<1>2. CASE FetchActiveMonitors
  <2>1. MaxVersion \in Nat
    BY RunnerAssumption
  <2> QED BY <1>2, <2>1 DEF FetchActiveMonitors, SyncOK, CTypeOK
<1>3. ASSUME NEW m \in Monitor, reconcileJob(m) PROVE SyncOK'
  BY <1>3 DEF reconcileJob, SyncOK, CTypeOK
<1>4. CASE CancelInactive \/ SyncExits
  BY <1>4 DEF CancelInactive, SyncExits, SyncOK, CTypeOK
<1> QED
  BY <1>1, <1>2, <1>3, <1>4
     DEF CNext, SyncStep, JobStep, WriterStep, StopStep, UpdateMonitor, runCheck, recordRegionCheck, JobTick,
         JobEnds, WriterReceives, WriterFlushes, WriterEnds, Shutdown, CancelJobs,
         CloseResults, StopReturns, cvars

LEMMA TasksTypeStep == CTypeOK /\ [CNext]_cvars => TasksOK'
<1> SUFFICES ASSUME CTypeOK, [CNext]_cvars PROVE TasksOK'
  OBVIOUS
<1>0. MaxGen \in Nat
  BY RunnerAssumption
<1>1. CASE UNCHANGED tasks
  BY <1>1 DEF tasks, TasksOK, CTypeOK
<1>2. ASSUME NEW m \in Monitor, NEW G, Starts(m, G) PROVE TasksOK'
  <2>1. started + 1 \in 1 .. MaxGen
    BY <1>0, <1>2 DEF Starts, CTypeOK
  <2>2. Task(m, fetched[m], ctxDone) \in Tasks
    BY DEF Task, Tasks, CTypeOK
  <2>3. goroutine' \in [Gen -> Tasks]
    BY <1>2, <2>1, <2>2, CanceledType DEF Starts, Gen
  <2>4. jobs' \in [Monitor -> 0 .. MaxGen] /\ started' \in 0 .. MaxGen
    BY <1>0, <1>2, <2>1 DEF Starts, CTypeOK
  <2> QED BY <2>3, <2>4 DEF TasksOK
<1>3. ASSUME NEW m \in Monitor, reconcileJob(m) PROVE TasksOK'
  BY <1>1, <1>2, <1>3 DEF reconcileJob
<1>4. CASE CancelInactive
  <2>1. jobs' \in [Monitor -> 0 .. MaxGen]
    BY <1>0, <1>4 DEF CancelInactive, CTypeOK
  <2>2. goroutine' \in [Gen -> Tasks]
    BY <1>4, CanceledType DEF CancelInactive
  <2> QED BY <1>4, <2>1, <2>2 DEF CancelInactive, TasksOK, CTypeOK
<1>5. CASE CancelJobs
  <2>1. jobs' \in [Monitor -> 0 .. MaxGen]
    BY <1>0, <1>5 DEF CancelJobs, CTypeOK
  <2>2. goroutine' \in [Gen -> Tasks]
    BY <1>5, CanceledType DEF CancelJobs
  <2> QED BY <1>5, <2>1, <2>2 DEF CancelJobs, TasksOK, CTypeOK
<1>6. CASE Shutdown
  BY <1>6, CanceledType DEF Shutdown, TasksOK, CTypeOK
<1>7. ASSUME NEW g \in Gen, JobStep(g) PROVE TasksOK'
  <2>1. ASSUME NEW l \in {"check", "wait", "done"}, Moves(g, l)
        PROVE  goroutine' \in [Gen -> Tasks]
    BY <2>1 DEF Moves, Tasks, CTypeOK
  <2>2. ASSUME NEW l \in {"record", "wait"}, NEW b \in BOOLEAN,
               Turns(g, l, b)
        PROVE  goroutine' \in [Gen -> Tasks]
    <3> DEFINE x == [goroutine[g] EXCEPT !.at = l, !.aborted = b]
    <3>1. x \in Tasks
      BY DEF Tasks, CTypeOK
    <3>2. goroutine' = [goroutine EXCEPT ![g] = x]
      BY <2>2 DEF Turns
    <3> HIDE DEF x
    <3> QED BY <3>1, <3>2 DEF CTypeOK
  <2>3. goroutine[g].canceled \in BOOLEAN
    BY DEF Tasks, CTypeOK
  <2> QED BY <1>7, <2>1, <2>2, <2>3 DEF JobStep, runCheck, recordRegionCheck, JobTick, JobEnds, TasksOK, CTypeOK
<1> QED
  BY <1>1, <1>3, <1>4, <1>5, <1>6, <1>7
     DEF CNext, SyncStep, WriterStep, StopStep, UpdateMonitor, FetchActiveMonitors,
         SyncExits, WriterReceives, WriterFlushes, WriterEnds, CloseResults, StopReturns,
         cvars

LEMMA PhaseTypeStep == CTypeOK /\ [CNext]_cvars => PhaseOK'
<1> SUFFICES ASSUME CTypeOK, [CNext]_cvars PROVE PhaseOK'
  OBVIOUS
<1>1. CASE UNCHANGED <<phase, ctxDone>>
  BY <1>1 DEF PhaseOK, CTypeOK
<1>2. CASE StopStep
  BY <1>2, RunnerAssumption
     DEF StopStep, Shutdown, CancelJobs, CloseResults, StopReturns, PhaseOK, CTypeOK
<1> QED
  BY <1>1, <1>2
     DEF CNext, SyncStep, JobStep, WriterStep, UpdateMonitor, FetchActiveMonitors,
         reconcileJob, CancelInactive, SyncExits, runCheck, recordRegionCheck, JobTick, JobEnds,
         WriterReceives, WriterFlushes, WriterEnds, cvars

LEMMA QueueSinkStep == CTypeOK /\ [CNext]_cvars => QueueOK' /\ SinkOK'
<1> SUFFICES ASSUME CTypeOK, [CNext]_cvars PROVE QueueOK' /\ SinkOK'
  OBVIOUS
<1>0. /\ BufferSize \in Nat /\ BatchMax \in Nat \ {0} /\ MaxResults \in Nat
      /\ QueueOK /\ SinkOK
      /\ <<>> \in Seq(Result) /\ Len(<<>>) = 0
      /\ Len(ch) \in Nat /\ Len(batch) \in Nat
  BY RunnerAssumption, TypeParts DEF QueueOK
<1>1. CASE UNCHANGED sink
  BY <1>0, <1>1 DEF sink, QueueOK, SinkOK
<1>2. ASSUME NEW g \in Gen, runCheck(g) PROVE QueueOK' /\ SinkOK'
  <2>1. results + 1 \in Result /\ results' = results + 1 /\ {results + 1} \in SUBSET Result
        /\ UNCHANGED <<batch, writer, report>>
    BY <1>0, <1>2 DEF runCheck, SinkOK, Result
  <2>2. CASE UNCHANGED <<ch, rows, lost>> /\ panicked' = TRUE
    BY <1>0, <2>1, <2>2 DEF QueueOK, SinkOK, Result
  <2>3. CASE Len(ch) < BufferSize /\ ch' = Append(ch, results + 1)
             /\ UNCHANGED <<rows, lost, panicked>>
    <3>1. ch' \in Seq(Result) /\ Len(ch') = Len(ch) + 1
      BY <1>0, <2>1, <2>3 DEF QueueOK
    <3> QED BY <1>0, <2>1, <2>3, <3>1 DEF QueueOK, SinkOK, Result
  <2>4. CASE /\ \/ lost' = lost \cup {results + 1} /\ UNCHANGED rows
                \/ Insert({results + 1})
             /\ UNCHANGED <<ch, panicked>>
    <3>1. rows' \in [Result -> Nat] /\ lost' \in SUBSET Result
      BY <1>0, <2>1, <2>4, InsertType DEF SinkOK
    <3> QED BY <1>0, <2>1, <2>4, <3>1 DEF QueueOK, SinkOK, Result
  <2> QED BY <1>2, <2>2, <2>3, <2>4 DEF runCheck
<1>3. ASSUME NEW g \in Gen, recordRegionCheck(g) PROVE QueueOK' /\ SinkOK'
  <2>1. goroutine[g].monitor \in Monitor
    BY DEF CTypeOK, Tasks
  <2>2. report' \in [Monitor -> {"checked", "aborted"}]
    BY <1>0, <1>3, <2>1 DEF recordRegionCheck, SinkOK
  <2> QED BY <1>0, <1>3, <2>2 DEF recordRegionCheck, QueueOK, SinkOK
<1>4. CASE WriterReceives
  <2>1. /\ Head(ch) \in Result /\ Tail(ch) \in Seq(Result) /\ Len(Tail(ch)) = Len(ch) - 1
        /\ ch' = Tail(ch)
        /\ UNCHANGED <<results, writer, panicked, report>>
    BY <1>0, <1>4 DEF WriterReceives, QueueOK
  <2>2. CASE batch' = <<>> /\ Insert(Contents(batch) \cup {Head(ch)})
    <3>1. Contents(batch) \cup {Head(ch)} \in SUBSET Result
      BY <1>0, <2>1, ContentsType DEF QueueOK
    <3>2. rows' \in [Result -> Nat] /\ lost' \in SUBSET Result
      BY <1>0, <2>2, <3>1, InsertType
    <3> QED BY <1>0, <2>1, <2>2, <3>2 DEF QueueOK, SinkOK
  <2>3. CASE Len(batch) + 1 < BatchMax /\ batch' = Append(batch, Head(ch))
             /\ UNCHANGED <<rows, lost>>
    <3>1. batch' \in Seq(Result) /\ Len(batch') = Len(batch) + 1
      BY <1>0, <2>1, <2>3 DEF QueueOK
    <3> QED BY <1>0, <2>1, <2>3, <3>1 DEF QueueOK, SinkOK
  <2> QED BY <1>0, <1>4, <2>2, <2>3 DEF WriterReceives
<1>5. CASE WriterFlushes \/ WriterEnds
  <2>1. Contents(batch) \in SUBSET Result
    BY <1>0, ContentsType DEF QueueOK
  <2>2. rows' \in [Result -> Nat] /\ lost' \in SUBSET Result
    BY <1>0, <1>5, <2>1, InsertType DEF WriterFlushes, WriterEnds
  <2>3. batch' = <<>> /\ UNCHANGED <<ch, results, panicked, report>>
        /\ (writer' = writer \/ writer' = "done")
    BY <1>5 DEF WriterFlushes, WriterEnds
  <2>4. QueueOK'
    BY <1>0, <2>3 DEF QueueOK
  <2>5. SinkOK'
    BY <1>0, <2>2, <2>3 DEF SinkOK
  <2> QED BY <2>4, <2>5
<1> QED
  BY <1>1, <1>2, <1>3, <1>4, <1>5
     DEF CNext, SyncStep, JobStep, WriterStep, StopStep, UpdateMonitor,
         FetchActiveMonitors, reconcileJob, CancelInactive, SyncExits, JobTick, JobEnds,
         Shutdown, CancelJobs, CloseResults, StopReturns, cvars

\* The channel and the batch stay within their capacities, and every entry of
\* the job map names a goroutine (checkRunner, resultWriter).
THEOREM CTypeCorrect == CSpec => []CTypeOK
<1>1. CInit => CTypeOK
  BY CTypeInit
<1>2. CTypeOK /\ [CNext]_cvars => CTypeOK'
  <2> SUFFICES ASSUME CTypeOK, [CNext]_cvars PROVE CTypeOK'
    OBVIOUS
  <2>1. ConfigOK' /\ SyncOK' /\ TasksOK' /\ PhaseOK' /\ QueueOK' /\ SinkOK'
    BY ConfigStep, SyncTypeStep, TasksTypeStep, PhaseTypeStep, QueueSinkStep
  <2> QED BY <2>1 DEF CTypeOK, ConfigOK, SyncOK, TasksOK, PhaseOK, QueueOK, SinkOK
<1> QED BY <1>1, <1>2, PTL DEF CSpec

-----------------------------------------------------------------------------
\* A canceled goroutine is not alive, and canceling revives none.
LEMMA CanceledDead ==
    ASSUME CTypeOK, NEW G, NEW g \in Gen
    PROVE  /\ Canceled(G)[g].monitor = goroutine[g].monitor
           /\ Canceled(G)[g].at = goroutine[g].at
           /\ g \in G => Canceled(G)[g].canceled = TRUE
           /\ ~Canceled(G)[g].canceled => ~goroutine[g].canceled
BY DEF CTypeOK, Canceled, Tasks

LEMMA CancellableStep == CTypeOK /\ Cancellable /\ [CNext]_cvars => Cancellable'
<1> SUFFICES ASSUME CTypeOK, Cancellable, [CNext]_cvars,
                    NEW g \in Gen, Alive(g)'
             PROVE  jobs'[goroutine'[g].monitor] = g
  BY DEF Cancellable, Gen
<1>0. goroutine'[g].at # "done" /\ goroutine'[g].canceled # TRUE
  BY DEF Alive
<1>a. ASSUME Alive(g) PROVE jobs[goroutine[g].monitor] = g
  BY <1>a DEF Cancellable
<1>1. CASE UNCHANGED <<jobs, goroutine>>
  BY <1>1, <1>a DEF Alive
<1>2. ASSUME NEW m \in Monitor, Starts(m, {jobs[m]}) PROVE jobs'[goroutine'[g].monitor] = g
  <2>1. started + 1 \in Gen
    BY <1>2, RunnerAssumption DEF Starts, Gen, CTypeOK
  <2>2. Canceled({jobs[m]}) \in [Gen -> Tasks]
    BY CanceledType
  <2>3. CASE g = started + 1
    BY <1>2, <2>1, <2>2, <2>3 DEF Starts, Task, CTypeOK
  <2>4. CASE g # started + 1
    <3>1. goroutine'[g] = Canceled({jobs[m]})[g]
      BY <1>2, <2>1, <2>2, <2>4 DEF Starts
    <3>2. Alive(g) /\ g # jobs[m] /\ goroutine'[g].monitor = goroutine[g].monitor
      BY <1>0, <3>1, CanceledDead DEF Alive
    <3>3. jobs[goroutine[g].monitor] = g /\ goroutine[g].monitor # m
      BY <1>a, <3>2
    <3>4. goroutine[g].monitor \in Monitor
      BY DEF CTypeOK, Tasks
    <3> QED BY <1>2, <3>2, <3>3, <3>4 DEF Starts, CTypeOK
  <2> QED BY <2>3, <2>4
<1>3. ASSUME NEW m \in Monitor, reconcileJob(m) PROVE jobs'[goroutine'[g].monitor] = g
  BY <1>1, <1>2, <1>3 DEF reconcileJob, tasks
<1>4. CASE CancelInactive
  <2> DEFINE S == {n \in Monitor : fetched[n] = 0}
             G == {jobs[m] : m \in S}
  <2>1. goroutine'[g] = Canceled(G)[g]
    BY <1>4 DEF CancelInactive
  <2> HIDE DEF G
  <2>2. Alive(g) /\ g \notin G /\ goroutine'[g].monitor = goroutine[g].monitor
    BY <1>0, <2>1, CanceledDead DEF Alive
  <2>3. jobs[goroutine[g].monitor] = g /\ goroutine[g].monitor \in Monitor
    BY <1>a, <2>2 DEF CTypeOK, Tasks
  <2>4. goroutine[g].monitor \notin S
    BY <2>2, <2>3 DEF G
  <2> QED BY <1>4, <2>2, <2>3, <2>4 DEF CancelInactive
<1>5. CASE CancelJobs
  <2> DEFINE G == {jobs[m] : m \in Monitor}
  <2>1. goroutine'[g] = Canceled(G)[g]
    BY <1>5 DEF CancelJobs
  <2> HIDE DEF G
  <2>2. Alive(g) /\ g \notin G
    BY <1>0, <2>1, CanceledDead DEF Alive
  <2>3. jobs[goroutine[g].monitor] = g /\ goroutine[g].monitor \in Monitor
    BY <1>a, <2>2 DEF CTypeOK, Tasks
  <2> QED BY <2>2, <2>3 DEF G
<1>6. CASE Shutdown
  <2>1. UNCHANGED jobs /\ (goroutine' = goroutine \/ goroutine' = Canceled(Gen))
    BY <1>6 DEF Shutdown
  <2>2. CASE goroutine' = goroutine
    BY <1>1, <2>1, <2>2
  <2>3. CASE goroutine' = Canceled(Gen)
    BY <1>0, <2>3, CanceledDead
  <2> QED BY <2>1, <2>2, <2>3
<1>7. ASSUME NEW h \in Gen, JobStep(h) PROVE jobs'[goroutine'[g].monitor] = g
  <2>1. UNCHANGED jobs /\ goroutine[h].at # "done"
        /\ \E l \in {"check", "record", "wait", "done"} :
               \/ Moves(h, l)
               \/ \E b \in BOOLEAN : Turns(h, l, b)
    <3>1. goroutine[h].canceled \in BOOLEAN
      BY DEF Tasks, CTypeOK
    <3> QED BY <1>7, <3>1 DEF JobStep, runCheck, recordRegionCheck, JobTick, JobEnds
  <2>2. /\ goroutine'[g].monitor = goroutine[g].monitor
        /\ goroutine'[g].canceled = goroutine[g].canceled
        /\ g # h => goroutine'[g].at = goroutine[g].at
    <3>1. PICK l \in {"check", "record", "wait", "done"} :
              \/ Moves(h, l)
              \/ \E b \in BOOLEAN : Turns(h, l, b)
      BY <2>1
    <3>2. CASE Moves(h, l)
      BY <3>2 DEF Moves, CTypeOK, Tasks
    <3>3. CASE \E b \in BOOLEAN : Turns(h, l, b)
      <4>1. PICK b \in BOOLEAN : Turns(h, l, b)
        BY <3>3
      <4> DEFINE x == [goroutine[h] EXCEPT !.at = l, !.aborted = b]
      <4>2. x.monitor = goroutine[h].monitor /\ x.canceled = goroutine[h].canceled
        BY DEF CTypeOK, Tasks
      <4>3. goroutine' = [goroutine EXCEPT ![h] = x]
        BY <4>1 DEF Turns
      <4> HIDE DEF x
      <4> QED BY <4>2, <4>3 DEF CTypeOK
    <3> QED BY <3>1, <3>2, <3>3
  <2>3. Alive(g)
    BY <1>0, <2>1, <2>2 DEF Alive
  <2> QED BY <1>a, <2>1, <2>2, <2>3
<1> QED
  BY <1>1, <1>3, <1>4, <1>5, <1>6, <1>7
     DEF CNext, SyncStep, WriterStep, StopStep, UpdateMonitor, FetchActiveMonitors,
         SyncExits, WriterReceives, WriterFlushes, WriterEnds, CloseResults, StopReturns,
         cvars, tasks

\* No job escapes: at most one goroutine per monitor goes on checking, and
\* the job map names it.
THEOREM CancellableCorrect == CSpec => []Cancellable
<1>1. CInit => Cancellable
  BY DEF CInit, Cancellable, Alive, Unborn
<1>2. CTypeOK /\ Cancellable /\ [CNext]_cvars => Cancellable'
  BY CancellableStep
<1> QED BY <1>1, <1>2, CTypeCorrect, PTL DEF CSpec

-----------------------------------------------------------------------------
\* A check that returned canceled is recorded by a goroutine that still is.
AbortedCanceled == \A g \in Gen : goroutine[g].aborted => goroutine[g].canceled

LEMMA AbortedStep ==
    CTypeOK /\ AbortedCanceled /\ AbortedNeverCounts /\ [CNext]_cvars
        => AbortedCanceled' /\ AbortedNeverCounts'
<1> SUFFICES ASSUME CTypeOK, AbortedCanceled, AbortedNeverCounts, [CNext]_cvars
             PROVE  AbortedCanceled' /\ AbortedNeverCounts'
  OBVIOUS
<1>1. UNCHANGED goroutine => AbortedCanceled'
  BY DEF AbortedCanceled
<1>2. UNCHANGED report => AbortedNeverCounts'
  BY DEF AbortedNeverCounts
<1>3. ASSUME NEW G, goroutine' = Canceled(G) PROVE AbortedCanceled'
  BY <1>3 DEF Canceled, AbortedCanceled, CTypeOK, Tasks
<1>4. ASSUME NEW m \in Monitor, NEW G, Starts(m, G) PROVE AbortedCanceled'
  <2>1. started + 1 \in Gen
    BY <1>4, RunnerAssumption DEF Starts, Gen, CTypeOK
  <2>2. Canceled(G) \in [Gen -> Tasks]
    BY CanceledType
  <2>3. \A g \in Gen : Canceled(G)[g].aborted => Canceled(G)[g].canceled
    BY DEF Canceled, AbortedCanceled, CTypeOK, Tasks
  <2>4. ~Task(m, fetched[m], ctxDone).aborted
    BY DEF Task
  <2> QED BY <1>4, <2>1, <2>2, <2>3, <2>4 DEF Starts, AbortedCanceled
<1>5. ASSUME NEW g \in Gen, NEW l, NEW b, Turns(g, l, b), b => goroutine[g].canceled
      PROVE  AbortedCanceled'
  BY <1>5 DEF Turns, AbortedCanceled, CTypeOK, Tasks
<1>6. ASSUME NEW g \in Gen, NEW l, Moves(g, l) PROVE AbortedCanceled'
  BY <1>6 DEF Moves, AbortedCanceled, CTypeOK, Tasks
<1>7. ASSUME NEW g \in Gen, recordRegionCheck(g) PROVE AbortedCanceled' /\ AbortedNeverCounts'
  <2>1. AbortedCanceled'
    BY <1>5, <1>7 DEF recordRegionCheck
  <2>2. AbortedNeverCounts'
    <3> DEFINE m == goroutine[g].monitor
    <3>1. report' = report \/ report' = [report EXCEPT ![m] = "checked"]
      BY <1>7 DEF recordRegionCheck, AbortedCanceled
    <3>2. report \in [Monitor -> {"checked", "aborted"}]
      BY DEF CTypeOK
    <3> HIDE DEF m
    <3> QED BY <3>1, <3>2 DEF AbortedNeverCounts
  <2> QED BY <2>1, <2>2
<1>8. ASSUME NEW g \in Gen, runCheck(g) \/ JobTick(g) \/ JobEnds(g)
      PROVE  AbortedCanceled' /\ AbortedNeverCounts'
  <2>1. UNCHANGED report
    BY <1>8 DEF runCheck, JobTick, JobEnds, sink
  <2>2. CASE runCheck(g)
    BY <1>2, <1>5, <2>1, <2>2 DEF runCheck
  <2>3. CASE JobTick(g) \/ JobEnds(g)
    BY <1>2, <1>6, <2>1, <2>3 DEF JobTick, JobEnds
  <2> QED BY <1>8, <2>2, <2>3
<1>9. CASE \E m \in Monitor : reconcileJob(m)
  BY <1>1, <1>2, <1>4, <1>9 DEF reconcileJob, tasks, sink
<1>10. CASE CancelInactive \/ CancelJobs \/ Shutdown
  BY <1>1, <1>2, <1>3, <1>10 DEF CancelInactive, CancelJobs, Shutdown, sink
<1>11. CASE UNCHANGED <<goroutine, report>>
  BY <1>1, <1>2, <1>11
<1> QED
  BY <1>7, <1>8, <1>9, <1>10, <1>11
     DEF CNext, SyncStep, JobStep, WriterStep, StopStep, UpdateMonitor, FetchActiveMonitors,
         SyncExits, WriterReceives, WriterFlushes, WriterEnds, CloseResults, StopReturns,
         cvars, tasks, sink

\* Canceling a job, however it overlaps the check in flight and its report,
\* never makes a monitor look down to the quorum: the report goes with the
\* canceled context (runCheck, recordRegionCheck).
THEOREM AbortedNeverCountsCorrect == CSpec => []AbortedNeverCounts
<1>1. CInit => AbortedCanceled /\ AbortedNeverCounts
  BY DEF CInit, AbortedCanceled, AbortedNeverCounts, Unborn
<1>2. CTypeOK /\ AbortedCanceled /\ AbortedNeverCounts /\ [CNext]_cvars
          => AbortedCanceled' /\ AbortedNeverCounts'
  BY AbortedStep
<1> QED BY <1>1, <1>2, CTypeCorrect, PTL DEF CSpec
-----------------------------------------------------------------------------
(* Where the results are. *)

NoRepeats(s) == \A i, j \in 1 .. Len(s) : s[i] = s[j] => i = j

Inserted == {r \in Result : rows[r] = 1}

\* The results handed over so far: all, but for the one whose send panicked.
HandedOver == 1 .. (IF panicked THEN results - 1 ELSE results)

\* The channel, the batch, the table and the log share the results out among
\* them, and a writer that is done leaves none behind.
Places ==
    /\ rows \in [Result -> {0, 1}]
    /\ NoRepeats(ch) /\ NoRepeats(batch)
    /\ Contents(ch) \cap Contents(batch) = {}
    /\ (Contents(ch) \cup Contents(batch)) \cap (Inserted \cup lost) = {}
    /\ Inserted \cap lost = {}
    /\ Contents(ch) \cup Contents(batch) \cup Inserted \cup lost = HandedOver
    /\ writer = "done" => ch = <<>> /\ batch = <<>> /\ phase \in {"closed", "stopped"}

LEMMA ContentsEmpty == Contents(<<>>) = {} /\ NoRepeats(<<>>)
BY DEF Contents, NoRepeats

LEMMA ContentsAppend ==
    ASSUME NEW s \in Seq(Result), NEW x \in Result \ Contents(s), NoRepeats(s)
    PROVE  /\ Contents(Append(s, x)) = Contents(s) \cup {x}
           /\ NoRepeats(Append(s, x))
<1> DEFINE t == Append(s, x)
<1>1. /\ Len(s) \in Nat /\ Len(t) = Len(s) + 1 /\ t[Len(s) + 1] = x
      /\ \A k \in 1 .. Len(s) : t[k] = s[k]
  OBVIOUS
<1> HIDE DEF t
<1>2. 1 .. Len(t) = (1 .. Len(s)) \cup {Len(s) + 1}
  BY <1>1
<1>3. Contents(t) = Contents(s) \cup {x}
  BY <1>1, <1>2 DEF Contents
<1>4. NoRepeats(t)
  BY <1>1, <1>2 DEF NoRepeats, Contents
<1> QED BY <1>3, <1>4 DEF t

LEMMA ContentsTail ==
    ASSUME NEW s \in Seq(Result), s # <<>>, NoRepeats(s)
    PROVE  /\ Head(s) \in Result /\ Tail(s) \in Seq(Result)
           /\ Contents(s) = Contents(Tail(s)) \cup {Head(s)}
           /\ Head(s) \notin Contents(Tail(s)) /\ NoRepeats(Tail(s))
<1> DEFINE t == Tail(s)
<1>1. /\ Len(s) \in Nat \ {0} /\ Len(t) = Len(s) - 1 /\ Head(s) = s[1]
      /\ Head(s) \in Result /\ t \in Seq(Result)
      /\ \A k \in 1 .. Len(t) : t[k] = s[k + 1]
  OBVIOUS
<1> HIDE DEF t
<1>2. \A k \in 1 .. Len(t) : k + 1 \in 1 .. Len(s) /\ k + 1 # 1
  BY <1>1
<1>3. \A k \in 1 .. Len(s) : k # 1 => k - 1 \in 1 .. Len(t) /\ t[k - 1] = s[k]
  BY <1>1
<1>4. 1 \in 1 .. Len(s)
  BY <1>1
<1>5. Contents(s) = Contents(t) \cup {Head(s)}
  <2>1. Contents(t) \subseteq Contents(s)
    BY <1>1, <1>2 DEF Contents
  <2>2. \A k \in 1 .. Len(s) : s[k] = Head(s) \/ s[k] \in Contents(t)
    <3> SUFFICES ASSUME NEW k \in 1 .. Len(s), k # 1 PROVE s[k] \in Contents(t)
      BY <1>1
    <3>1. k - 1 \in 1 .. Len(t) /\ t[k - 1] = s[k]
      BY <1>3
    <3> QED BY <3>1 DEF Contents
  <2> QED BY <1>1, <1>4, <2>1, <2>2 DEF Contents
<1>6. Head(s) \notin Contents(t)
  BY <1>1, <1>2, <1>4 DEF Contents, NoRepeats
<1>7. NoRepeats(t)
  <2> SUFFICES ASSUME NEW i \in 1 .. Len(t), NEW j \in 1 .. Len(t), t[i] = t[j]
               PROVE  i = j
    BY DEF NoRepeats
  <2>1. s[i + 1] = s[j + 1] /\ i + 1 \in 1 .. Len(s) /\ j + 1 \in 1 .. Len(s)
    BY <1>1, <1>2
  <2>2. i + 1 = j + 1
    BY <2>1 DEF NoRepeats
  <2> QED BY <2>2
<1> QED BY <1>1, <1>5, <1>6, <1>7 DEF t

\* An insert of results that are not inserted nor given up makes them so.
LEMMA InsertMoves ==
    ASSUME rows \in [Result -> {0, 1}], Inserted \cap lost = {},
           NEW S \in SUBSET Result, S \cap (Inserted \cup lost) = {}, Insert(S)
    PROVE  /\ rows' \in [Result -> {0, 1}]
           /\ Inserted' \cap lost' = {}
           /\ Inserted' \cup lost' = Inserted \cup lost \cup S
<1>1. CASE rows' = [r \in Result |-> IF r \in S THEN rows[r] + 1 ELSE rows[r]] /\ lost' = lost
  <2>1. \A r \in Result : rows'[r] = IF r \in S THEN 1 ELSE rows[r]
    BY <1>1 DEF Inserted
  <2>2. rows' \in [Result -> {0, 1}]
    <3>1. DOMAIN rows' = Result /\ rows' = [r \in Result |-> rows'[r]]
      BY <1>1
    <3> QED BY <2>1, <3>1
  <2>3. Inserted' = Inserted \cup S
    BY <2>1 DEF Inserted
  <2> QED BY <1>1, <2>2, <2>3
<1>2. CASE lost' = lost \cup S /\ rows' = rows
  BY <1>2 DEF Inserted
<1> QED BY <1>1, <1>2 DEF Insert

\* Nothing is handed over or moved by the other steps.
LEMMA PlacesKept ==
    ASSUME Places, UNCHANGED <<ch, batch, rows, lost, results, writer, panicked>>,
           phase \in {"closed", "stopped"} => phase' \in {"closed", "stopped"}
    PROVE  Places'
BY DEF Places, Inserted, HandedOver

\* The new result goes through the channel, into the table or the log, or the
\* process dies of it.
LEMMA PlacesCheck ==
    ASSUME CTypeOK, Places, NEW g \in Gen, runCheck(g)
    PROVE  Places'
<1> DEFINE x == results + 1
<1>1. /\ results \in Nat /\ x \in Result /\ results' = x /\ ~panicked
      /\ 1 .. x = (1 .. results) \cup {x} /\ x \notin 1 .. results /\ x - 1 = results
  <2>1. results \in Nat /\ results < MaxResults /\ results' = x /\ ~panicked
    BY RunnerAssumption DEF CTypeOK, runCheck
  <2>2. /\ x \in 1 .. MaxResults /\ x \notin 1 .. results /\ x - 1 = results
        /\ 1 .. x = (1 .. results) \cup {x}
    BY <2>1, RunnerAssumption
  <2> QED BY <2>1, <2>2 DEF Result
<1>2. HandedOver = 1 .. results
  BY <1>1 DEF HandedOver
<1>3. /\ x \notin Contents(ch) /\ x \notin Contents(batch)
      /\ x \notin Inserted /\ x \notin lost
  BY <1>1, <1>2 DEF Places
<1>4. UNCHANGED <<batch, writer, phase>>
  BY DEF runCheck
<1>5. CASE panicked' = TRUE /\ UNCHANGED <<ch, rows, lost>>
  <2>1. HandedOver' = HandedOver
    BY <1>1, <1>2, <1>5 DEF HandedOver
  <2> QED BY <1>4, <1>5, <2>1 DEF Places, Inserted
<1>6. CASE /\ phase \notin {"closed", "stopped"} /\ ch' = Append(ch, x)
           /\ UNCHANGED <<rows, lost, panicked>>
  <2>1. HandedOver' = HandedOver \cup {x}
    BY <1>1, <1>2, <1>6 DEF HandedOver
  <2>2. Contents(ch)' = Contents(ch) \cup {x} /\ NoRepeats(ch)'
    BY <1>1, <1>3, <1>6, ContentsAppend DEF CTypeOK, Places
  <2>3. writer # "done"
    BY <1>6 DEF Places
  <2>4. Contents(batch)' = Contents(batch) /\ NoRepeats(batch)' /\ Inserted' = Inserted
    BY <1>4, <1>6 DEF Places, Inserted
  <2> HIDE DEF x
  <2> QED BY <1>3, <1>4, <1>6, <2>1, <2>2, <2>3, <2>4 DEF Places
<1>7. CASE /\ \/ lost' = lost \cup {x} /\ UNCHANGED rows
              \/ Insert({x})
           /\ UNCHANGED <<ch, panicked>>
  <2>1. HandedOver' = HandedOver \cup {x}
    BY <1>1, <1>2, <1>7 DEF HandedOver
  <2>2. /\ rows' \in [Result -> {0, 1}] /\ Inserted' \cap lost' = {}
        /\ Inserted' \cup lost' = Inserted \cup lost \cup {x}
    <3>1. Insert({x})
      BY <1>7 DEF Insert
    <3>2. {x} \in SUBSET Result /\ {x} \cap (Inserted \cup lost) = {}
      BY <1>1, <1>3
    <3> HIDE DEF x
    <3> QED BY <3>1, <3>2, InsertMoves DEF Places
  <2>3. UNCHANGED <<ch, batch, writer, phase>>
    BY <1>4, <1>7
  <2>4. Contents(ch)' = Contents(ch) /\ Contents(batch)' = Contents(batch)
    BY <2>3
  <2> HIDE DEF x
  <2> QED BY <1>3, <2>1, <2>2, <2>3, <2>4 DEF Places
<1> QED BY <1>5, <1>6, <1>7 DEF runCheck

\* The writer takes from the channel and empties its batch into the table or
\* the log.
LEMMA PlacesWriter ==
    ASSUME CTypeOK, Places, WriterStep
    PROVE  Places'
<1>1. /\ ch \in Seq(Result) /\ batch \in Seq(Result) /\ writer = "loop"
      /\ Contents(ch) \in SUBSET Result /\ Contents(batch) \in SUBSET Result
  BY ContentsType DEF CTypeOK, WriterStep, WriterReceives, WriterFlushes, WriterEnds
<1>2. HandedOver' = HandedOver
  BY DEF WriterStep, WriterReceives, WriterFlushes, WriterEnds, HandedOver
<1>3. CASE WriterFlushes \/ WriterEnds
  <2>1. /\ Insert(Contents(batch)) /\ batch' = <<>> /\ ch' = ch
        /\ writer' = "done" => ch = <<>> /\ phase' \in {"closed", "stopped"}
    BY <1>1, <1>3 DEF WriterFlushes, WriterEnds
  <2>2. /\ rows' \in [Result -> {0, 1}] /\ Inserted' \cap lost' = {}
        /\ Inserted' \cup lost' = Inserted \cup lost \cup Contents(batch)
    BY <1>1, <2>1, InsertMoves DEF Places
  <2>3. Contents(batch)' = {} /\ NoRepeats(batch)' /\ Contents(ch)' = Contents(ch)
    BY <2>1, ContentsEmpty
  <2> QED BY <1>2, <2>1, <2>2, <2>3 DEF Places
<1>4. CASE WriterReceives
  <2> DEFINE x == Head(ch)
  <2>1. ch # <<>> /\ ch' = Tail(ch) /\ writer' = "loop"
    BY <1>1, <1>4 DEF WriterReceives
  <2>2. /\ x \in Result /\ Contents(ch) = Contents(ch)' \cup {x}
        /\ x \notin Contents(ch)' /\ NoRepeats(ch)'
    BY <1>1, <2>1, ContentsTail DEF Places
  <2> HIDE DEF x
  <2>3. CASE batch' = <<>> /\ Insert(Contents(batch) \cup {x})
    <3>1. /\ Contents(batch) \cup {x} \in SUBSET Result
          /\ (Contents(batch) \cup {x}) \cap (Inserted \cup lost) = {}
      BY <1>1, <2>2 DEF Places
    <3>2. /\ rows' \in [Result -> {0, 1}] /\ Inserted' \cap lost' = {}
          /\ Inserted' \cup lost' = Inserted \cup lost \cup Contents(batch) \cup {x}
      BY <2>3, <3>1, InsertMoves DEF Places
    <3>3. Contents(batch)' = {} /\ NoRepeats(batch)'
      BY <2>3, ContentsEmpty
    <3> QED BY <1>2, <2>1, <2>2, <3>2, <3>3 DEF Places
  <2>4. CASE batch' = Append(batch, x) /\ UNCHANGED <<rows, lost>>
    <3>1. x \notin Contents(batch) /\ x \notin Inserted \cup lost
      BY <2>2 DEF Places
    <3>2. Contents(batch)' = Contents(batch) \cup {x} /\ NoRepeats(batch)'
      BY <1>1, <2>2, <2>4, <3>1, ContentsAppend DEF Places
    <3>3. Inserted' = Inserted
      BY <2>4 DEF Inserted
    <3> QED BY <1>2, <2>1, <2>2, <2>4, <3>1, <3>2, <3>3 DEF Places
  <2> QED BY <1>4, <2>3, <2>4 DEF WriterReceives, x
<1> QED BY <1>3, <1>4 DEF WriterStep

LEMMA PlacesStep == CTypeOK /\ Places /\ [CNext]_cvars => Places'
<1> SUFFICES ASSUME CTypeOK, Places, [CNext]_cvars PROVE Places'
  OBVIOUS
<1>1. CASE UNCHANGED sink /\ UNCHANGED phase
  BY <1>1, PlacesKept DEF sink
<1>2. CASE StopStep
  BY <1>2, PlacesKept DEF StopStep, Shutdown, CancelJobs, CloseResults, StopReturns, sink
<1>3. ASSUME NEW g \in Gen, recordRegionCheck(g) PROVE Places'
  BY <1>3, PlacesKept DEF recordRegionCheck
<1>4. ASSUME NEW g \in Gen, runCheck(g) PROVE Places'
  BY <1>4, PlacesCheck
<1>5. CASE WriterStep
  BY <1>5, PlacesWriter
<1> QED
  BY <1>1, <1>2, <1>3, <1>4, <1>5
     DEF CNext, SyncStep, JobStep, UpdateMonitor, FetchActiveMonitors, reconcileJob,
         CancelInactive, SyncExits, JobTick, JobEnds, cvars

LEMMA PlacesInit == CInit => Places
<1> SUFFICES ASSUME CInit PROVE Places
  OBVIOUS
<1>1. ch = <<>> /\ batch = <<>> /\ lost = {} /\ Inserted = {} /\ HandedOver = {}
  BY DEF CInit, Inserted, HandedOver
<1> QED BY <1>1, ContentsEmpty DEF CInit, Places

\* In a sequence that repeats nothing a result occurs once or not at all.
LEMMA TimesOnce ==
    ASSUME NEW s \in Seq(Result), NoRepeats(s), NEW r
    PROVE  Times(s, r) = IF r \in Contents(s) THEN 1 ELSE 0
<1> DEFINE K == {k \in 1 .. Len(s) : s[k] = r}
<1>1. CASE r \in Contents(s)
  <2>1. PICK k \in 1 .. Len(s) : s[k] = r
    BY <1>1 DEF Contents
  <2>2. K = {k}
    BY <2>1 DEF NoRepeats
  <2>3. Cardinality(K) = 1
    BY <2>2, FS_Singleton
  <2> QED BY <1>1, <2>3 DEF Times
<1>2. CASE r \notin Contents(s)
  <2>1. K = {}
    BY <1>2 DEF Contents
  <2>2. Cardinality(K) = 0
    BY <2>1, FS_EmptySet
  <2> QED BY <1>2, <2>2 DEF Times
<1> QED BY <1>1, <1>2

\* No result is dropped or written twice, whatever the channel's and the batch's
\* capacity and however checks, flushes, failing inserts and Stop interleave;
\* and a writer that is done has left nothing behind (runCheck, resultWriter,
\* Stop).
THEOREM ResultsOnceCorrect == CSpec => []ResultsOnce
<1>1. CTypeOK /\ Places => ResultsOnce
  <2> SUFFICES ASSUME CTypeOK, Places, NEW r \in 1 .. results
               PROVE  \/ Times(ch, r) + Times(batch, r) + rows[r]
                             + Cardinality(lost \cap {r}) = 1
                      \/ panicked /\ r = results
    BY DEF ResultsOnce, Places
  <2>1. /\ Times(ch, r) = IF r \in Contents(ch) THEN 1 ELSE 0
        /\ Times(batch, r) = IF r \in Contents(batch) THEN 1 ELSE 0
    BY TimesOnce DEF CTypeOK, Places
  <2>2. Cardinality(lost \cap {r}) = IF r \in lost THEN 1 ELSE 0
    <3>1. CASE r \in lost
      <4>1. lost \cap {r} = {r}
        BY <3>1
      <4> QED BY <3>1, <4>1, FS_Singleton
    <3>2. CASE r \notin lost
      <4>1. lost \cap {r} = {}
        BY <3>2
      <4> QED BY <3>2, <4>1, FS_EmptySet
    <3> QED BY <3>1, <3>2
  <2>3. r \in Result /\ results \in Nat
    BY RunnerAssumption DEF CTypeOK, Result
  <2>4. rows[r] = IF r \in Inserted THEN 1 ELSE 0
    BY <2>3 DEF Places, Inserted
  <2>5. r \in HandedOver \/ (panicked /\ r = results)
    BY <2>3 DEF HandedOver
  <2> QED BY <2>1, <2>2, <2>4, <2>5 DEF Places
<1> QED BY <1>1, PlacesInit, PlacesStep, CTypeCorrect, PTL DEF CSpec

-----------------------------------------------------------------------------
(* What a sync leaves behind. *)

\* While the process runs every job entry names a goroutine of its monitor that
\* goes on checking, and the monitors a sync has dealt with have the fetched
\* configuration.
Reconciled ==
    phase = "running" =>
        /\ ctxDone = FALSE
        /\ \A m \in Monitor : jobs[m] # 0 =>
               goroutine[jobs[m]].monitor = m /\ Alive(jobs[m])
        /\ \A m \in todo : fetched[m] # 0
        /\ sync = "reconcile" =>
               \A m \in Monitor \ todo : fetched[m] # 0 =>
                   jobs[m] # 0 /\ goroutine[jobs[m]].version = fetched[m]

EntriesStarted == \A m \in Monitor : jobs[m] <= started

LEMMA EntriesStep == CTypeOK /\ EntriesStarted /\ [CNext]_cvars => EntriesStarted'
<1> SUFFICES ASSUME CTypeOK, EntriesStarted, [CNext]_cvars PROVE EntriesStarted'
  OBVIOUS
<1>1. /\ started \in Nat /\ jobs \in [Monitor -> 0 .. MaxGen]
      /\ \A m \in Monitor : jobs[m] \in Nat /\ jobs[m] <= started
  BY RunnerAssumption DEF CTypeOK, EntriesStarted
<1>2. \/ UNCHANGED <<jobs, started>>
      \/ \E m \in Monitor : Starts(m, {jobs[m]})
      \/ UNCHANGED started /\ \E S \in SUBSET Monitor :
             jobs' = [m \in Monitor |-> IF m \in S THEN 0 ELSE jobs[m]]
  <2>1. ASSUME CancelInactive
        PROVE  jobs' = [m \in Monitor |-> IF m \in {n \in Monitor : fetched[n] = 0}
                                         THEN 0 ELSE jobs[m]]
    BY <2>1 DEF CancelInactive
  <2>2. ASSUME CancelJobs
        PROVE  jobs' = [m \in Monitor |-> IF m \in Monitor THEN 0 ELSE jobs[m]]
    BY <2>2 DEF CancelJobs
  <2>3. ASSUME NEW m \in Monitor, reconcileJob(m)
        PROVE  UNCHANGED <<jobs, started>> \/ Starts(m, {jobs[m]})
    BY <2>3 DEF reconcileJob, tasks
  <2>4. CancelInactive \/ CancelJobs => UNCHANGED started
    BY DEF CancelInactive, CancelJobs
  <2>5. CASE CancelInactive
    BY <2>1, <2>4, <2>5
  <2>6. CASE CancelJobs
    BY <2>2, <2>4, <2>6
  <2>7. CASE \E m \in Monitor : reconcileJob(m)
    BY <2>3, <2>7
  <2>8. CASE \E g \in Gen : JobStep(g)
    BY <2>8 DEF JobStep, runCheck, recordRegionCheck, JobTick, JobEnds
  <2> QED
    BY <2>5, <2>6, <2>7, <2>8
       DEF CNext, SyncStep, WriterStep, StopStep, UpdateMonitor, FetchActiveMonitors,
           SyncExits, WriterReceives, WriterFlushes, WriterEnds, Shutdown, CloseResults,
           StopReturns, cvars, tasks
<1>3. CASE \E m \in Monitor : Starts(m, {jobs[m]})
  BY <1>1, <1>3 DEF Starts, EntriesStarted
<1>4. CASE UNCHANGED <<jobs, started>>
  BY <1>4 DEF EntriesStarted
<1>5. CASE UNCHANGED started /\ \E S \in SUBSET Monitor :
             jobs' = [m \in Monitor |-> IF m \in S THEN 0 ELSE jobs[m]]
  BY <1>1, <1>5 DEF EntriesStarted
<1> QED BY <1>2, <1>3, <1>4, <1>5

\* A job's own steps touch neither its monitor, its configuration nor its
\* context, and end it only when that is canceled.
LEMMA JobStepKeeps ==
    ASSUME CTypeOK, NEW h \in Gen, JobStep(h), NEW g \in Gen
    PROVE  /\ goroutine'[g].monitor = goroutine[g].monitor
           /\ goroutine'[g].version = goroutine[g].version
           /\ Alive(g) => Alive(g)'
<1> DEFINE x == goroutine'[h]
<1>1. /\ \A k \in Gen : k # h => goroutine'[k] = goroutine[k]
      /\ x.monitor = goroutine[h].monitor /\ x.version = goroutine[h].version
      /\ x.canceled = goroutine[h].canceled
      /\ ~goroutine[h].canceled => x.at # "done"
  <2>1. CASE runCheck(h)
    BY <2>1 DEF runCheck, Turns, CTypeOK, Tasks
  <2>2. CASE recordRegionCheck(h)
    BY <2>2 DEF recordRegionCheck, Turns, CTypeOK, Tasks
  <2>3. CASE JobTick(h)
    BY <2>3 DEF JobTick, Moves, CTypeOK, Tasks
  <2>4. CASE JobEnds(h)
    BY <2>4 DEF JobEnds, Moves, CTypeOK, Tasks
  <2> QED BY <2>1, <2>2, <2>3, <2>4 DEF JobStep
<1> HIDE DEF x
<1> QED BY <1>1 DEF Alive, x

LEMMA ReconciledInit == CInit => Reconciled
BY DEF CInit, Reconciled

\* Only Shutdown leaves the running phase.
LEMMA ReconciledJobs ==
    ASSUME CTypeOK, Reconciled, NEW h \in Gen, JobStep(h)
    PROVE  Reconciled'
<1>1. UNCHANGED <<phase, ctxDone, sync, todo, fetched, jobs>>
  BY DEF JobStep, runCheck, recordRegionCheck, JobTick, JobEnds, syncer
<1>2. \A m \in Monitor : jobs[m] # 0 => jobs[m] \in Gen
  BY RunnerAssumption DEF CTypeOK, Gen
<1>3. \A m \in Monitor : jobs[m] # 0 =>
        /\ goroutine'[jobs[m]].monitor = goroutine[jobs[m]].monitor
        /\ goroutine'[jobs[m]].version = goroutine[jobs[m]].version
        /\ Alive(jobs[m]) => Alive(jobs[m])'
  <2> SUFFICES ASSUME NEW m \in Monitor, jobs[m] # 0, NEW g \in Gen, g = jobs[m]
               PROVE  /\ goroutine'[g].monitor = goroutine[g].monitor
                      /\ goroutine'[g].version = goroutine[g].version
                      /\ Alive(g) => Alive(jobs[m])'
    BY <1>2
  <2>1. Alive(g)' => Alive(jobs[m])'
    BY <1>1 DEF Alive
  <2> QED BY <2>1, JobStepKeeps
<1> QED BY <1>1, <1>3 DEF Reconciled

LEMMA ReconciledStarts ==
    ASSUME CTypeOK, EntriesStarted, Reconciled, NEW m \in Monitor, reconcileJob(m)
    PROVE  Reconciled'
<1> SUFFICES ASSUME phase = "running" PROVE Reconciled'
  BY DEF Reconciled, reconcileJob
<1>0. /\ UNCHANGED <<phase, ctxDone, fetched>> /\ sync = "reconcile" /\ sync' = "reconcile"
      /\ m \in todo /\ todo' = todo \ {m} /\ todo \subseteq Monitor
  BY DEF reconcileJob, CTypeOK
<1>1. /\ ctxDone = FALSE
      /\ \A n \in todo : fetched[n] # 0
      /\ \A n \in Monitor \ todo : fetched[n] # 0 =>
                   jobs[n] # 0 /\ goroutine[jobs[n]].version = fetched[n]
      /\ \A n \in Monitor : jobs[n] # 0 =>
               goroutine[jobs[n]].monitor = n /\ Alive(jobs[n])
  BY <1>0 DEF Reconciled
<1>2. CASE UNCHANGED tasks /\ jobs[m] # 0 /\ goroutine[jobs[m]].version = fetched[m]
  BY <1>0, <1>1, <1>2 DEF Reconciled, Alive, tasks
<1>3. CASE Starts(m, {jobs[m]})
  <2> DEFINE k == started + 1  C == Canceled({jobs[m]})
  <2>1. k \in Gen /\ k # 0
    BY <1>3, RunnerAssumption DEF Starts, Gen, CTypeOK
  <2>2. C \in [Gen -> Tasks]
    BY CanceledType
  <2>3. /\ jobs' = [jobs EXCEPT ![m] = k]
        /\ goroutine' = [C EXCEPT ![k] = Task(m, fetched[m], FALSE)]
    BY <1>1, <1>3 DEF Starts
  <2>4. /\ jobs'[m] = k /\ goroutine'[k].monitor = m
        /\ goroutine'[k].at # "done" /\ ~goroutine'[k].canceled
        /\ goroutine'[k].version = fetched[m]
    BY <2>1, <2>2, <2>3 DEF Task, Alive, CTypeOK
  <2>5. ASSUME NEW n \in Monitor, n # m, jobs[n] # 0
        PROVE  /\ goroutine'[jobs[n]] = goroutine[jobs[n]]
               /\ jobs'[n] = jobs[n]
    <3>1. jobs[n] \in Gen
      BY <2>5, RunnerAssumption DEF CTypeOK, Gen
    <3>2. jobs[n] # jobs[m]
      BY <1>1, <2>5
    <3>k. jobs[n] # k
      BY RunnerAssumption DEF EntriesStarted, CTypeOK
    <3>3. C[jobs[n]] = goroutine[jobs[n]]
      BY <3>1, <3>2 DEF Canceled
    <3> HIDE DEF C, k
    <3> QED BY <2>2, <2>3, <2>5, <3>1, <3>3, <3>k DEF CTypeOK
  <2>6. \A n \in Monitor : jobs'[n] # 0 => goroutine'[jobs'[n]].monitor = n /\ Alive(jobs[n])'
    <3> SUFFICES ASSUME NEW n \in Monitor, jobs'[n] # 0
                 PROVE  goroutine'[jobs'[n]].monitor = n /\ Alive(jobs[n])'
      OBVIOUS
    <3>1. CASE n = m
      BY <2>4, <3>1 DEF Alive
    <3>2. CASE n # m
      <4>1. jobs'[n] = jobs[n]
        BY <2>3, <3>2 DEF CTypeOK
      <4> QED BY <1>1, <2>5, <3>2, <4>1 DEF Alive
    <3> QED BY <3>1, <3>2
  <2>7. \A n \in Monitor \ todo' : fetched[n] # 0 =>
            jobs'[n] # 0 /\ goroutine'[jobs'[n]].version = fetched[n]
    <3> SUFFICES ASSUME NEW n \in Monitor \ todo', fetched[n] # 0
                 PROVE  jobs'[n] # 0 /\ goroutine'[jobs'[n]].version = fetched[n]
      OBVIOUS
    <3>1. CASE n = m
      BY <2>1, <2>4, <3>1
    <3>2. CASE n # m
      BY <1>0, <1>1, <2>5, <3>2
    <3> QED BY <3>1, <3>2
  <2> QED BY <1>0, <1>1, <2>6, <2>7 DEF Reconciled
<1> QED BY <1>2, <1>3 DEF reconcileJob

\* The end of the sync, which also is what SyncComplete is about.
LEMMA SyncEnds ==
    ASSUME CTypeOK, Cancellable, Reconciled, phase = "running", CancelInactive
    PROVE  /\ \A m \in Monitor : fetched[m] # 0 =>
                  /\ jobs'[m] = jobs[m] /\ jobs[m] # 0
                  /\ goroutine'[jobs[m]] = goroutine[jobs[m]]
                  /\ goroutine[jobs[m]].version = fetched[m]
                  /\ goroutine[jobs[m]].monitor = m
                  /\ Alive(jobs[m]) /\ Alive(jobs[m])'
           /\ \A m \in Monitor : fetched[m] = 0 => jobs'[m] = 0
<1> DEFINE S == {n \in Monitor : fetched[n] = 0}
           G == {jobs[n] : n \in S}
<1>1. /\ goroutine' = Canceled(G)
      /\ jobs' = [m \in Monitor |-> IF fetched[m] = 0 THEN 0 ELSE jobs[m]]
      /\ todo = {} /\ sync = "reconcile"
  BY DEF CancelInactive
<1> HIDE DEF G
<1>2. ASSUME NEW m \in Monitor, fetched[m] # 0
      PROVE  /\ jobs'[m] = jobs[m] /\ jobs[m] # 0
             /\ goroutine'[jobs[m]] = goroutine[jobs[m]]
             /\ goroutine[jobs[m]].version = fetched[m]
             /\ goroutine[jobs[m]].monitor = m
             /\ Alive(jobs[m]) /\ Alive(jobs[m])'
  <2>1. /\ jobs[m] # 0 /\ jobs'[m] = jobs[m]
        /\ goroutine[jobs[m]].version = fetched[m]
        /\ goroutine[jobs[m]].monitor = m
        /\ Alive(jobs[m])
    BY <1>1, <1>2 DEF Reconciled
  <2>2. jobs[m] \in Gen
    BY <2>1, RunnerAssumption DEF CTypeOK, Gen
  <2>3. jobs[m] \notin G
    <3> SUFFICES ASSUME NEW n \in Monitor, fetched[n] = 0, jobs[n] = jobs[m] PROVE FALSE
      BY DEF G
    <3>1. goroutine[jobs[n]].monitor = n
      BY <2>1 DEF Reconciled
    <3> QED BY <1>2, <2>1, <3>1
  <2>4. goroutine'[jobs[m]] = goroutine[jobs[m]]
    BY <1>1, <2>2, <2>3 DEF Canceled
  <2> QED BY <2>1, <2>4 DEF Alive
<1>3. \A m \in Monitor : fetched[m] = 0 => jobs'[m] = 0
  BY <1>1
<1> QED BY <1>2, <1>3

LEMMA ReconciledStep ==
    CTypeOK /\ EntriesStarted /\ Cancellable /\ Reconciled /\ [CNext]_cvars => Reconciled'
<1> SUFFICES ASSUME CTypeOK, EntriesStarted, Cancellable, Reconciled, [CNext]_cvars
             PROVE  Reconciled'
  OBVIOUS
<1>1. CASE UNCHANGED <<phase, ctxDone, sync, todo, fetched, jobs, goroutine>>
  BY <1>1 DEF Reconciled, Alive
<1>2. CASE \E h \in Gen : JobStep(h)
  BY <1>2, ReconciledJobs
<1>3. CASE \E m \in Monitor : reconcileJob(m)
  BY <1>3, ReconciledStarts
<1>4. CASE CancelInactive
  <2> SUFFICES ASSUME phase = "running" PROVE Reconciled'
    BY <1>4 DEF Reconciled, CancelInactive
  <2>1. /\ sync' = "idle" /\ UNCHANGED <<phase, ctxDone, todo, fetched>>
    BY <1>4 DEF CancelInactive
  <2>2. \A m \in Monitor : jobs'[m] # 0 =>
               goroutine'[jobs'[m]].monitor = m /\ Alive(jobs[m])'
    BY <1>4, SyncEnds
  <2> QED BY <2>1, <2>2 DEF Reconciled
<1>5. CASE FetchActiveMonitors
  <2>1. /\ UNCHANGED <<phase, ctxDone, jobs, goroutine>> /\ todo' = enabled
        /\ fetched' = [m \in Monitor |-> IF m \in enabled THEN version[m] ELSE 0]
    BY <1>5 DEF FetchActiveMonitors, tasks
  <2>2. enabled \subseteq Monitor /\ \A m \in Monitor : version[m] # 0
    BY RunnerAssumption DEF CTypeOK
  <2> QED BY <2>1, <2>2 DEF Reconciled, Alive
<1>6. CASE SyncExits
  BY <1>6 DEF SyncExits, Reconciled, Alive, tasks
<1>7. CASE StopStep
  BY <1>7 DEF StopStep, Shutdown, CancelJobs, CloseResults, StopReturns, Reconciled
<1> QED
  BY <1>1, <1>2, <1>3, <1>4, <1>5, <1>6, <1>7
     DEF CNext, SyncStep, WriterStep, UpdateMonitor, WriterReceives, WriterFlushes,
         WriterEnds, cvars, syncer, tasks

\* A sync that Stop does not overtake leaves exactly the monitors it fetched
\* running, each with the configuration that was fetched, for any number of
\* monitors and whatever is edited meanwhile.
THEOREM SyncCompleteCorrect == CSpec => SyncComplete
<1> DEFINE Complete ==
      sync = "reconcile" /\ sync' = "idle" /\ phase = "running" =>
        \A m \in Monitor :
            IF fetched[m] # 0
            THEN /\ jobs'[m] # 0
                 /\ Alive(jobs[m])'
                 /\ goroutine'[jobs'[m]].version = fetched[m]
            ELSE \A g \in Gen : goroutine'[g].monitor = m => ~Alive(g)'
<1>1. CInit => EntriesStarted /\ Reconciled
  BY ReconciledInit DEF CInit, EntriesStarted
<1>2. CTypeOK /\ EntriesStarted /\ [CNext]_cvars => EntriesStarted'
  BY EntriesStep
<1>3. CTypeOK /\ EntriesStarted /\ Cancellable /\ Reconciled /\ [CNext]_cvars => Reconciled'
  BY ReconciledStep
<1>4. CTypeOK /\ Cancellable /\ Cancellable' /\ Reconciled /\ [CNext]_cvars => [Complete]_cvars
  <2> SUFFICES ASSUME CTypeOK, Cancellable, Cancellable', Reconciled, [CNext]_cvars,
                      sync = "reconcile", sync' = "idle", phase = "running"
               PROVE  Complete
    OBVIOUS
  <2>1. CancelInactive
    BY DEF CNext, SyncStep, JobStep, WriterStep, StopStep, UpdateMonitor, FetchActiveMonitors,
           reconcileJob, SyncExits, runCheck, recordRegionCheck, JobTick, JobEnds,
           WriterReceives, WriterFlushes, WriterEnds, Shutdown, CancelJobs, CloseResults,
           StopReturns, cvars, syncer
  <2>2. ASSUME NEW m \in Monitor, fetched[m] # 0
        PROVE  /\ jobs'[m] # 0
               /\ Alive(jobs[m])'
               /\ goroutine'[jobs'[m]].version = fetched[m]
    BY <2>1, <2>2, SyncEnds
  <2>3. ASSUME NEW m \in Monitor, fetched[m] = 0, NEW g \in Gen, goroutine'[g].monitor = m
        PROVE  ~Alive(g)'
    <3>1. jobs'[m] = 0
      BY <2>1, <2>3, SyncEnds
    <3>2. Alive(g)' => jobs'[m] = g
      BY <2>3 DEF Cancellable, Gen
    <3> QED BY <3>1, <3>2 DEF Gen
  <2> QED BY <2>2, <2>3
<1> QED
  BY <1>1, <1>2, <1>3, <1>4, CTypeCorrect, CancellableCorrect, PTL DEF CSpec, SyncComplete
============================================================================
