---------------------------- MODULE CheckRunner ----------------------------
(***************************************************************************)
(* The jobs of one scheduler process and the writer of their results.      *)
(*                                                                         *)
(* The sync loop fetches the monitors the process checks and starts one    *)
(* goroutine per monitor, with the configuration it fetched; a changed     *)
(* monitor gets a new goroutine and the old one's context is canceled.     *)
(* Check results go through a bounded channel to one writer, which inserts *)
(* them in batches.  Stop cancels the jobs, closes the channel and waits   *)
(* for the writer, but for no job.                                         *)
(*                                                                         *)
(* Which monitors are the process's own is decided in Ownership; what a    *)
(* recorded check does to incidents is IncidentQuorum.                     *)
(***************************************************************************)
EXTENDS Integers, Sequences, FiniteSets

CONSTANTS
    Monitor,
    WaitsForSync,   \* Stop goes on only when the sync loop has exited: never
                    \* in the embedded scheduler, and in the distributed one
                    \* unless its ten-second wait runs out
    CallerCancels,  \* the caller cancels Start's context before Stop
    BufferSize,     \* resultBufferSize
    BatchMax,       \* resultBatchMax
    MaxVersion,     \* bound on the versions of a monitor's row
    MaxGen,         \* bound on the goroutines started
    MaxResults      \* bound on the check results

ASSUME RunnerAssumption ==
    /\ WaitsForSync \in BOOLEAN
    /\ Monitor # {}
    /\ CallerCancels \in BOOLEAN
    /\ BufferSize \in Nat
    /\ BatchMax \in Nat \ {0}
    /\ MaxVersion \in Nat \ {0}
    /\ MaxGen \in Nat
    /\ MaxResults \in Nat

VARIABLES
    version,    \* per monitor, updated_at of its row
    enabled,    \* the monitors that are enabled, in this region, and owned
    sync,       \* where the sync loop stands
    fetched,    \* per monitor, the version the sync fetched (0: none)
    todo,       \* the fetched monitors the sync has yet to reconcile
    jobs,       \* per monitor, the goroutine its job entry names (0: none)
    goroutine,  \* the goroutines started so far, and those to come
    started,    \* how many were started
    phase,      \* how far Stop has come
    ctxDone,    \* Start's context is canceled
    ch,         \* the channel of results
    batch,      \* the writer's batch
    rows,       \* per result, the monitor_results rows inserted for it
    lost,       \* results whose insert failed
    results,    \* how many results checks have produced
    writer,     \* "loop" or "done"
    panicked,   \* a send on the closed channel has killed the process
    report      \* per monitor, whether this region's row for the quorum stems
                \* from a check that ran or from one that was canceled

config == <<version, enabled>>
syncer == <<sync, fetched, todo>>
tasks  == <<jobs, goroutine, started>>
sink   == <<ch, batch, rows, lost, results, writer, panicked, report>>
cvars  == <<config, syncer, tasks, phase, ctxDone, sink>>

-----------------------------------------------------------------------------
Gen    == 1 .. MaxGen
Result == 1 .. MaxResults

\* aborted: the check to be recorded returned after the context was canceled.
Task(m, v, c) == [monitor |-> m, version |-> v, canceled |-> c, at |-> "check",
                  aborted |-> FALSE]

\* A goroutine that is yet to be started.
Unborn == [monitor |-> CHOOSE m \in Monitor : TRUE, version |-> 0,
           canceled |-> TRUE, at |-> "done", aborted |-> FALSE]

Tasks == [monitor : Monitor, version : 0 .. MaxVersion, canceled : BOOLEAN,
          at : {"check", "record", "wait", "done"}, aborted : BOOLEAN]

CTypeOK ==
    /\ version \in [Monitor -> 1 .. MaxVersion]
    /\ enabled \in SUBSET Monitor
    /\ sync \in {"idle", "reconcile", "exited"}
    /\ fetched \in [Monitor -> 0 .. MaxVersion]
    /\ todo \in SUBSET Monitor
    /\ jobs \in [Monitor -> 0 .. MaxGen]
    /\ goroutine \in [Gen -> Tasks]
    /\ started \in 0 .. MaxGen
    /\ phase \in {"running", "stopping", "canceled", "closed", "stopped"}
    /\ ctxDone \in BOOLEAN
    /\ ch \in Seq(Result) /\ Len(ch) <= BufferSize
    /\ batch \in Seq(Result) /\ Len(batch) < BatchMax
    /\ rows \in [Result -> Nat]
    /\ lost \in SUBSET Result
    /\ results \in 0 .. MaxResults
    /\ writer \in {"loop", "done"}
    /\ panicked \in BOOLEAN
    /\ report \in [Monitor -> {"checked", "aborted"}]

CInit ==
    /\ version = [m \in Monitor |-> 1]
    /\ enabled \in SUBSET Monitor
    /\ sync = "idle"
    /\ fetched = [m \in Monitor |-> 0]
    /\ todo = {}
    /\ jobs = [m \in Monitor |-> 0]
    /\ goroutine = [g \in Gen |-> Unborn]
    /\ started = 0
    /\ phase = "running"
    /\ ctxDone = FALSE
    /\ ch = <<>>
    /\ batch = <<>>
    /\ rows = [r \in Result |-> 0]
    /\ lost = {}
    /\ results = 0
    /\ writer = "loop"
    /\ panicked = FALSE
    /\ report = [m \in Monitor |-> "checked"]

\* The owner edits, pauses or resumes the monitor: its row gets a new version.
UpdateMonitor(m) ==
    /\ version[m] < MaxVersion
    /\ version' = [version EXCEPT ![m] = @ + 1]
    /\ enabled' = enabled \cup {m} \/ enabled' = enabled \ {m}
    /\ UNCHANGED <<syncer, tasks, phase, ctxDone, sink>>

-----------------------------------------------------------------------------
(* The sync loop. *)

\* Mutant: a monitor that was fetched once is not fetched again.
FetchCached ==
    /\ ~panicked
    /\ sync = "idle"
    /\ ~ctxDone
    /\ sync' = "reconcile"
    /\ fetched' = [m \in Monitor |-> IF m \notin enabled THEN 0
                                     ELSE IF fetched[m] # 0 THEN fetched[m] ELSE version[m]]
    /\ todo' = enabled
    /\ UNCHANGED <<config, tasks, phase, ctxDone, sink>>

FetchActiveMonitors ==
    /\ ~panicked
    /\ sync = "idle"
    /\ ~ctxDone
    /\ sync' = "reconcile"
    /\ fetched' = [m \in Monitor |-> IF m \in enabled THEN version[m] ELSE 0]
    /\ todo' = enabled
    /\ UNCHANGED <<config, tasks, phase, ctxDone, sink>>

Canceled(G) ==
    [g \in Gen |-> IF g \in G THEN [goroutine[g] EXCEPT !.canceled = TRUE]
                   ELSE goroutine[g]]

Starts(m, G) ==
    /\ started < MaxGen
    /\ started' = started + 1
    /\ jobs' = [jobs EXCEPT ![m] = started + 1]
    /\ goroutine' = [Canceled(G) EXCEPT ![started + 1] = Task(m, fetched[m], ctxDone)]

\* Mutants: the replaced job is not canceled; a changed row is not noticed.
ReconcileKeepsOld(m) ==
    /\ ~panicked
    /\ sync = "reconcile" /\ m \in todo
    /\ todo' = todo \ {m}
    /\ IF jobs[m] # 0 /\ goroutine[jobs[m]].version = fetched[m]
       THEN UNCHANGED tasks
       ELSE Starts(m, {})
    /\ UNCHANGED <<config, sync, fetched, phase, ctxDone, sink>>
ReconcileMissing(m) ==
    /\ ~panicked
    /\ sync = "reconcile" /\ m \in todo
    /\ todo' = todo \ {m}
    /\ IF jobs[m] # 0 THEN UNCHANGED tasks ELSE Starts(m, {})
    /\ UNCHANGED <<config, sync, fetched, phase, ctxDone, sink>>

\* Start the monitor's job, or restart it if the row changed.
reconcileJob(m) ==
    /\ ~panicked
    /\ sync = "reconcile" /\ m \in todo
    /\ todo' = todo \ {m}
    /\ IF jobs[m] # 0 /\ goroutine[jobs[m]].version = fetched[m]
       THEN UNCHANGED tasks
       ELSE Starts(m, {jobs[m]})
    /\ UNCHANGED <<config, sync, fetched, phase, ctxDone, sink>>

\* The end of syncMonitors: jobs of monitors that were not fetched go.
CancelInactive ==
    /\ ~panicked
    /\ sync = "reconcile" /\ todo = {}
    /\ sync' = "idle"
    /\ goroutine' = Canceled({jobs[m] : m \in {n \in Monitor : fetched[n] = 0}})
    /\ jobs' = [m \in Monitor |-> IF fetched[m] = 0 THEN 0 ELSE jobs[m]]
    /\ UNCHANGED <<config, fetched, todo, started, phase, ctxDone, sink>>

SyncExits ==
    /\ ~panicked
    /\ sync = "idle"
    /\ ctxDone \/ phase # "running"
    /\ sync' = "exited"
    /\ UNCHANGED <<config, fetched, todo, tasks, phase, ctxDone, sink>>

-----------------------------------------------------------------------------
(* The jobs. *)

Moves(g, l) == goroutine' = [goroutine EXCEPT ![g].at = l]
Turns(g, l, a) ==
    goroutine' = [goroutine EXCEPT ![g] = [goroutine[g] EXCEPT !.at = l, !.aborted = a]]

\* One insert of the given results, which succeeds or fails as a whole.
Insert(S) ==
    \/ /\ rows' = [r \in Result |-> IF r \in S THEN rows[r] + 1 ELSE rows[r]]
       /\ UNCHANGED lost
    \/ /\ lost' = lost \cup S
       /\ UNCHANGED rows

\* The check returns (canceled or not) and its result is handed to the
\* writer: through the channel, or inserted at once when that is full.
runCheck(g) ==
    /\ ~panicked
    /\ goroutine[g].at = "check"
    /\ results < MaxResults
    /\ results' = results + 1
    /\ Turns(g, "record", goroutine[g].canceled)
    /\ \/ /\ phase \in {"closed", "stopped"}
          /\ panicked' = TRUE
          /\ UNCHANGED <<ch, rows, lost>>
       \/ /\ phase \notin {"closed", "stopped"}
          /\ Len(ch) < BufferSize
          /\ ch' = Append(ch, results + 1)
          /\ UNCHANGED <<rows, lost, panicked>>
       \/ /\ phase \notin {"closed", "stopped"}
          /\ Len(ch) >= BufferSize
          /\ IF goroutine[g].canceled
             THEN lost' = lost \cup {results + 1} /\ UNCHANGED rows
             ELSE Insert({results + 1})
          /\ UNCHANGED <<ch, panicked>>
    /\ UNCHANGED <<config, syncer, jobs, started, phase, ctxDone, batch, writer, report>>

\* Mutant: the report does not go with the job's context.
RecordDetached(g) ==
    /\ ~panicked
    /\ goroutine[g].at = "record"
    /\ Turns(g, "wait", FALSE)
    /\ \/ report' = [report EXCEPT ![goroutine[g].monitor] =
                        IF goroutine[g].aborted THEN "aborted" ELSE "checked"]
       \/ UNCHANGED report
    /\ UNCHANGED <<config, syncer, jobs, started, phase, ctxDone, ch, batch, rows, lost,
                   results, writer, panicked>>

\* The outcome is reported to the quorum with the job's context: not at all
\* once that is canceled, and the database may fail.
recordRegionCheck(g) ==
    /\ ~panicked
    /\ goroutine[g].at = "record"
    /\ Turns(g, "wait", FALSE)
    /\ \/ /\ ~goroutine[g].canceled
          /\ report' = [report EXCEPT ![goroutine[g].monitor] =
                            IF goroutine[g].aborted THEN "aborted" ELSE "checked"]
       \/ UNCHANGED report
    /\ UNCHANGED <<config, syncer, jobs, started, phase, ctxDone, ch, batch, rows, lost,
                   results, writer, panicked>>

\* The ticker may win the select although the context is canceled.
JobTick(g) ==
    /\ ~panicked
    /\ goroutine[g].at = "wait"
    /\ Moves(g, "check")
    /\ UNCHANGED <<config, syncer, jobs, started, phase, ctxDone, sink>>

JobEnds(g) ==
    /\ ~panicked
    /\ goroutine[g].at = "wait"
    /\ goroutine[g].canceled
    /\ Moves(g, "done")
    /\ UNCHANGED <<config, syncer, jobs, started, phase, ctxDone, sink>>

-----------------------------------------------------------------------------
(* The result writer. *)

Contents(s) == {s[k] : k \in 1 .. Len(s)}

\* Mutant: the full batch is flushed one result late.
ReceivesLate ==
    /\ ~panicked
    /\ writer = "loop"
    /\ ch # <<>>
    /\ ch' = Tail(ch)
    /\ IF Len(batch) >= BatchMax
       THEN batch' = <<>> /\ Insert(Contents(batch) \cup {Head(ch)})
       ELSE batch' = Append(batch, Head(ch)) /\ UNCHANGED <<rows, lost>>
    /\ UNCHANGED <<config, syncer, tasks, phase, ctxDone, results, writer, panicked,
                   report>>

WriterReceives ==
    /\ ~panicked
    /\ writer = "loop"
    /\ ch # <<>>
    /\ ch' = Tail(ch)
    /\ IF Len(batch) + 1 >= BatchMax
       THEN batch' = <<>> /\ Insert(Contents(batch) \cup {Head(ch)})
       ELSE batch' = Append(batch, Head(ch)) /\ UNCHANGED <<rows, lost>>
    /\ UNCHANGED <<config, syncer, tasks, phase, ctxDone, results, writer, panicked, report>>

\* Mutant: the ticker's flush does not reset the batch.
FlushKeepsBatch ==
    /\ ~panicked
    /\ writer = "loop"
    /\ batch # <<>>
    /\ Insert(Contents(batch))
    /\ UNCHANGED <<config, syncer, tasks, phase, ctxDone, ch, batch, results, writer, panicked,
                   report>>

WriterFlushes ==
    /\ ~panicked
    /\ writer = "loop"
    /\ batch # <<>>
    /\ Insert(Contents(batch))
    /\ batch' = <<>>
    /\ UNCHANGED <<config, syncer, tasks, phase, ctxDone, ch, results, writer, panicked, report>>

\* The closed channel is drained first, then the last batch is flushed.
WriterEnds ==
    /\ ~panicked
    /\ writer = "loop"
    /\ phase \in {"closed", "stopped"}
    /\ ch = <<>>
    /\ Insert(Contents(batch))
    /\ batch' = <<>>
    /\ writer' = "done"
    /\ UNCHANGED <<config, syncer, tasks, phase, ctxDone, ch, results, panicked, report>>

-----------------------------------------------------------------------------
(* Stop. *)

\* The caller cancels Start's context, if it does, and calls Stop.
Shutdown ==
    /\ ~panicked
    /\ phase = "running"
    /\ phase' = "stopping"
    /\ ctxDone' = CallerCancels
    /\ goroutine' = IF CallerCancels THEN Canceled(Gen) ELSE goroutine
    /\ UNCHANGED <<config, syncer, jobs, started, sink>>

CancelJobs ==
    /\ ~panicked
    /\ phase = "stopping"
    /\ WaitsForSync => sync = "exited"
    /\ phase' = "canceled"
    /\ goroutine' = Canceled({jobs[m] : m \in Monitor})
    /\ jobs' = [m \in Monitor |-> 0]
    /\ UNCHANGED <<config, syncer, started, ctxDone, sink>>

CloseResults ==
    /\ ~panicked
    /\ phase = "canceled"
    /\ phase' = "closed"
    /\ UNCHANGED <<config, syncer, tasks, ctxDone, sink>>

\* The writer is done, or ten seconds are over.
StopReturns ==
    /\ ~panicked
    /\ phase = "closed"
    /\ phase' = "stopped"
    /\ UNCHANGED <<config, syncer, tasks, ctxDone, sink>>

-----------------------------------------------------------------------------
SyncStep == FetchActiveMonitors \/ (\E m \in Monitor : reconcileJob(m)) \/ CancelInactive
            \/ SyncExits
JobStep(g) == runCheck(g) \/ recordRegionCheck(g) \/ JobTick(g) \/ JobEnds(g)
WriterStep == WriterReceives \/ WriterFlushes \/ WriterEnds
StopStep   == Shutdown \/ CancelJobs \/ CloseResults \/ StopReturns

CNext ==
    \/ \E m \in Monitor : UpdateMonitor(m)
    \/ SyncStep
    \/ \E g \in Gen : JobStep(g)
    \/ WriterStep
    \/ StopStep

CSpec == CInit /\ [][CNext]_cvars

\* The sync loop keeps turning and the database answers again and again.
CFairness ==
    /\ SF_cvars(FetchActiveMonitors)
    /\ WF_cvars(\E m \in Monitor : reconcileJob(m))
    /\ WF_cvars(CancelInactive)

FairSpec == CSpec /\ CFairness

-----------------------------------------------------------------------------
Alive(g) == goroutine[g].at # "done" /\ ~goroutine[g].canceled

\* Every goroutine that goes on checking is the one its monitor's job entry
\* names, so there is one per monitor and the next sync, or Stop, can cancel
\* it: no restart, pause or shutdown leaves a job running that nothing can
\* stop (reconcileJob, syncMonitors, Stop).
Cancellable == \A g \in Gen : Alive(g) => jobs[goroutine[g].monitor] = g

\* A check that failed because its job was canceled, by an edit, a pause, a
\* lost partition or a shutdown, never counts against the monitor: it leaves a
\* DOWN result in the history and no report in the quorum (runCheck,
\* recordRegionCheck).
AbortedNeverCounts == \A m \in Monitor : report[m] # "aborted"

Times(s, r) == Cardinality({k \in 1 .. Len(s) : s[k] = r})

\* Every result is in exactly one place: on its way to the writer, in its
\* batch, in one row, or given up with a logged error.  None is dropped when
\* the channel is full or closed and none is written twice, except for the
\* one whose send finds the channel closed (resultWriter).
ResultsOnce ==
    /\ \A r \in 1 .. results :
           \/ Times(ch, r) + Times(batch, r) + rows[r]
                  + Cardinality(lost \cap {r}) = 1
           \/ panicked /\ r = results
    /\ writer = "done" => ch = <<>> /\ batch = <<>>

\* When a sync is over and Stop was not called meanwhile, the monitors it
\* fetched, and no others, have a goroutine that goes on checking, and it checks
\* with the configuration that was fetched, although rows were edited and jobs
\* ticked between the reconciliation of one monitor and the next (syncMonitors).
SyncComplete ==
    [][sync = "reconcile" /\ sync' = "idle" /\ phase = "running" =>
        \A m \in Monitor :
            IF fetched[m] # 0
            THEN /\ jobs'[m] # 0
                 /\ Alive(jobs[m])'
                 /\ goroutine'[jobs'[m]].version = fetched[m]
            ELSE \A g \in Gen : goroutine'[g].monitor = m => ~Alive(g)']_cvars

\* While the process runs, every enabled monitor ends up with a job that has
\* its current configuration and every other monitor with none, whatever
\* edits raced a sync (syncMonitors, reconcileJob).
FreshConfig ==
    <>[](phase = "running") =>
        \A m \in Monitor :
            <>[](IF m \in enabled
                 THEN /\ jobs[m] # 0
                      /\ Alive(jobs[m])
                      /\ goroutine[jobs[m]].version = version[m]
                 ELSE \A g \in Gen : goroutine[g].monitor = m => ~Alive(g))
============================================================================
