----------------------------- MODULE Ownership -----------------------------
(***************************************************************************)
(* Which scheduler instance of a region checks which monitors.             *)
(*                                                                         *)
(* Every instance registers a key under a lease in etcd, lists the keys of *)
(* its region, and owns the partitions that its place in the sorted list   *)
(* gives it.  Two goroutines of an instance list the keys: the watch loop, *)
(* which then queues the list as a membership event, and the scheduler's   *)
(* run loop, on its ticker.  Both store the list they got in the field     *)
(* they share before they read it back.                                    *)
(*                                                                         *)
(* Jobs are kept per partition: a partition stands for the monitors hashed *)
(* to it, whose jobs are started and stopped together.                     *)
(***************************************************************************)
EXTENDS Integers, Sequences, FiniteSets

CONSTANTS
    Instance,       \* instance ids, numbered in the order the ids sort
    Watched,        \* the instances whose watch ever delivers anything
    PartitionCount,
    EventCap,       \* capacity of the membership event channel
    MaxChanges      \* bound on the changes of the set of keys

ASSUME OwnershipAssumption ==
    /\ Instance \subseteq Nat
    /\ IsFiniteSet(Instance)
    /\ Watched \subseteq Instance
    /\ PartitionCount \in Nat \ {0}
    /\ EventCap \in Nat \ {0}
    /\ MaxChanges \in Nat \ {0}

VARIABLES
    registry,   \* the instances whose keys are in etcd
    changes,    \* how often that set was written
    proc,       \* per instance: "off", "registered", "running" or "stopping"
    run,        \* per instance, where the scheduler's run loop stands
    tickAt,     \* per instance, the list its Reconcile got
    watch,      \* per instance, where the watch loop stands
    watchAt,    \* per instance, the list the watch loop got
    instances,  \* per instance, the coordinator's shared list
    eventCh,    \* per instance, the queued membership events
    applied,    \* per instance, the list its ownership was computed from
    jobs        \* per instance, the partitions whose monitors it checks

local == <<run, tickAt, watch, watchAt, instances, eventCh, applied, jobs>>
etcd == <<registry, changes>>
wvars == <<etcd, proc, local>>

-----------------------------------------------------------------------------
Partition == 0 .. PartitionCount - 1

\* The place of i in the sorted list of M.  (Mutant: counted from one.)
IndexFromOne(i, M) == Cardinality({j \in M : j <= i})
Index(i, M) == Cardinality({j \in M : j < i})

\* RecalculateOwnership: an instance that is not listed owns nothing.
Owned(i, M) ==
    IF i \in M THEN {p \in Partition : p % Cardinality(M) = Index(i, M)} ELSE {}

List == SUBSET Instance

OwTypeOK ==
    /\ registry \in List
    /\ changes \in 0 .. MaxChanges
    /\ proc \in [Instance -> {"off", "registered", "running", "stopping"}]
    /\ run \in [Instance -> {"off", "select", "listed", "stored", "sync"}]
    /\ tickAt \in [Instance -> List]
    /\ watch \in [Instance -> {"off", "idle", "listed", "stored"}]
    /\ watchAt \in [Instance -> List]
    /\ instances \in [Instance -> List]
    /\ eventCh \in [Instance -> Seq(List)]
    /\ \A i \in Instance : Len(eventCh[i]) <= EventCap
    /\ applied \in [Instance -> List]
    /\ jobs \in [Instance -> SUBSET Partition]

OwInit ==
    /\ registry = {}
    /\ changes = 0
    /\ proc = [i \in Instance |-> "off"]
    /\ run = [i \in Instance |-> "off"]
    /\ tickAt = [i \in Instance |-> {}]
    /\ watch = [i \in Instance |-> "off"]
    /\ watchAt = [i \in Instance |-> {}]
    /\ instances = [i \in Instance |-> {}]
    /\ eventCh = [i \in Instance |-> <<>>]
    /\ applied = [i \in Instance |-> {}]
    /\ jobs = [i \in Instance |-> {}]

-----------------------------------------------------------------------------
(* The registration and its lease. *)

Becomes(M) ==
    /\ changes < MaxChanges
    /\ changes' = changes + 1
    /\ registry' = M

Register(i) ==
    /\ proc[i] = "off"
    /\ Becomes(registry \cup {i})
    /\ proc' = [proc EXCEPT ![i] = "registered"]
    /\ UNCHANGED local

\* The instance is gone, or cut off from etcd for longer than its lease.
LeaseExpires(i) ==
    /\ i \in registry
    /\ Becomes(registry \ {i})
    /\ UNCHANGED <<proc, local>>

reregisterWithBackoff(i) ==
    /\ proc[i] \in {"registered", "running"}
    /\ i \notin registry
    /\ Becomes(registry \cup {i})
    /\ UNCHANGED <<proc, local>>

\* The process ends, and all it kept in memory with it.
Forget(i) ==
    /\ run' = [run EXCEPT ![i] = "off"]
    /\ tickAt' = [tickAt EXCEPT ![i] = {}]
    /\ watch' = [watch EXCEPT ![i] = "off"]
    /\ watchAt' = [watchAt EXCEPT ![i] = {}]
    /\ instances' = [instances EXCEPT ![i] = {}]
    /\ eventCh' = [eventCh EXCEPT ![i] = <<>>]
    /\ applied' = [applied EXCEPT ![i] = {}]
    /\ jobs' = [jobs EXCEPT ![i] = {}]

Crash(i) ==
    /\ proc[i] # "off"
    /\ proc' = [proc EXCEPT ![i] = "off"]
    /\ Forget(i)
    /\ UNCHANGED etcd

\* SIGTERM cancels the context of every job and loop before anything else.
Shutdown(i) ==
    /\ proc[i] = "running"
    /\ proc' = [proc EXCEPT ![i] = "stopping"]
    /\ Forget(i)
    /\ UNCHANGED etcd

\* The key is deleted; when that fails it stays until its lease runs out.
Deregister(i) ==
    /\ proc[i] = "stopping"
    /\ proc' = [proc EXCEPT ![i] = "off"]
    /\ Becomes(registry \ {i}) \/ UNCHANGED etcd
    /\ UNCHANGED local

-----------------------------------------------------------------------------
(* The watch loop. *)

\* Start lists the keys and queues the list as the first event.
WatchInstances(i) ==
    /\ proc[i] = "registered"
    /\ proc' = [proc EXCEPT ![i] = "running"]
    /\ instances' = [instances EXCEPT ![i] = registry]
    /\ eventCh' = [eventCh EXCEPT ![i] = <<registry>>]
    /\ run' = [run EXCEPT ![i] = "select"]
    /\ watch' = [watch EXCEPT ![i] = "idle"]
    /\ UNCHANGED <<etcd, tickAt, watchAt, applied, jobs>>

\* A change was delivered or the watch was restarted: list again.  Changes
\* may also go unnoticed: before the watch is established, or when the list
\* that follows fails.
watchLoop(i) ==
    /\ i \in Watched
    /\ watch[i] = "idle"
    /\ watch' = [watch EXCEPT ![i] = "listed"]
    /\ watchAt' = [watchAt EXCEPT ![i] = registry]
    /\ UNCHANGED <<etcd, proc, run, tickAt, instances, eventCh, applied, jobs>>

WatchStores(i) ==
    /\ watch[i] = "listed"
    /\ watch' = [watch EXCEPT ![i] = "stored"]
    /\ instances' = [instances EXCEPT ![i] = watchAt[i]]
    /\ watchAt' = [watchAt EXCEPT ![i] = {}]
    /\ UNCHANGED <<etcd, proc, run, tickAt, eventCh, applied, jobs>>

\* The oldest event makes room for the newest.  (Mutant: it does not.)
QueuedNoDrop(q, e) == Append(q, e)
Queued(q, e) == Append(IF Len(q) < EventCap THEN q ELSE Tail(q), e)

notify(i) ==
    /\ watch[i] = "stored"
    /\ watch' = [watch EXCEPT ![i] = "idle"]
    /\ eventCh' = [eventCh EXCEPT ![i] = Queued(@, instances[i])]
    /\ UNCHANGED <<etcd, proc, run, tickAt, watchAt, instances, applied, jobs>>

-----------------------------------------------------------------------------
(* The scheduler's run loop. *)

Reconcile(i) ==
    /\ run[i] = "select"
    /\ run' = [run EXCEPT ![i] = "listed"]
    /\ tickAt' = [tickAt EXCEPT ![i] = registry]
    /\ UNCHANGED <<etcd, proc, watch, watchAt, instances, eventCh, applied, jobs>>

\* The list fails: the monitors are synced all the same.
ReconcileFails(i) ==
    /\ run[i] = "select"
    /\ run' = [run EXCEPT ![i] = "sync"]
    /\ UNCHANGED <<etcd, proc, tickAt, watch, watchAt, instances, eventCh, applied, jobs>>

ReconcileStores(i) ==
    /\ run[i] = "listed"
    /\ run' = [run EXCEPT ![i] = "stored"]
    /\ instances' = [instances EXCEPT ![i] = tickAt[i]]
    /\ tickAt' = [tickAt EXCEPT ![i] = {}]
    /\ UNCHANGED <<etcd, proc, watch, watchAt, eventCh, applied, jobs>>

\* Mutant: jobs of lost partitions are left to the next sync.
ApplyKeepsJobs(i, k) ==
    /\ applied' = [applied EXCEPT ![i] = k]
    /\ UNCHANGED jobs

\* Mutant: all jobs are stopped and left to the next sync to start again.
ApplyStopsAll(i, k) ==
    /\ applied' = [applied EXCEPT ![i] = k]
    /\ jobs' = [jobs EXCEPT ![i] = {}]

applyOwnership(i, k) ==
    /\ applied' = [applied EXCEPT ![i] = k]
    /\ jobs' = [jobs EXCEPT ![i] =
                   @ \ (Owned(i, applied[i]) \ Owned(i, k))]

\* Reconcile returns what the shared list holds by now.
ReconcileReturns(i) ==
    /\ run[i] = "stored"
    /\ run' = [run EXCEPT ![i] = "sync"]
    /\ applyOwnership(i, instances[i])
    /\ UNCHANGED <<etcd, proc, tickAt, watch, watchAt, instances, eventCh>>

HandleEvent(i) ==
    /\ run[i] = "select"
    /\ eventCh[i] # <<>>
    /\ run' = [run EXCEPT ![i] = "sync"]
    /\ eventCh' = [eventCh EXCEPT ![i] = Tail(@)]
    /\ applyOwnership(i, Head(eventCh[i]))
    /\ UNCHANGED <<etcd, proc, tickAt, watch, watchAt, instances>>

syncMonitors(i) ==
    /\ run[i] = "sync"
    /\ run' = [run EXCEPT ![i] = "select"]
    /\ jobs' = [jobs EXCEPT ![i] = Owned(i, applied[i])]
    /\ UNCHANGED <<etcd, proc, tickAt, watch, watchAt, instances, eventCh, applied>>

\* The monitors cannot be fetched: the jobs stay as they are.
SyncFails(i) ==
    /\ run[i] = "sync"
    /\ run' = [run EXCEPT ![i] = "select"]
    /\ UNCHANGED <<etcd, proc, tickAt, watch, watchAt, instances, eventCh, applied, jobs>>

-----------------------------------------------------------------------------
Coordinator(i) ==
    \/ Register(i) \/ LeaseExpires(i) \/ reregisterWithBackoff(i)
    \/ Crash(i)    \/ Shutdown(i)     \/ Deregister(i)
    \/ WatchInstances(i) \/ watchLoop(i) \/ WatchStores(i) \/ notify(i)

Scheduler(i) ==
    \/ Reconcile(i) \/ ReconcileFails(i) \/ ReconcileStores(i)
    \/ ReconcileReturns(i) \/ HandleEvent(i)
    \/ syncMonitors(i) \/ SyncFails(i)

OwNext == \E i \in Instance : Coordinator(i) \/ Scheduler(i)

OwSpec == OwInit /\ [][OwNext]_wvars

\* The loops keep turning, and etcd and the database answer again and again.
\* Nothing is assumed of the watch.
OwFairness ==
    \A i \in Instance :
        /\ WF_wvars(WatchInstances(i))
        /\ WF_wvars(WatchStores(i))
        /\ WF_wvars(notify(i))
        /\ WF_wvars(ReconcileStores(i))
        /\ WF_wvars(ReconcileReturns(i))
        /\ SF_wvars(Reconcile(i))
        /\ SF_wvars(syncMonitors(i))

FairSpec == OwSpec /\ OwFairness

-----------------------------------------------------------------------------
\* Every job is in a partition the applied membership gives its instance.
JobsOwned == \A i \in Instance : jobs[i] \subseteq Owned(i, applied[i])

Running == {i \in Instance : proc[i] = "running"}

\* Two instances check the same monitor only while they act on different
\* memberships: instances that agree on the members share no job, whatever
\* failed to be fetched on the way (RecalculateOwnership with applyOwnership,
\* which stops lost jobs before the sync).
NoSplit ==
    \A i, j \in Instance : i # j /\ jobs[i] \cap jobs[j] # {} =>
        applied[i] # applied[j]

\* Every list that i holds, or has yet to act on, is the present one.
Current(i) ==
    /\ instances[i] = registry
    /\ applied[i] = registry
    /\ run[i] = "listed" => tickAt[i] = registry
    /\ watch[i] = "listed" => watchAt[i] = registry
    /\ \A k \in 1 .. Len(eventCh[i]) : eventCh[i][k] = registry

Settled ==
    /\ registry # {} /\ Running = registry
    /\ \A i \in registry : Current(i) /\ jobs[i] = Owned(i, registry)

CoveredOnce == \A p \in Partition : \E i \in Instance : {j \in Instance : p \in jobs[j]} = {i}

\* Instances that have settled stay so and check every partition once until one
\* comes or goes: no tick, late event, failed list or failed fetch of theirs
\* stops a job or starts a second one (applyOwnership, syncMonitors).
SettledStays ==
    [][Settled /\ UNCHANGED <<registry, proc>> => Settled' /\ CoveredOnce']_wvars

\* Once instances stop coming and going, every partition ends up with exactly
\* one instance checking it, even if the watch never fires and every list or
\* fetch may fail for a while: the ticker's Reconcile is a backstop for every
\* missed event (run, Reconcile, RecalculateOwnership).
CheckedOnce ==
    <>[](Running = registry /\ registry # {} =>
            \A p \in Partition : Cardinality({i \in Instance : p \in jobs[i]}) = 1)
============================================================================
