--------------------------- MODULE OwnershipProofs ---------------------------
(***************************************************************************)
(* Proofs about Ownership, for any finite set of instances, any number of  *)
(* partitions and any history of the membership.                           *)
(***************************************************************************)
EXTENDS Ownership, FiniteSetTheorems, TLAPS

(* The assignment of partitions to a membership. *)

\* Two members of the same list have different places in it.
LEMMA IndexDiffers ==
    ASSUME NEW M \in SUBSET Nat, IsFiniteSet(M), NEW i \in M, NEW j \in M, i < j
    PROVE  Index(i, M) < Index(j, M)
<1> DEFINE A == {k \in M : k < i}
           B == {k \in M : k < j}
<1>1. IsFiniteSet(A) /\ IsFiniteSet(B)
  BY FS_Subset
<1>2. A \subseteq B /\ A # B
  <2>1. A \subseteq B
    <3> SUFFICES ASSUME NEW k \in M, k < i PROVE k < j
      OBVIOUS
    <3>1. i \in Nat /\ j \in Nat /\ k \in Nat
      OBVIOUS
    <3> QED BY <3>1, i < j, k < i
  <2>2. i \in B /\ i \notin A
    BY i \in Nat, j \in Nat
  <2> QED BY <2>1, <2>2
<1>3. Cardinality(A) \in Nat /\ Cardinality(B) \in Nat
  BY <1>1, FS_CardinalityType
<1>4. Cardinality(A) < Cardinality(B)
  <2>1. Cardinality(A) <= Cardinality(B) /\ (Cardinality(A) = Cardinality(B) => A = B)
    BY <1>1, <1>2, FS_Subset
  <2> QED BY <2>1, <1>2, <1>3
<1> QED BY <1>4 DEF Index

\* A place is a number below the number of members.
LEMMA IndexBounds ==
    ASSUME NEW M \in SUBSET Nat, IsFiniteSet(M), NEW i \in M
    PROVE  Cardinality(M) \in Nat /\ Index(i, M) \in 0 .. Cardinality(M) - 1
<1> DEFINE A == {k \in M : k < i}
<1>1. IsFiniteSet(A) /\ A \subseteq M /\ i \notin A
  BY FS_Subset
<1>2. Cardinality(A) \in Nat /\ Cardinality(M) \in Nat
  BY <1>1, FS_CardinalityType
<1>3. Cardinality(A) <= Cardinality(M) /\ (Cardinality(A) = Cardinality(M) => A = M)
  BY <1>1, FS_Subset
<1>4. Cardinality(A) < Cardinality(M)
  BY <1>1, <1>2, <1>3
<1> QED BY <1>2, <1>4 DEF Index

\* No partition is owned by two members of the same list: what
\* RecalculateOwnership computes on two instances from one list is disjoint.
LEMMA OwnedDisjoint ==
    ASSUME NEW M \in SUBSET Instance, NEW i \in Instance, NEW j \in Instance, i # j
    PROVE  Owned(i, M) \cap Owned(j, M) = {}
<1>1. M \in SUBSET Nat /\ IsFiniteSet(M)
  BY OwnershipAssumption, FS_Subset
<1>2. CASE i \in M /\ j \in M
  <2>1. i \in Nat /\ j \in Nat
    BY <1>1, <1>2
  <2>2. Index(i, M) \in Nat /\ Index(j, M) \in Nat
    BY <1>1, <1>2, IndexBounds
  <2>3. Index(i, M) # Index(j, M)
    <3>1. CASE i < j
      <4>1. Index(i, M) < Index(j, M)
        BY <1>1, <1>2, <3>1, IndexDiffers
      <4> QED BY <4>1, <2>2
    <3>2. CASE j < i
      <4>1. Index(j, M) < Index(i, M)
        BY <1>1, <1>2, <3>2, IndexDiffers
      <4> QED BY <4>1, <2>2
    <3> QED BY <2>1, <3>1, <3>2
  <2> QED BY <1>2, <2>3 DEF Owned
<1>3. CASE ~(i \in M /\ j \in M)
  BY <1>3 DEF Owned
<1> QED BY <1>2, <1>3

\* Every partition is owned by some member of a list that is not empty.
LEMMA OwnedSome ==
    ASSUME NEW M \in SUBSET Instance, M # {}
    PROVE  \A p \in Partition : \E i \in M : p \in Owned(i, M)
<1> DEFINE n == Cardinality(M)
           Places == 0 .. n - 1
           f == [i \in M |-> Index(i, M)]
<1>1. M \in SUBSET Nat /\ IsFiniteSet(M)
  BY OwnershipAssumption, FS_Subset
<1>2. n \in Nat /\ n # 0
  BY <1>1, FS_CardinalityType, FS_EmptySet
<1>3. IsFiniteSet(Places) /\ Cardinality(Places) = n
  <2>1. IsFiniteSet(0 .. n - 1)
        /\ Cardinality(0 .. n - 1) = IF 0 > n - 1 THEN 0 ELSE (n - 1) - 0 + 1
    BY <1>2, FS_Interval
  <2> QED BY <1>2, <2>1
<1>4. f \in Injection(M, Places)
  <2>1. f \in [M -> Places]
    BY <1>1, IndexBounds
  <2>2. \A i, j \in M : f[i] = f[j] => i = j
    <3> SUFFICES ASSUME NEW i \in M, NEW j \in M, f[i] = f[j] PROVE i = j
      OBVIOUS
    <3>1. Index(i, M) = Index(j, M) /\ Index(i, M) \in Nat
      BY <1>1, IndexBounds
    <3>2. ~(i < j)
      <4> SUFFICES ASSUME i < j PROVE FALSE OBVIOUS
      <4>1. Index(i, M) < Index(j, M)
        BY <1>1, IndexDiffers
      <4> QED BY <3>1, <4>1
    <3>3. ~(j < i)
      <4> SUFFICES ASSUME j < i PROVE FALSE OBVIOUS
      <4>1. Index(j, M) < Index(i, M)
        BY <1>1, IndexDiffers
      <4> QED BY <3>1, <4>1
    <3> QED BY <1>1, <3>2, <3>3
  <2> QED BY <2>1, <2>2 DEF Injection, IsInjective
<1>5. f \in Surjection(M, Places)
  BY <1>1, <1>3, <1>4, FS_Injection
<1>6. ASSUME NEW p \in Partition
      PROVE  \E i \in M : p \in Owned(i, M)
  <2>1. p \in Nat
    BY OwnershipAssumption DEF Partition
  <2>2. p % n \in Places
    BY <1>2, <2>1
  <2>3. PICK i \in M : f[i] = p % n
    BY <1>5, <2>2 DEF Surjection
  <2> QED BY <2>3 DEF Owned
<1> QED BY <1>6

\* Every partition has exactly one owner, a member of the list, as long as the
\* list is not empty: the instances that act on one list leave no monitor
\* unchecked and check none twice (RecalculateOwnership's p % instanceCount
\* over all places).
THEOREM OwnedCovers ==
    ASSUME NEW M \in SUBSET Instance, M # {}
    PROVE  \A p \in Partition : \E i \in M : {j \in Instance : p \in Owned(j, M)} = {i}
<1> SUFFICES ASSUME NEW p \in Partition
             PROVE  \E i \in M : {j \in Instance : p \in Owned(j, M)} = {i}
  OBVIOUS
<1>1. PICK i \in M : p \in Owned(i, M)
  BY OwnedSome
<1>2. \A j \in Instance : p \in Owned(j, M) => j = i
  BY <1>1, OwnedDisjoint
<1>3. {j \in Instance : p \in Owned(j, M)} = {i}
  BY <1>1, <1>2
<1> QED BY <1>3

-----------------------------------------------------------------------------
(* Type correctness. *)

\* The set of keys stays a set of instances, written at most MaxChanges times.
LEMMA RegistryStep ==
    ASSUME OwTypeOK, OwNext
    PROVE  registry' \in List /\ changes' \in 0 .. MaxChanges
<1>1. PICK i \in Instance : Coordinator(i) \/ Scheduler(i)
  BY DEF OwNext
<1>2. UNCHANGED etcd \/ \E M \in List : Becomes(M)
  <2>1. registry \cup {i} \in List /\ registry \ {i} \in List
    BY DEF OwTypeOK, List
  <2> QED
    BY <1>1, <2>1 DEF Coordinator, Scheduler, Register, LeaseExpires,
        reregisterWithBackoff, Crash, Shutdown, Deregister, WatchInstances,
        watchLoop, WatchStores, notify, Reconcile, ReconcileFails, ReconcileStores,
        ReconcileReturns, HandleEvent, syncMonitors, SyncFails
<1> QED BY <1>2, OwnershipAssumption DEF OwTypeOK, Becomes, etcd

\* A set of partitions is what an instance owns of any list.
LEMMA OwnedType == \A i, M : Owned(i, M) \in SUBSET Partition
BY DEF Owned

\* Queuing an event keeps the queue within its capacity.
LEMMA QueuedType ==
    ASSUME NEW S, NEW q \in Seq(S), NEW e \in S, Len(q) <= EventCap
    PROVE  Queued(q, e) \in Seq(S) /\ Len(Queued(q, e)) <= EventCap
<1>1. EventCap \in Nat /\ EventCap >= 1
  BY OwnershipAssumption
<1>2. CASE Len(q) < EventCap
  BY <1>1, <1>2 DEF Queued
<1>3. CASE ~(Len(q) < EventCap)
  <2>1. q # <<>> /\ Tail(q) \in Seq(S) /\ Len(Tail(q)) = Len(q) - 1
    BY <1>1, <1>3
  <2> QED BY <1>1, <1>3, <2>1 DEF Queued
<1> QED BY <1>2, <1>3

LEMMA OwTypeInit == OwInit => OwTypeOK
BY OwnershipAssumption DEF OwInit, OwTypeOK, List

\* The type of the process state, action by action.
LEMMA ProcStep ==
    ASSUME OwTypeOK, OwNext
    PROVE  proc' \in [Instance -> {"off", "registered", "running", "stopping"}]
<1>1. PICK i \in Instance : Coordinator(i) \/ Scheduler(i)
  BY DEF OwNext
<1>2. UNCHANGED proc \/ \E s \in {"off", "registered", "running", "stopping"} :
                            proc' = [proc EXCEPT ![i] = s]
  BY <1>1 DEF Coordinator, Scheduler, Register, LeaseExpires,
       reregisterWithBackoff, Crash, Shutdown, Deregister, WatchInstances,
       watchLoop, WatchStores, notify, Reconcile, ReconcileFails, ReconcileStores,
       ReconcileReturns, HandleEvent, syncMonitors, SyncFails
<1> QED BY <1>2 DEF OwTypeOK

LEMMA OwTypeStep == OwTypeOK /\ [OwNext]_wvars => OwTypeOK'
<1> SUFFICES ASSUME OwTypeOK, [OwNext]_wvars PROVE OwTypeOK'
  OBVIOUS
<1>1. CASE UNCHANGED wvars
  BY <1>1 DEF OwTypeOK, wvars, etcd, local, List, Partition
<1>2. CASE OwNext
  <2> USE <1>2
  <2>1. registry' \in List /\ changes' \in 0 .. MaxChanges
    BY RegistryStep
  <2>2. proc' \in [Instance -> {"off", "registered", "running", "stopping"}]
    BY ProcStep
  <2>3. registry \in List /\ {} \in List
    BY DEF OwTypeOK, List
  <2> DEFINE LocalOK ==
        /\ run' \in [Instance -> {"off", "select", "listed", "stored", "sync"}]
        /\ tickAt' \in [Instance -> List]
        /\ watch' \in [Instance -> {"off", "idle", "listed", "stored"}]
        /\ watchAt' \in [Instance -> List]
        /\ instances' \in [Instance -> List]
        /\ eventCh' \in [Instance -> Seq(List)]
        /\ \A i \in Instance : Len(eventCh'[i]) <= EventCap
        /\ applied' \in [Instance -> List]
        /\ jobs' \in [Instance -> SUBSET Partition]
  <2>4. ASSUME LocalOK PROVE OwTypeOK'
    <3>1. Partition' = Partition /\ List' = List
      BY DEF Partition, List
    <3> QED BY <2>1, <2>2, <2>4, <3>1 DEF OwTypeOK
  <2> HIDE DEF LocalOK
  <2>5. PICK i \in Instance : Coordinator(i) \/ Scheduler(i)
    BY DEF OwNext
  <2>6. CASE UNCHANGED local
    BY <2>4, <2>6 DEF LocalOK, OwTypeOK, local
  <2>7. CASE Forget(i)
    <3>1. <<>> \in Seq(List) /\ Len(<<>>) <= EventCap
      BY OwnershipAssumption
    <3>2. LocalOK
      BY <2>3, <2>7, <3>1 DEF LocalOK, OwTypeOK, Forget
    <3> QED BY <2>4, <3>2
  <2>8. CASE WatchInstances(i)
    <3>1. <<registry>> \in Seq(List) /\ Len(<<registry>>) <= EventCap
      BY <2>3, OwnershipAssumption
    <3>2. LocalOK
      BY <2>3, <2>8, <3>1 DEF LocalOK, OwTypeOK, WatchInstances
    <3> QED BY <2>4, <3>2
  <2>9. CASE watchLoop(i) \/ WatchStores(i)
    <3>1. CASE watchLoop(i)
      BY <2>3, <2>4, <3>1 DEF LocalOK, OwTypeOK, watchLoop
    <3>2. CASE WatchStores(i)
      BY <2>3, <2>4, <3>2 DEF LocalOK, OwTypeOK, WatchStores
    <3> QED BY <2>9, <3>1, <3>2
  <2>10. CASE notify(i)
    <3>1. Queued(eventCh[i], instances[i]) \in Seq(List)
          /\ Len(Queued(eventCh[i], instances[i])) <= EventCap
      BY QueuedType DEF OwTypeOK
    <3>2. LocalOK
      BY <2>10, <3>1 DEF LocalOK, OwTypeOK, notify
    <3> QED BY <2>4, <3>2
  <2>11. CASE Reconcile(i) \/ ReconcileFails(i) \/ ReconcileStores(i) \/ SyncFails(i)
    BY <2>3, <2>4, <2>11
       DEF LocalOK, OwTypeOK, Reconcile, ReconcileFails, ReconcileStores, SyncFails
  <2>12. CASE ReconcileReturns(i)
    BY <2>3, <2>4, <2>12 DEF LocalOK, OwTypeOK, ReconcileReturns, applyOwnership
  <2>13. CASE HandleEvent(i)
    <3>1. Head(eventCh[i]) \in List /\ Tail(eventCh[i]) \in Seq(List)
          /\ Len(Tail(eventCh[i])) <= EventCap
      <4> DEFINE q == eventCh[i]
      <4>1. q \in Seq(List) /\ q # <<>> /\ Len(q) <= EventCap
        BY <2>13 DEF OwTypeOK, HandleEvent
      <4> HIDE DEF q
      <4>2. EventCap \in Nat
        BY OwnershipAssumption
      <4>3. Head(q) \in List /\ Tail(q) \in Seq(List) /\ Len(Tail(q)) = Len(q) - 1
        BY <4>1
      <4> QED BY <4>1, <4>2, <4>3 DEF q
    <3>2. LocalOK
      BY <2>13, <3>1 DEF LocalOK, OwTypeOK, HandleEvent, applyOwnership
    <3> QED BY <2>4, <3>2
  <2>14. CASE syncMonitors(i)
    BY <2>4, <2>14, OwnedType DEF LocalOK, OwTypeOK, syncMonitors
  <2> QED
    BY <2>5, <2>6, <2>7, <2>8, <2>9, <2>10, <2>11, <2>12, <2>13, <2>14
       DEF Coordinator, Scheduler, Register, LeaseExpires, reregisterWithBackoff,
           Crash, Shutdown, Deregister
<1> QED BY <1>1, <1>2

\* Every list an instance holds is one that etcd once returned, and the event
\* channel never exceeds its capacity (Coordinator, notify).
THEOREM OwTypeCorrect == OwSpec => []OwTypeOK
<1>1. OwInit => OwTypeOK
  BY OwTypeInit
<1>2. OwTypeOK /\ [OwNext]_wvars => OwTypeOK'
  BY OwTypeStep
<1> QED BY <1>1, <1>2, PTL DEF OwSpec

-----------------------------------------------------------------------------
(* Agreement on the members excludes a shared job. *)

LEMMA JobsOwnedStep == OwTypeOK /\ JobsOwned /\ [OwNext]_wvars => JobsOwned'
<1> SUFFICES ASSUME OwTypeOK, JobsOwned, [OwNext]_wvars PROVE JobsOwned'
  OBVIOUS
<1>1. CASE UNCHANGED wvars
  BY <1>1 DEF JobsOwned, wvars, local, Owned, Partition, Index
<1>2. CASE OwNext
  <2> USE <1>2
  <2>3. {} \in List
    BY DEF List
  <2>4. ASSUME \A j \in Instance : jobs'[j] \subseteq Owned(j, applied'[j])
        PROVE  JobsOwned'
    BY <2>4 DEF JobsOwned, Owned, Partition, Index
  <2>5. PICK i \in Instance : Coordinator(i) \/ Scheduler(i)
    BY DEF OwNext
  <2>6. CASE UNCHANGED <<applied, jobs>>
    BY <2>4, <2>6 DEF OwTypeOK, JobsOwned
  <2>7. CASE Forget(i)
    BY <2>3, <2>4, <2>7 DEF Forget, OwTypeOK, JobsOwned
  <2>8. ASSUME NEW k \in List, applyOwnership(i, k) PROVE JobsOwned'
    BY <2>4, <2>8 DEF applyOwnership, OwTypeOK, JobsOwned
  <2>9. CASE syncMonitors(i)
    BY <2>4, <2>9 DEF syncMonitors, OwTypeOK, JobsOwned
  <2>10. CASE ReconcileReturns(i)
    BY <2>8, <2>10 DEF ReconcileReturns, OwTypeOK
  <2>11. CASE HandleEvent(i)
    <3>1. Head(eventCh[i]) \in List
      BY <2>11 DEF OwTypeOK, HandleEvent
    <3> QED BY <2>8, <2>11, <3>1 DEF HandleEvent
  <2> QED
    BY <2>5, <2>6, <2>7, <2>9, <2>10, <2>11
       DEF Coordinator, Scheduler, Register, LeaseExpires, reregisterWithBackoff,
           Crash, Shutdown, Deregister, WatchInstances, watchLoop, WatchStores, notify,
           Reconcile, ReconcileFails, ReconcileStores, SyncFails, local
<1> QED BY <1>1, <1>2

\* Instances that act on the same members never check the same monitor, for
\* any number of instances and partitions.
THEOREM NoSplitCorrect == OwSpec => []NoSplit
<1>1. OwInit => JobsOwned
  BY DEF OwInit, JobsOwned
<1>2. OwTypeOK /\ JobsOwned /\ [OwNext]_wvars => JobsOwned'
  BY JobsOwnedStep
<1>3. OwTypeOK /\ JobsOwned => NoSplit
  <2> SUFFICES ASSUME OwTypeOK, JobsOwned, NEW i \in Instance, NEW j \in Instance,
                      i # j, applied[i] = applied[j]
               PROVE  jobs[i] \cap jobs[j] = {}
    BY DEF NoSplit
  <2>1. applied[i] \in SUBSET Instance
    BY DEF OwTypeOK, List
  <2>2. Owned(i, applied[i]) \cap Owned(j, applied[i]) = {}
    BY <2>1, OwnedDisjoint
  <2> QED BY <2>2 DEF JobsOwned
<1> QED BY <1>1, <1>2, <1>3, OwTypeCorrect, PTL DEF OwSpec

-----------------------------------------------------------------------------
(* Instances that have settled. *)

\* A process that is not running checks nothing.
Quiet == \A i \in Instance : proc[i] # "running" => jobs[i] = {} /\ run[i] = "off"

LEMMA QuietStep == OwTypeOK /\ Quiet /\ [OwNext]_wvars => Quiet'
<1> SUFFICES ASSUME OwTypeOK, Quiet, [OwNext]_wvars PROVE Quiet'
  OBVIOUS
<1>1. CASE UNCHANGED <<proc, run, jobs>>
  BY <1>1 DEF Quiet
<1>2. ASSUME NEW i \in Instance, Scheduler(i) PROVE Quiet'
  <2>1. /\ run[i] # "off" /\ UNCHANGED proc
        /\ \A j \in Instance : j # i => run'[j] = run[j] /\ jobs'[j] = jobs[j]
    BY <1>2
       DEF Scheduler, Reconcile, ReconcileFails, ReconcileStores, ReconcileReturns,
           HandleEvent, applyOwnership, syncMonitors, SyncFails, OwTypeOK
  <2>2. proc[i] = "running"
    BY <2>1 DEF Quiet
  <2> QED BY <2>1, <2>2 DEF Quiet
<1>3. ASSUME NEW i \in Instance, Forget(i), NEW s, proc' = [proc EXCEPT ![i] = s] PROVE Quiet'
  BY <1>3 DEF Quiet, Forget, OwTypeOK
<1>4. ASSUME NEW i \in Instance, WatchInstances(i) PROVE Quiet'
  BY <1>4 DEF Quiet, WatchInstances, OwTypeOK
<1>5. ASSUME NEW i \in Instance, Register(i) \/ Deregister(i) PROVE Quiet'
  <2>1. proc[i] # "running" /\ UNCHANGED <<run, jobs>>
        /\ \A j \in Instance : j # i => proc'[j] = proc[j]
    BY <1>5 DEF Register, Deregister, local, OwTypeOK
  <2> QED BY <2>1 DEF Quiet
<1>6. ASSUME NEW i \in Instance, Coordinator(i) PROVE Quiet'
  BY <1>1, <1>3, <1>4, <1>5, <1>6
     DEF Coordinator, LeaseExpires, reregisterWithBackoff, Crash, Shutdown, watchLoop,
         WatchStores, notify, local
<1> QED BY <1>1, <1>2, <1>6 DEF OwNext, wvars, local

\* Once settled, each partition has the one owner RecalculateOwnership gives it.
LEMMA SettledCovers == OwTypeOK /\ Quiet /\ Settled => CoveredOnce
<1> SUFFICES ASSUME OwTypeOK, Quiet, Settled, NEW p \in Partition
             PROVE  \E i \in Instance : {j \in Instance : p \in jobs[j]} = {i}
  BY DEF CoveredOnce
<1>1. registry \in SUBSET Instance /\ registry # {}
  BY DEF OwTypeOK, List, Settled
<1>2. PICK i \in registry : {j \in Instance : p \in Owned(j, registry)} = {i}
  BY <1>1, OwnedCovers
<1>3. \A j \in Instance : p \in jobs[j] => j = i
  <2> SUFFICES ASSUME NEW j \in Instance, p \in jobs[j] PROVE j = i
    OBVIOUS
  <2>1. j \in registry
    BY DEF Quiet, Settled, Running
  <2>2. p \in Owned(j, registry)
    BY <2>1 DEF Settled
  <2> QED BY <1>2, <2>2
<1>4. p \in jobs[i]
  BY <1>2 DEF Settled
<1> QED BY <1>1, <1>3, <1>4

\* What each loop does with a list that is the present one.
LEMMA CurrentStep ==
    ASSUME OwTypeOK, Settled, NEW i \in Instance, Coordinator(i) \/ Scheduler(i),
           UNCHANGED <<registry, proc>>, NEW j \in registry
    PROVE  Current(j)' /\ jobs'[j] = Owned(j, registry)
<1>t. /\ j \in Instance /\ registry' = registry
      /\ Current(j) /\ jobs[j] = Owned(j, registry)
  BY DEF OwTypeOK, List, Settled
<1>c. /\ instances[j] = registry /\ applied[j] = registry
      /\ run[j] = "listed" => tickAt[j] = registry
      /\ watch[j] = "listed" => watchAt[j] = registry
      /\ \A k \in 1 .. Len(eventCh[j]) : eventCh[j][k] = registry
  BY <1>t DEF Current
<1>1. CASE i # j
  <2>1. /\ instances'[j] = instances[j] /\ applied'[j] = applied[j] /\ run'[j] = run[j]
        /\ tickAt'[j] = tickAt[j] /\ watch'[j] = watch[j] /\ watchAt'[j] = watchAt[j]
        /\ eventCh'[j] = eventCh[j] /\ jobs'[j] = jobs[j]
    BY <1>1, <1>t
       DEF Coordinator, Scheduler, Register, LeaseExpires, reregisterWithBackoff, Crash,
           Shutdown, Forget, Deregister, WatchInstances, watchLoop, WatchStores, notify,
           Reconcile, ReconcileFails, ReconcileStores, ReconcileReturns, HandleEvent,
           applyOwnership, syncMonitors, SyncFails, local, OwTypeOK
  <2> QED BY <1>t, <1>c, <2>1 DEF Current
<1>2. CASE i = j
  <2> USE <1>2
  <2>1. ~(\/ Register(i) \/ LeaseExpires(i) \/ reregisterWithBackoff(i) \/ Crash(i)
          \/ Shutdown(i) \/ Deregister(i) \/ WatchInstances(i))
    BY <1>t DEF Register, LeaseExpires, reregisterWithBackoff, Crash, Shutdown, Deregister,
                WatchInstances, Becomes, OwTypeOK
  <2>2. CASE watchLoop(i) \/ WatchStores(i)
    BY <1>t, <1>c, <2>2 DEF watchLoop, WatchStores, Current, OwTypeOK
  <2>3. CASE notify(i)
    <3> DEFINE q == eventCh[j]  e == Queued(q, registry)
    <3>1. /\ eventCh'[j] = e /\ watch'[j] = "idle"
          /\ UNCHANGED <<run, tickAt, watchAt, instances, applied, jobs>>
      BY <1>t, <1>c, <2>3 DEF notify, OwTypeOK
    <3>2. q \in Seq(List) /\ registry \in List
      BY <1>t DEF OwTypeOK
    <3>3. \A k \in 1 .. Len(q) : q[k] = registry
      BY <1>c
    <3> HIDE DEF q
    <3>4. \A k \in 1 .. Len(e) : e[k] = registry
      <4>1. CASE Len(q) < EventCap
        BY <3>2, <3>3, <4>1 DEF Queued
      <4>2. CASE ~(Len(q) < EventCap)
        <5>1. q # <<>>
          BY <3>2, <4>2, OwnershipAssumption
        <5>2. /\ Tail(q) \in Seq(List) /\ Len(Tail(q)) = Len(q) - 1
              /\ \A k \in 1 .. Len(q) - 1 : Tail(q)[k] = q[k + 1]
          BY <3>2, <5>1
        <5>3. \A k \in 1 .. Len(Tail(q)) : Tail(q)[k] = registry
          BY <3>2, <3>3, <5>2
        <5>4. e = Append(Tail(q), registry)
          BY <4>2 DEF Queued
        <5> DEFINE s == Tail(q)
        <5> HIDE DEF s, e
        <5>5. /\ s \in Seq(List) /\ \A k \in 1 .. Len(s) : s[k] = registry
              /\ e = Append(s, registry)
          BY <5>2, <5>3, <5>4 DEF s
        <5> QED BY <3>2, <5>5
      <4> QED BY <4>1, <4>2
    <3> HIDE DEF e
    <3> QED BY <1>t, <1>c, <3>1, <3>4 DEF Current
  <2>4. CASE Reconcile(i) \/ ReconcileFails(i) \/ ReconcileStores(i) \/ SyncFails(i)
    BY <1>t, <1>c, <2>4
       DEF Reconcile, ReconcileFails, ReconcileStores, SyncFails, Current, OwTypeOK
  <2>5. ASSUME applyOwnership(j, registry)
        PROVE  applied'[j] = registry /\ jobs'[j] = Owned(j, registry)
    BY <1>t, <1>c, <2>5 DEF applyOwnership, OwTypeOK
  <2>6. CASE ReconcileReturns(i)
    BY <1>t, <1>c, <2>5, <2>6 DEF ReconcileReturns, Current, OwTypeOK
  <2>7. CASE HandleEvent(i)
    <3> DEFINE q == eventCh[j]
    <3>1. q \in Seq(List) /\ q # <<>> /\ \A k \in 1 .. Len(q) : q[k] = registry
      BY <1>t, <1>c, <2>7 DEF HandleEvent, OwTypeOK
    <3>2. /\ eventCh'[j] = Tail(q) /\ applyOwnership(j, Head(q)) /\ run'[j] = "sync"
          /\ UNCHANGED <<tickAt, watch, watchAt, instances>>
      BY <1>t, <2>7 DEF HandleEvent, OwTypeOK
    <3> HIDE DEF q
    <3>3. Head(q) = registry
      BY <3>1
    <3>4. \A k \in 1 .. Len(Tail(q)) : Tail(q)[k] = registry
      <4>1. /\ Len(Tail(q)) = Len(q) - 1 /\ Len(q) \in Nat
            /\ \A k \in 1 .. Len(q) - 1 : Tail(q)[k] = q[k + 1]
        BY <3>1
      <4> QED BY <3>1, <4>1
    <3> QED BY <1>t, <1>c, <2>5, <3>2, <3>3, <3>4 DEF Current
  <2>8. CASE syncMonitors(i)
    <3>1. jobs'[j] = Owned(j, registry)
      BY <1>t, <1>c, <2>8 DEF syncMonitors, OwTypeOK
    <3> QED BY <1>t, <1>c, <2>8, <3>1 DEF syncMonitors, Current, OwTypeOK
  <2> QED
    BY <2>1, <2>2, <2>3, <2>4, <2>6, <2>7, <2>8 DEF Coordinator, Scheduler
<1> QED BY <1>1, <1>2

LEMMA SettledStep ==
    ASSUME OwTypeOK, Settled, [OwNext]_wvars, UNCHANGED <<registry, proc>>
    PROVE  Settled'
<1>1. Running' = registry' /\ registry' # {}
  BY DEF Settled, Running
<1>2. \A j \in registry' : Owned(j, registry)' = Owned(j, registry)
  BY DEF Owned, Index, Partition
<1>3. CASE UNCHANGED wvars
  BY <1>1, <1>2, <1>3 DEF Settled, Current, wvars, local
<1>4. CASE OwNext
  <2>1. \A j \in registry : Current(j)' /\ jobs'[j] = Owned(j, registry)
    BY <1>4, CurrentStep DEF OwNext
  <2> QED BY <1>1, <1>2, <2>1 DEF Settled
<1> QED BY <1>3, <1>4

\* Instances that have settled keep every partition checked exactly once until
\* one comes or goes, for any number of instances and partitions.
THEOREM SettledCorrect == OwSpec => SettledStays
<1>1. OwInit => Quiet
  BY DEF OwInit, Quiet
<1>2. OwTypeOK /\ Quiet /\ [OwNext]_wvars => Quiet'
  BY QuietStep
<1>3. OwTypeOK /\ Settled /\ [OwNext]_wvars /\ UNCHANGED <<registry, proc>> => Settled'
  BY SettledStep
<1>4. OwTypeOK /\ Quiet /\ Settled => CoveredOnce
  BY SettledCovers
<1> QED BY <1>1, <1>2, <1>3, <1>4, OwTypeCorrect, PTL DEF OwSpec, SettledStays
============================================================================
