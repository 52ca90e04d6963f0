------------------------ MODULE IncidentQuorumProofs ------------------------
(***************************************************************************)
(* Proofs about IncidentQuorum, and about its scenarios, for every set of  *)
(* regions and workers and every length of the time windows.               *)
(***************************************************************************)
EXTENDS QuorumScenarios, FiniteSetTheorems, TLAPS

-----------------------------------------------------------------------------
(* Types. *)

LEMMA RowTypes == NoRow \in Row /\ NoRequest \in Request
BY DEF NoRow, NoRequest, Row, Request, Status, Source

LEMMA DecisionType ==
    ASSUME NEW rw, NEW rq, incident \in Unwell \cup {"none"}
    PROVE  Decision(rw, rq) \in Unwell \cup {"none"}
BY DEF Decision, Worst, Unwell

\* The decision writes well-typed tables when it is given well-typed ones.
LEMMA EvaluateType ==
    ASSUME TypeOK, NEW rw \in [Region -> Row], NEW rq \in [Region -> Request],
           evaluate_monitor_quorum(rw, rq)
    PROVE  /\ row' \in [Region -> Row]
           /\ request' \in [Region -> Request]
           /\ incident' \in Unwell \cup {"none"}
           /\ told' \in Status
           /\ unheard' \in BOOLEAN
<1>1. incident' \in Unwell \cup {"none"}
  BY DecisionType DEF TypeOK, evaluate_monitor_quorum
<1>2. row' \in [Region -> Row]
  BY RowTypes DEF evaluate_monitor_quorum, Purged
<1>3. request' \in [Region -> Request]
  BY RowTypes DEF evaluate_monitor_quorum
<1>4. told' \in Status /\ unheard' \in BOOLEAN
  BY <1>1 DEF TypeOK, evaluate_monitor_quorum, Notify, AlertOf, Status, Unwell
<1> QED BY <1>1, <1>2, <1>3, <1>4

LEMMA ReportedType ==
    ASSUME TypeOK, NEW r \in Region, NEW s \in Status
    PROVE  Reported(r, s) \in [Region -> Row]
BY DEF TypeOK, Reported, Row, Source

LEMMA ConfirmationsType ==
    ASSUME TypeOK, NEW r \in Region, NEW rw
    PROVE  Confirmations(r, rw) \in [Region -> Request]
BY TimeAssumption DEF TypeOK, Confirmations, Request

LEMMA RecordType ==
    ASSUME TypeOK, NEW r \in Region, NEW s \in Status, NEW source,
           record_region_check(r, s, source)
    PROVE  /\ row' \in [Region -> Row]
           /\ request' \in [Region -> Request]
           /\ incident' \in Unwell \cup {"none"}
           /\ told' \in Status
           /\ unheard' \in BOOLEAN
<1>1. CASE monitor = "deleted"
  BY <1>1 DEF record_region_check, db, TypeOK
<1>2. CASE monitor # "deleted"
  <2> DEFINE rq == IF source = "SCHEDULED" /\ s # "UP"
                   THEN Confirmations(r, Reported(r, s)) ELSE request
  <2>1. rq \in [Region -> Request]
    BY ConfirmationsType DEF TypeOK
  <2>2. evaluate_monitor_quorum(Reported(r, s), rq)
    BY <1>2 DEF record_region_check
  <2> HIDE DEF rq
  <2> QED BY <2>1, <2>2, ReportedType, EvaluateType
<1> QED BY <1>1, <1>2

LEMMA OutcomesType == ASSUME NEW r \in Region PROVE Outcomes(r) \subseteq Status
BY RegionAssumption DEF Outcomes, Status, Unwell

LEMMA AgedTypes ==
    /\ \A x \in Row : AgedRow(x) \in Row
    /\ \A x \in Request : AgedRequest(x) \in Request
    /\ \A a \in Nat, l \in Nat : Older(a, l) \in Nat
<1>1. \A x \in Row : AgedRow(x) \in Row
  BY TimeAssumption DEF AgedRow, Older, FreshFor, Row
<1>2. \A x \in Request : AgedRequest(x) \in Request
  BY DEF AgedRequest, Request
<1>3. \A a \in Nat, l \in Nat : Older(a, l) \in Nat
  BY DEF Older
<1> QED BY <1>1, <1>2, <1>3

LEMMA TimePassesType ==
    ASSUME TypeOK, TimePasses
    PROVE  /\ since' \in [Region -> Nat]
           /\ row' \in [Region -> Row]
           /\ request' \in [Region -> Request]
<1>1. since' \in [Region -> Nat]
  BY DEF TypeOK, TimePasses
<1>2. row' \in [Region -> Row]
  <2>1. \A r \in Region : AgedRow(row[r]) \in Row
    BY AgedTypes DEF TypeOK
  <2> QED BY <2>1 DEF TimePasses
<1>3. request' \in [Region -> Request]
  <2>1. \A r \in Region : AgedRequest(request[r]) \in Request
    BY AgedTypes DEF TypeOK
  <2> QED BY <2>1 DEF TimePasses
<1> QED BY <1>1, <1>2, <1>3

LEMMA InitType == Init => TypeOK
<1> SUFFICES ASSUME Init PROVE TypeOK
  OBVIOUS
<1>1. heartbeat \in [Region -> Nat] /\ since \in [Region -> Nat]
  BY TimeAssumption DEF Init
<1>2. row \in [Region -> Row] /\ request \in [Region -> Request]
  BY RowTypes DEF Init
<1>3. regions \in SUBSET Region /\ jobs \in SUBSET Region
  BY RegionAssumption DEF Init
<1>4. pc \in [Worker -> {"idle", "verify", "complete", "evaluate"}]
  BY DEF Init
<1>5. told \in Status /\ incident \in Unwell \cup {"none"}
  BY DEF Init, Status
<1>6. audible \in BOOLEAN /\ unheard \in BOOLEAN /\ outage \in BOOLEAN /\ cleanup \in BOOLEAN
  BY DEF Init
<1> QED BY <1>1, <1>2, <1>3, <1>4, <1>5, <1>6 DEF Init, TypeOK

LEMMA NextType == TypeOK /\ [Next]_vars => TypeOK'
<1> SUFFICES ASSUME TypeOK, [Next]_vars PROVE TypeOK'
  OBVIOUS
<1>1. CASE Tick
  <2>1. heartbeat' \in [Region -> Nat]
    <3>1. \A r \in Region : Older(heartbeat[r], ActiveWindow) \in Nat
      BY AgedTypes, TimeAssumption DEF TypeOK
    <3> QED BY <1>1, <3>1 DEF Tick
  <2>2. TimePasses
    BY <1>1 DEF Tick
  <2> QED BY <2>1, <2>2, TimePassesType DEF TypeOK, TimePasses, config
<1>2. ASSUME NEW r \in Region, runCheck(r) PROVE TypeOK'
  <2>1. PICK s \in Outcomes(r) : record_region_check(r, s, "SCHEDULED")
    BY <1>2 DEF runCheck
  <2>2. s \in Status
    BY OutcomesType
  <2>3. since' \in [Region -> Nat]
    BY <1>2 DEF TypeOK, runCheck
  <2> QED BY <1>2, <2>1, <2>2, <2>3, RecordType DEF TypeOK, runCheck, config
<1>3. ASSUME NEW r \in Region, syncMonitors(r) PROVE TypeOK'
  BY <1>3, TimeAssumption DEF TypeOK, syncMonitors, config, db
<1>4. ASSUME NEW w \in Worker, beat(w) PROVE TypeOK'
  <2>1. heartbeat' \in [Region -> Nat]
    BY <1>4 DEF TypeOK, beat
  <2> QED BY <1>4, <2>1 DEF TypeOK, beat, config, db
<1>5. ASSUME NEW w \in Worker, ClaimVerificationRequests(w) PROVE TypeOK'
  <2>1. request' \in [Region -> Request]
    <3>1. [request[RegionOf[w]] EXCEPT !.holder = w] \in Request
      BY WorkerAssumption DEF TypeOK, Request
    <3>2. request' = [request EXCEPT ![RegionOf[w]] =
                         [request[RegionOf[w]] EXCEPT !.holder = w]]
      BY <1>5 DEF ClaimVerificationRequests
    <3> QED BY <3>1, <3>2 DEF TypeOK
  <2>2. pc' \in [Worker -> {"idle", "verify", "complete", "evaluate"}]
    BY <1>5 DEF TypeOK, ClaimVerificationRequests, GoTo
  <2> QED BY <1>5, <2>1, <2>2 DEF TypeOK, ClaimVerificationRequests, config
<1>6. ASSUME NEW w \in Worker, verify(w) PROVE TypeOK'
  <2>0. RegionOf[w] \in Region
    BY WorkerAssumption
  <2>1. PICK s \in Outcomes(RegionOf[w]) :
            record_region_check(RegionOf[w], s, "VERIFICATION")
    BY <1>6 DEF verify
  <2>2. s \in Status
    BY <2>0, OutcomesType
  <2>3. pc' \in [Worker -> {"idle", "verify", "complete", "evaluate"}]
    BY <1>6 DEF TypeOK, verify, GoTo
  <2> QED BY <1>6, <2>0, <2>1, <2>2, <2>3, RecordType DEF TypeOK, verify, config
<1>7. ASSUME NEW w \in Worker, complete(w) PROVE TypeOK'
  BY <1>7, RowTypes, WorkerAssumption DEF TypeOK, complete, config, GoTo
<1>8. ASSUME NEW w \in Worker, ExpireVerificationRequests(w) PROVE TypeOK'
  BY <1>8, RowTypes DEF TypeOK, ExpireVerificationRequests, config, GoTo
<1>9. ASSUME NEW w \in Worker, EvaluateMonitorQuorum(w) PROVE TypeOK'
  <2>1. pc' \in [Worker -> {"idle", "verify", "complete", "evaluate"}]
    BY <1>9 DEF TypeOK, EvaluateMonitorQuorum, GoTo
  <2>2. CASE UNCHANGED db
    BY <1>9, <2>1, <2>2 DEF TypeOK, EvaluateMonitorQuorum, config, db
  <2>3. CASE evaluate_monitor_quorum(row, request)
    <3>1. row \in [Region -> Row] /\ request \in [Region -> Request]
      BY DEF TypeOK
    <3> QED BY <1>9, <2>1, <2>3, <3>1, EvaluateType
            DEF TypeOK, EvaluateMonitorQuorum, config
  <2> QED BY <1>9, <2>2, <2>3 DEF EvaluateMonitorQuorum
<1>10. ASSUME NEW w \in Worker, Abandon(w) \/ LoseEvaluation(w) PROVE TypeOK'
  BY <1>10 DEF TypeOK, Abandon, LoseEvaluation, config, db, GoTo
<1>11. ASSUME NEW R \in Choices, UpdateMonitorRegions(R) PROVE TypeOK'
  BY <1>11, RegionAssumption DEF TypeOK, UpdateMonitorRegions, db
<1>12. CASE CleanupRegionStatus
  BY <1>12, RowTypes DEF TypeOK, CleanupRegionStatus
<1>13. CASE UpdateMonitorEnabled
  BY <1>13 DEF TypeOK, UpdateMonitorEnabled, db
<1>14. CASE DeleteMonitor
  <2>1. row' \in [Region -> Row] /\ request' \in [Region -> Request]
    BY <1>14, RowTypes DEF DeleteMonitor
  <2>2. unheard' \in BOOLEAN
    BY <1>14 DEF DeleteMonitor
  <2> QED BY <1>14, <2>1, <2>2 DEF TypeOK, DeleteMonitor
<1>15. CASE ToggleAudible
  BY <1>15 DEF TypeOK, ToggleAudible, config, db
<1>16. CASE ToggleOutage
  BY <1>16 DEF TypeOK, ToggleOutage, config, db
<1>17. CASE UNCHANGED vars
  BY <1>17 DEF TypeOK, vars, config, db
<1> QED
  BY <1>1, <1>2, <1>3, <1>4, <1>5, <1>6, <1>7, <1>8, <1>9, <1>10, <1>11, <1>12,
     <1>13, <1>14, <1>15, <1>16, <1>17
     DEF Next, Check, Beat, Verify, Sweep, Fault, Edit, Owner

\* Every table keeps its shape under every interleaving, fault and edit, for
\* any number of regions and workers and any windows.
THEOREM TypeCorrect == Spec => []TypeOK
BY InitType, NextType, PTL DEF Spec

-----------------------------------------------------------------------------
(* Incidents and alerts: only the quorum decision and the delete touch them. *)

LEMMA IncidentSteps ==
    ASSUME [Next]_vars
    PROVE  \/ UNCHANGED <<incident, told, unheard>>
           \/ \E rw, rq : evaluate_monitor_quorum(rw, rq)
           \/ DeleteMonitor
<1>1. ASSUME NEW r, NEW s, NEW source, record_region_check(r, s, source)
      PROVE  \/ UNCHANGED <<incident, told, unheard>>
             \/ \E rw, rq : evaluate_monitor_quorum(rw, rq)
  BY <1>1 DEF record_region_check, db
<1>2. ASSUME NEW r \in Region, runCheck(r)
      PROVE  \/ UNCHANGED <<incident, told, unheard>>
             \/ \E rw, rq : evaluate_monitor_quorum(rw, rq)
  BY <1>1, <1>2 DEF runCheck
<1>3. ASSUME NEW w \in Worker, verify(w)
      PROVE  \/ UNCHANGED <<incident, told, unheard>>
             \/ \E rw, rq : evaluate_monitor_quorum(rw, rq)
  BY <1>1, <1>3 DEF verify
<1>4. ASSUME NEW w \in Worker, EvaluateMonitorQuorum(w)
      PROVE  \/ UNCHANGED <<incident, told, unheard>>
             \/ \E rw, rq : evaluate_monitor_quorum(rw, rq)
  BY <1>4 DEF EvaluateMonitorQuorum, db
<1>5. CASE \/ Tick \/ Beat \/ Edit \/ Fault \/ UpdateMonitorEnabled
           \/ ToggleAudible \/ ToggleOutage \/ UNCHANGED vars
  BY <1>5 DEF Tick, TimePasses, Beat, beat, Edit, UpdateMonitorRegions,
              CleanupRegionStatus, syncMonitors, Fault, Abandon, LoseEvaluation,
              UpdateMonitorEnabled, ToggleAudible, ToggleOutage, vars, db
<1>6. ASSUME NEW w \in Worker,
             ClaimVerificationRequests(w) \/ complete(w) \/ ExpireVerificationRequests(w)
      PROVE  UNCHANGED <<incident, told, unheard>>
  BY <1>6 DEF ClaimVerificationRequests, complete, ExpireVerificationRequests
<1> QED
  BY <1>2, <1>3, <1>4, <1>5, <1>6 DEF Next, Check, Verify, Sweep, Owner

\* For any regions, workers and windows: unless the last transition was
\* muted, the last alert enqueued carries the state of the incident.
THEOREM ToldCorrect == Spec => []ToldMatchesIncident
<1>1. Init => ToldMatchesIncident
  BY DEF Init, ToldMatchesIncident, AlertOf
<1>2. ToldMatchesIncident /\ [Next]_vars => ToldMatchesIncident'
  <2> SUFFICES ASSUME ToldMatchesIncident, [Next]_vars PROVE ToldMatchesIncident'
    OBVIOUS
  <2>1. CASE UNCHANGED <<incident, told, unheard>>
    BY <2>1 DEF ToldMatchesIncident
  <2>2. ASSUME NEW rw, NEW rq, evaluate_monitor_quorum(rw, rq)
        PROVE  ToldMatchesIncident'
    BY <2>2 DEF evaluate_monitor_quorum, Notify, ToldMatchesIncident
  <2>3. CASE DeleteMonitor
    BY <2>3 DEF DeleteMonitor, ToldMatchesIncident
  <2> QED BY <2>1, <2>2, <2>3, IncidentSteps
<1> QED BY <1>1, <1>2, PTL DEF Spec

\* Every run of the detailed system is a run of the abstract life cycle: the
\* regions' reports can neither open a second incident, nor soften an open
\* one, nor alert without a transition.
THEOREM LifecycleRefinement == Spec => ImplementsLifecycle
<1>1. Init => Lifecycle!LInit
  BY DEF Init, Lifecycle!LInit
<1>2. TypeOK /\ [Next]_vars => [Lifecycle!LNext]_(Lifecycle!lvars)
  <2> SUFFICES ASSUME TypeOK, [Next]_vars
               PROVE  Lifecycle!LNext \/ UNCHANGED <<incident, told, unheard>>
    BY DEF Lifecycle!lvars
  <2>1. ASSUME NEW rw, NEW rq, evaluate_monitor_quorum(rw, rq)
        PROVE  Lifecycle!LNext \/ UNCHANGED <<incident, told, unheard>>
    <3>1. CASE incident' = incident
      BY <2>1, <3>1 DEF evaluate_monitor_quorum, Notify
    <3>2. CASE incident' # incident
      <4>1. Lifecycle!Announce
        BY <2>1, <3>2 DEF evaluate_monitor_quorum, Notify, AlertOf,
                          Lifecycle!Announce, Lifecycle!AlertOf
      <4>2. incident \in {"none", "DEGRADED", "DOWN"} /\ incident' \in {"none", "DEGRADED", "DOWN"}
        BY <2>1, DecisionType DEF TypeOK, evaluate_monitor_quorum, Unwell
      <4>3. ~(incident = "DOWN" /\ incident' = "DEGRADED")
        BY <2>1 DEF evaluate_monitor_quorum, Decision
      <4> QED BY <3>2, <4>1, <4>2, <4>3
              DEF Lifecycle!LNext, Lifecycle!Open, Lifecycle!Escalate,
                  Lifecycle!Resolve, Lifecycle!Unwell
    <3> QED BY <3>1, <3>2
  <2>2. CASE DeleteMonitor
    <3>1. CASE incident = "none"
      <4>1. unheard' = unheard
        BY <2>2, <3>1 DEF DeleteMonitor, TypeOK
      <4> QED BY <2>2, <3>1, <4>1 DEF DeleteMonitor
    <3>2. CASE incident # "none"
      BY <2>2, <3>2 DEF DeleteMonitor, TypeOK, Unwell, Lifecycle!LNext,
                        Lifecycle!Resolve, Lifecycle!Announce, Lifecycle!Unwell
    <3> QED BY <3>1, <3>2
  <2> QED BY <2>1, <2>2, IncidentSteps
<1> QED BY <1>1, <1>2, TypeCorrect, PTL DEF Spec, ImplementsLifecycle, Lifecycle!LSpec

-----------------------------------------------------------------------------
(* Deletion. *)

LEMMA DeletedStep ==
    ASSUME TypeOK, DeletedLeavesNothing, [Next]_vars, monitor' = "deleted"
    PROVE  /\ \A r \in Region : row'[r] = NoRow /\ request'[r] = NoRequest
           /\ incident' = "none"
<1>1. CASE DeleteMonitor
  BY <1>1 DEF DeleteMonitor
<1> SUFFICES ASSUME ~DeleteMonitor,
                    monitor = "deleted",
                    \A r \in Region : row[r] = NoRow /\ request[r] = NoRequest,
                    incident = "none"
             PROVE  /\ \A r \in Region : row'[r] = NoRow /\ request'[r] = NoRequest
                    /\ incident' = "none"
  <2>1. ~DeleteMonitor => monitor = "deleted"
    BY DEF Next, Tick, TimePasses, Check, runCheck, Beat, beat, Verify, verify,
           ClaimVerificationRequests, complete, Sweep, ExpireVerificationRequests,
           EvaluateMonitorQuorum, Fault, Abandon, LoseEvaluation, Edit,
           UpdateMonitorRegions, CleanupRegionStatus, syncMonitors, Owner,
           UpdateMonitorEnabled, ToggleAudible, ToggleOutage, vars, config
  <2> QED BY <1>1, <2>1 DEF DeletedLeavesNothing
<1>2. CASE UNCHANGED db
  BY <1>2 DEF db
<1>3. CASE Tick
  <2>1. AgedRow(NoRow) = NoRow /\ AgedRequest(NoRequest) = NoRequest
    BY DEF AgedRow, AgedRequest, NoRow, NoRequest
  <2> QED BY <1>3, <2>1 DEF Tick, TimePasses
<1>4. CASE Check \/ (\E w \in Worker : verify(w) \/ EvaluateMonitorQuorum(w))
  <2>1. UNCHANGED db
    BY <1>4 DEF Check, runCheck, verify, record_region_check, EvaluateMonitorQuorum
  <2> QED BY <1>2, <2>1
<1>5. CASE \E w \in Worker : ClaimVerificationRequests(w)
  BY <1>5 DEF ClaimVerificationRequests
<1>6. CASE \E w \in Worker : complete(w) \/ ExpireVerificationRequests(w)
  <2>1. PICK w \in Worker : complete(w) \/ ExpireVerificationRequests(w)
    BY <1>6
  <2>2. \A r \in Region : request'[r] \in {request[r], NoRequest}
    BY <2>1 DEF complete, ExpireVerificationRequests, TypeOK
  <2>3. UNCHANGED <<row, incident>>
    BY <2>1 DEF complete, ExpireVerificationRequests
  <2> QED BY <2>2, <2>3
<1>7. CASE Edit
  BY <1>2, <1>7 DEF Edit, UpdateMonitorRegions, CleanupRegionStatus, syncMonitors
<1>8. CASE Beat \/ Fault \/ ToggleAudible \/ ToggleOutage \/ UNCHANGED vars
  BY <1>2, <1>8 DEF Beat, beat, Fault, Abandon, LoseEvaluation, ToggleAudible,
                    ToggleOutage, vars
<1>9. ~UpdateMonitorEnabled
  BY DEF UpdateMonitorEnabled
<1> QED BY <1>3, <1>4, <1>5, <1>6, <1>7, <1>8, <1>9 DEF Next, Verify, Sweep, Owner

\* Whatever was in flight when the monitor was deleted, in any number of
\* regions and workers, nothing of it is ever brought back.
THEOREM DeletedCorrect == Spec => []DeletedLeavesNothing
<1>1. Init => DeletedLeavesNothing
  BY DEF Init, DeletedLeavesNothing
<1>2. TypeOK /\ DeletedLeavesNothing /\ [Next]_vars => DeletedLeavesNothing'
  <2> SUFFICES ASSUME TypeOK, DeletedLeavesNothing, [Next]_vars, monitor' = "deleted"
               PROVE  /\ \A r \in Region : row'[r] = NoRow /\ request'[r] = NoRequest
                      /\ incident' = "none"
    BY DEF DeletedLeavesNothing, NoRow, NoRequest
  <2> QED BY DeletedStep
<1> QED BY <1>1, <1>2, TypeCorrect, PTL DEF Spec

-----------------------------------------------------------------------------
(* A healthy platform, where one region alone sees failures. *)

LEMMA HealthyType == TypeOK /\ [HealthyNext]_vars => TypeOK'
<1> SUFFICES ASSUME TypeOK, HealthyTick PROVE TypeOK'
  BY NextType DEF HealthyNext, Next
<1>1. heartbeat' \in [Region -> Nat]
  BY DEF HealthyTick
<1>2. TimePasses
  BY DEF HealthyTick
<1> QED BY <1>1, <1>2, TimePassesType DEF TypeOK, TimePasses, config

LEMMA TotalType ==
    ASSUME NEW rw, NEW rq, regions \in SUBSET Region
    PROVE  Total(rw, rq) \in Nat
<1>1. Reporters(rw) \in SUBSET Region /\ Pending(rw, rq) \in SUBSET Region
  BY DEF Reporters, Pending, Active
<1>2. Cardinality(Reporters(rw)) \in Nat /\ Cardinality(Pending(rw, rq)) \in Nat
  BY <1>1, RegionAssumption, FS_Subset, FS_CardinalityType
<1> QED BY <1>2 DEF Total

\* The counting argument: one unhealthy report is no majority once a second
\* region has reported or is being asked.
LEMMA OneIsNoMajority ==
    ASSUME NEW rw, NEW rq, NEW f \in Region, NEW q \in Region, q # f,
           Unhealthy(rw) \subseteq {f},
           q \in Reporters(rw) \cup Pending(rw, rq),
           regions \in SUBSET Region
    PROVE  Decision(rw, rq) = "none"
<1> DEFINE R == Reporters(rw)  P == Pending(rw, rq)  U == Unhealthy(rw)
<1>1. R \in SUBSET Region /\ P \in SUBSET Region /\ U \in SUBSET R /\ R \cap P = {}
  BY DEF Reporters, Pending, Unhealthy, Active
<1>2. /\ IsFiniteSet(R) /\ IsFiniteSet(P) /\ IsFiniteSet(U) /\ IsFiniteSet(R \cup P)
      /\ Cardinality(R) \in Nat /\ Cardinality(P) \in Nat /\ Cardinality(U) \in Nat
  BY <1>1, RegionAssumption, FS_Subset, FS_CardinalityType, FS_Union
<1>3. Cardinality(R \cup P) = Cardinality(R) + Cardinality(P)
  <2>1. Cardinality(R \cap P) = 0
    BY <1>1, FS_EmptySet
  <2> HIDE DEF R, P
  <2>2. Cardinality(R \cup P) = Cardinality(R) + Cardinality(P) - Cardinality(R \cap P)
    BY <1>2, FS_Union
  <2> QED BY <1>2, <2>1, <2>2
<1>4. Total(rw, rq) \in Nat /\ Total(rw, rq) >= Cardinality(R) + Cardinality(P)
  BY <1>2 DEF Total
<1>5. CASE U = {}
  <2>1. Cardinality(U) = 0
    BY <1>5, FS_EmptySet
  <2>2. Total(rw, rq) >= 1
    BY <1>2 DEF Total
  <2> QED BY <1>4, <2>1, <2>2 DEF Decision
<1>6. CASE U # {}
  <2>1. U = {f} /\ {f, q} \in SUBSET (R \cup P)
    BY <1>1, <1>6
  <2>2. Cardinality(U) = 1
    BY <2>1, FS_Singleton
  <2>3. IsFiniteSet({f}) /\ Cardinality({f}) = 1
    BY FS_Singleton
  <2>4. Cardinality({f} \cup {q}) = 2
    BY <2>3, FS_AddElement
  <2>5. Cardinality({f} \cup {q}) <= Cardinality(R \cup P)
    BY <1>2, <2>1, FS_Subset
  <2> QED BY <1>2, <1>3, <1>4, <2>2, <2>4, <2>5 DEF Decision, Total
<1> QED BY <1>5, <1>6

\* Every report that is recorded leaves a second region in the count, so the
\* decision is "none" again.
LEMMA RecordKeepsQuiet ==
    ASSUME LoneFlaky, TypeOK, BlipInv, NEW r \in Region, NEW source,
           NEW s \in Status, r \notin Flaky => s = "UP",
           r \in Flaky => source = "SCHEDULED",
           record_region_check(r, s, source)
    PROVE  /\ incident' = "none"
           /\ row' = Reported(r, s)
           /\ request' \in {request, Confirmations(r, Reported(r, s))}
           /\ r \notin Flaky => request' = request
<1>1. PICK f \in Region : Flaky = {f} /\ Region # {f}
  BY DEF LoneFlaky
<1>2. PICK q \in Region : q # f
  BY <1>1
<1> DEFINE rw == Reported(r, s)
           rq == IF source = "SCHEDULED" /\ s # "UP" THEN Confirmations(r, rw) ELSE request
<1>3. evaluate_monitor_quorum(rw, rq)
  BY DEF record_region_check, BlipInv
<1>4. Active = Region
  BY TimeAssumption DEF Active, BlipInv
<1>5. rw \in [Region -> Row] /\ rw[r].status = s /\ rw[r].age = 0
      /\ \A p \in Region \ {r} : rw[p] = row[p]
  BY ReportedType DEF Reported, TypeOK
<1>6. \A p \in Region : rw[p].status # "none" /\ rw[p].age <= Recency => p \in Reporters(rw)
  <2> SUFFICES ASSUME NEW p \in Region, rw[p].status # "none", rw[p].age <= Recency
               PROVE  p \in Reporters(rw)
    OBVIOUS
  <2>1. rw[p].age \in Nat
    BY <1>5 DEF Row
  <2>2. rw[p].age <= FreshFor(rw[p].source)
    BY <2>1, TimeAssumption DEF FreshFor
  <2> QED BY <1>4, <2>2 DEF Reporters, Fresh
<1>7. r \in Reporters(rw)
  BY <1>5, <1>6, TimeAssumption DEF Status
<1>8. \A p \in Region \ {f} : rw[p].status \in {"none", "UP"}
  BY <1>1, <1>5 DEF BlipInv
<1>9. Unhealthy(rw) \subseteq {f}
  <2>1. \A p \in Reporters(rw) : p \in Region /\ rw[p].status # "none"
    BY RegionAssumption DEF Reporters, Active, Fresh, TypeOK
  <2> QED BY <1>8, <2>1 DEF Unhealthy
<1> HIDE DEF rw
<1>10. Decision(rw, rq) = "none"
  <2>1. CASE r # f
    BY <1>7, <1>9, <2>1, OneIsNoMajority DEF TypeOK
  <2>2. CASE r = f /\ s # "UP"
    <3>1. rq = Confirmations(r, rw)
      BY <1>1, <2>2
    <3>2. CASE rw[q].status # "none" /\ rw[q].age <= Recency
      BY <1>2, <1>6, <1>9, <3>2, OneIsNoMajority DEF TypeOK
    <3>3. CASE ~(rw[q].status # "none" /\ rw[q].age <= Recency)
      <4>1. rq[q].asked /\ rq[q].left = RequestTTL
        BY <1>2, <1>4, <2>2, <3>1, <3>3 DEF Confirmations, Asks, BlipInv
      <4>2. q \in Reporters(rw) \cup Pending(rw, rq)
        BY <1>4, <4>1, TimeAssumption DEF Pending
      <4> HIDE DEF rq
      <4> QED BY <1>2, <1>9, <4>2, OneIsNoMajority DEF TypeOK
    <3> QED BY <3>2, <3>3
  <2>3. CASE r = f /\ s = "UP"
    <3>1. Unhealthy(rw) = {}
      BY <1>5, <1>9, <2>3 DEF Unhealthy, rw
    <3>3. Cardinality(Unhealthy(rw)) = 0
      BY <3>1, FS_EmptySet
    <3>4. Total(rw, rq) \in Nat
      BY TotalType DEF TypeOK
    <3> QED BY <3>3, <3>4 DEF Decision
  <2> QED BY <2>1, <2>2, <2>3
<1>11. incident = "none"
  BY DEF BlipInv
<1> QED BY <1>1, <1>3, <1>10, <1>11 DEF evaluate_monitor_quorum, Resolves, rw

LEMMA BlipInit == LoneFlaky /\ HealthyInit => BlipInv
<1> SUFFICES ASSUME LoneFlaky, HealthyInit PROVE BlipInv
  OBVIOUS
<1>1. \A r \in Region : heartbeat[r] = 0 /\ row[r].status = "none" /\ ~request[r].asked
  BY DEF HealthyInit, Init, NoRow, NoRequest
<1>2. Flaky \subseteq Region
  BY RegionAssumption
<1> QED BY <1>1, <1>2 DEF HealthyInit, Init, BlipInv

LEMMA BlipStep == LoneFlaky /\ TypeOK /\ BlipInv /\ [HealthyNext]_vars => BlipInv'
<1> SUFFICES ASSUME LoneFlaky, TypeOK, BlipInv, [HealthyNext]_vars PROVE BlipInv'
  OBVIOUS
<1> USE RegionAssumption, WorkerAssumption, TimeAssumption
<1>1. CASE HealthyTick
  <2>1. \A r \in Region : heartbeat'[r] = 0
    BY <1>1 DEF HealthyTick
  <2>2. \A r \in Region : ~request'[r].asked
    BY <1>1 DEF HealthyTick, Answered, TimePasses, AgedRequest
  <2>3. \A r \in Region : row'[r].status = row[r].status
    <3> SUFFICES ASSUME NEW r \in Region PROVE row'[r].status = row[r].status
      OBVIOUS
    <3>1. row'[r] = AgedRow(row[r]) /\ row[r] \in Row
      BY <1>1 DEF HealthyTick, TimePasses, TypeOK
    <3> QED BY <3>1 DEF AgedRow, Row
  <2> QED BY <1>1, <2>1, <2>2, <2>3 DEF HealthyTick, TimePasses, config, BlipInv
<1>2. ASSUME NEW r \in Region, runCheck(r) PROVE BlipInv'
  <2>1. PICK s \in Outcomes(r) : record_region_check(r, s, "SCHEDULED")
    BY <1>2 DEF runCheck
  <2>2. s \in Status /\ (r \notin Flaky => s = "UP")
    BY OutcomesType DEF Outcomes, BlipInv
  <2>3. /\ incident' = "none" /\ row' = Reported(r, s)
        /\ request' \in {request, Confirmations(r, Reported(r, s))}
        /\ r \notin Flaky => request' = request
    BY <2>1, <2>2, RecordKeepsQuiet
  <2>4. \A p \in Region \ Flaky : row'[p].status \in {"none", "UP"}
    BY <2>2, <2>3 DEF Reported, BlipInv, TypeOK
  <2>5. \A p \in Flaky : ~request'[p].asked
    BY <2>3 DEF Confirmations, Asks, BlipInv, LoneFlaky
  <2>6. \A p \in Region : request'[p].asked => request'[p].left = RequestTTL
    BY <2>3 DEF Confirmations, BlipInv
  <2> QED BY <1>2, <2>3, <2>4, <2>5, <2>6 DEF runCheck, config, BlipInv
<1>3. ASSUME NEW w \in Worker, beat(w) PROVE BlipInv'
  BY <1>3 DEF beat, BlipInv, TypeOK, config, db
<1>4. ASSUME NEW w \in Worker, ClaimVerificationRequests(w) PROVE BlipInv'
  <2>1. \A r \in Region : /\ request'[r].asked = request[r].asked
                          /\ request'[r].left = request[r].left
    BY <1>4 DEF ClaimVerificationRequests, TypeOK, Request
  <2>2. RegionOf[w] \notin Flaky /\ pc' = [pc EXCEPT ![w] = "verify"]
    BY <1>4 DEF ClaimVerificationRequests, GoTo, BlipInv
  <2> QED BY <1>4, <2>1, <2>2 DEF ClaimVerificationRequests, config, BlipInv, TypeOK
<1>5. ASSUME NEW w \in Worker, verify(w) PROVE BlipInv'
  <2>1. PICK s \in Outcomes(RegionOf[w]) :
            record_region_check(RegionOf[w], s, "VERIFICATION")
    BY <1>5 DEF verify
  <2>2. RegionOf[w] \in Region /\ RegionOf[w] \notin Flaky
    BY <1>5 DEF verify, BlipInv
  <2>3. s = "UP" /\ s \in Status
    BY <2>2 DEF Outcomes, BlipInv, Status
  <2>4. /\ incident' = "none" /\ row' = Reported(RegionOf[w], s) /\ request' = request
    BY <2>1, <2>2, <2>3, RecordKeepsQuiet
  <2>5. \A p \in Region \ Flaky : row'[p].status \in {"none", "UP"}
    BY <2>3, <2>4 DEF Reported, BlipInv, TypeOK
  <2> QED BY <1>5, <2>4, <2>5 DEF verify, GoTo, config, BlipInv, TypeOK
<1>6. ASSUME NEW w \in Worker, complete(w) PROVE BlipInv'
  <2>1. \A r \in Region : request'[r] \in {request[r], NoRequest}
    BY <1>6 DEF complete, TypeOK
  <2> QED BY <1>6, <2>1 DEF complete, GoTo, config, BlipInv, TypeOK, NoRequest
<1>7. ASSUME NEW w \in Worker,
             ExpireVerificationRequests(w) \/ EvaluateMonitorQuorum(w)
      PROVE  FALSE
  BY <1>7 DEF ExpireVerificationRequests, EvaluateMonitorQuorum, Expired, BlipInv
<1>8. ASSUME NEW R \in Choices, UpdateMonitorRegions(R) PROVE BlipInv'
  BY <1>8 DEF UpdateMonitorRegions, db, BlipInv
<1>9. CASE CleanupRegionStatus
  BY <1>9 DEF CleanupRegionStatus, NoRow, BlipInv
<1>10. ASSUME NEW r \in Region, syncMonitors(r) PROVE BlipInv'
  BY <1>10 DEF syncMonitors, config, db, BlipInv
<1>11. CASE ToggleAudible \/ UNCHANGED vars
  BY <1>11 DEF ToggleAudible, vars, config, db, BlipInv
<1>12. CASE ToggleOutage
  BY <1>12 DEF ToggleOutage, LoneFlaky
<1> QED
  BY <1>1, <1>2, <1>3, <1>4, <1>5, <1>6, <1>7, <1>8, <1>9, <1>10, <1>11, <1>12
     DEF HealthyNext, Check, Beat, Verify, Sweep, Edit

\* However many regions there are, however the monitor's regions are edited
\* and whatever the windows: on a healthy platform a failure that one region
\* alone sees never opens an incident.
THEOREM BlipSafe ==
    ASSUME LoneFlaky
    PROVE  HealthySpec => []BlipNeverAlerts
<1>1. HealthyInit => TypeOK /\ BlipInv
  BY InitType, BlipInit DEF HealthyInit
<1>2. TypeOK /\ BlipInv /\ [HealthyNext]_vars => TypeOK' /\ BlipInv'
  BY HealthyType, BlipStep
<1>3. BlipInv => BlipNeverAlerts
  BY DEF BlipInv, BlipNeverAlerts
<1> QED BY <1>1, <1>2, <1>3, PTL DEF HealthySpec
=============================================================================
