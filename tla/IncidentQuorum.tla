--------------------------- MODULE IncidentQuorum ---------------------------
(***************************************************************************)
(* Cross-region alert confirmation for one monitor.                        *)
(*                                                                         *)
(* Scheduler pools in several regions share a database.  A failing         *)
(* scheduled check asks every other active region to confirm; every check  *)
(* that is recorded, and every sweep of expired confirmation requests,     *)
(* re-runs the quorum decision that opens, escalates or resolves the       *)
(* monitor's incident.  record_region_check and evaluate_monitor_quorum    *)
(* take a per-monitor advisory lock, so each is one atomic step here and   *)
(* one monitor is modelled; everything else the schedulers and the API do  *)
(* interleaves with them.                                                  *)
(*                                                                         *)
(* Time is kept as ages and remaining times in an arbitrary unit.  An age  *)
(* stops growing once no comparison of the code can tell it from a larger  *)
(* one.                                                                    *)
(***************************************************************************)
EXTENDS Integers, FiniteSets

CONSTANTS
    Region,         \* the regions that may have a scheduler pool
    Worker,         \* the verification workers, one per scheduler instance
    RegionOf,       \* the region each worker runs in
    Nobody,         \* the holder of an unclaimed request
    Home,           \* the regions the monitor is configured for at first
    Choices,        \* the region lists the owner may change it to
    Flaky,          \* the regions whose checks need not reflect the target
    FlakyStatus,    \* what those checks may return
    CanFail,        \* whether the monitored target may go down
    ActiveWindow,   \* a heartbeat no older than this makes a region active
    Recency,        \* a report no older than this needs no confirmation
    RequestTTL,     \* how long a confirmation request lives
    VerifyFresh,    \* how long a VERIFICATION report counts
    SchedFresh,     \* how long a SCHEDULED report counts
    MinGap          \* time between two checks of one job (0: jobs restart)

ASSUME RegionAssumption ==
    /\ IsFiniteSet(Region)
    /\ Home \subseteq Region
    /\ Home # {}
    /\ Choices \subseteq SUBSET Region
    /\ Flaky \subseteq Region
    /\ FlakyStatus \subseteq {"UP", "DEGRADED", "DOWN"}

ASSUME WorkerAssumption ==
    /\ RegionOf \in [Worker -> Region]
    /\ Nobody \notin Worker

ASSUME TimeAssumption ==
    /\ ActiveWindow \in Nat
    /\ Recency \in Nat
    /\ RequestTTL \in Nat \ {0}
    /\ VerifyFresh \in Nat
    /\ SchedFresh \in Nat
    /\ MinGap \in Nat
    /\ Recency <= VerifyFresh
    /\ Recency <= SchedFresh

ASSUME CanFailAssumption == CanFail \in BOOLEAN

VARIABLES
    monitor,    \* the monitor's row: "enabled", "paused" or "deleted"
    regions,    \* the regions configured on it
    cleanup,    \* UpdateMonitor has yet to delete the unconfigured rows
    jobs,       \* the regions whose pool runs a check job for it
    since,      \* per region, time since the job's last check
    heartbeat,  \* per region, age of its heartbeat
    row,        \* per region, its row of monitor_region_status
    request,    \* per region, its row of region_verification_requests
    pc,         \* per worker, where its poll loop stands
    incident,   \* "none", or the status of the open incident
    told,       \* the status carried by the last alert enqueued
    unheard,    \* the last transition enqueued no alert
    audible,    \* no maintenance window, and some destination is enabled
    outage      \* the monitored target is down

config == <<monitor, regions, cleanup>>
db     == <<row, request, incident, told, unheard>>
vars   == <<config, jobs, since, heartbeat, db, pc, audible, outage>>

-----------------------------------------------------------------------------
Status == {"UP", "DEGRADED", "DOWN"}
Unwell == {"DEGRADED", "DOWN"}
Source == {"SCHEDULED", "VERIFICATION"}

NoRow     == [status |-> "none", source |-> "SCHEDULED", age |-> 0]
NoRequest == [asked |-> FALSE, left |-> 0, holder |-> Nobody]

Row     == [status : Status \cup {"none"}, source : Source, age : Nat]
Request == [asked : BOOLEAN, left : Int, holder : Worker \cup {Nobody}]

TypeOK ==
    /\ monitor \in {"enabled", "paused", "deleted"}
    /\ regions \in SUBSET Region
    /\ cleanup \in BOOLEAN
    /\ jobs \in SUBSET Region
    /\ since \in [Region -> Nat]
    /\ heartbeat \in [Region -> Nat]
    /\ row \in [Region -> Row]
    /\ request \in [Region -> Request]
    /\ pc \in [Worker -> {"idle", "verify", "complete", "evaluate"}]
    /\ incident \in Unwell \cup {"none"}
    /\ told \in Status
    /\ unheard \in BOOLEAN
    /\ audible \in BOOLEAN
    /\ outage \in BOOLEAN

Init ==
    /\ monitor = "enabled"
    /\ regions = Home
    /\ cleanup = FALSE
    /\ jobs = Home
    /\ since = [r \in Region |-> MinGap]
    /\ heartbeat \in [Region -> {0, ActiveWindow + 1}]
    /\ row = [r \in Region |-> NoRow]
    /\ request = [r \in Region |-> NoRequest]
    /\ pc = [w \in Worker |-> "idle"]
    /\ incident = "none"
    /\ told = "UP"
    /\ unheard = FALSE
    /\ audible \in BOOLEAN
    /\ outage = FALSE

-----------------------------------------------------------------------------
(* The quorum decision, over the report rows rw and the requests rq. *)

Active == {r \in Region : heartbeat[r] <= ActiveWindow}

FreshFor(source) == IF source = "VERIFICATION" THEN VerifyFresh ELSE SchedFresh

Fresh(x) == x.status # "none" /\ x.age <= FreshFor(x.source)

Reporters(rw) == {r \in Active \cup regions : Fresh(rw[r])}

Pending(rw, rq) ==
    {r \in Active \ Reporters(rw) : rq[r].asked /\ rq[r].left >= 0}

Unhealthy(rw) == {r \in Reporters(rw) : rw[r].status # "UP"}

\* Mutant: regions still asked do not hold the decision up.
TotalOfReporters(rw, rq) ==
    LET n == Cardinality(Reporters(rw)) IN IF n < 1 THEN 1 ELSE n

Total(rw, rq) ==
    LET n == Cardinality(Reporters(rw)) + Cardinality(Pending(rw, rq))
    IN  IF n < 1 THEN 1 ELSE n

Worst(rw) ==
    IF \E r \in Unhealthy(rw) : rw[r].status = "DOWN" THEN "DOWN" ELSE "DEGRADED"

\* Mutants: an open DOWN follows the worst report down; nothing resolves.
DecisionSoftens(rw, rq) ==
    IF Cardinality(Unhealthy(rw)) * 2 > Total(rw, rq) THEN Worst(rw) ELSE "none"
DecisionNeverResolves(rw, rq) ==
    IF Cardinality(Unhealthy(rw)) * 2 > Total(rw, rq)
    THEN IF incident = "DOWN" THEN "DOWN" ELSE Worst(rw)
    ELSE incident

\* The incident the decision leaves open; an open DOWN never softens.
Decision(rw, rq) ==
    IF Cardinality(Unhealthy(rw)) * 2 > Total(rw, rq)
    THEN IF incident = "DOWN" THEN "DOWN" ELSE Worst(rw)
    ELSE "none"

Resolves(rw, rq) == incident # "none" /\ Decision(rw, rq) = "none"

\* Resolving purges the confirmations of the episode.
Purged(rw) ==
    [r \in Region |-> IF rw[r].source = "VERIFICATION" THEN NoRow ELSE rw[r]]

\* Mutant: a recovery has no alert status of its own.
AlertOfVerbatim(i) == i

AlertOf(i) == IF i = "none" THEN "UP" ELSE i

\* Mutant: only opening and resolving are alerted, an escalation is not.
NotifyNotEscalation ==
    IF incident' = incident \/ (incident # "none" /\ incident' # "none")
    THEN UNCHANGED <<told, unheard>>
    ELSE IF audible THEN told' = AlertOf(incident') /\ unheard' = FALSE
    ELSE told' = told /\ unheard' = TRUE

\* Alert every destination of a transition, unless the monitor is muted.
Notify ==
    IF incident' = incident THEN UNCHANGED <<told, unheard>>
    ELSE IF audible THEN told' = AlertOf(incident') /\ unheard' = FALSE
    ELSE told' = told /\ unheard' = TRUE

evaluate_monitor_quorum(rw, rq) ==
    /\ incident' = Decision(rw, rq)
    /\ row' = IF Resolves(rw, rq) THEN Purged(rw) ELSE rw
    /\ request' = IF Resolves(rw, rq) THEN [r \in Region |-> NoRequest] ELSE rq
    /\ Notify

\* A failing scheduled check asks every other active region without a recent
\* report; a request that is already there, expired or not, is kept.
Asks(r, q, rw) ==
    /\ q \in Active \ {r}
    /\ ~(rw[q].status # "none" /\ rw[q].age <= Recency)
    /\ ~request[q].asked

Confirmations(r, rw) ==
    [q \in Region |-> IF Asks(r, q, rw)
                      THEN [asked |-> TRUE, left |-> RequestTTL, holder |-> Nobody]
                      ELSE request[q]]

Reported(r, s) ==
    [row EXCEPT ![r] =
        [status |-> s,
         source |-> IF r \in regions THEN "SCHEDULED" ELSE "VERIFICATION",
         age    |-> 0]]

\* Mutant: the monitor's row is not looked up first.
RecordUnchecked(r, s, source) ==
    evaluate_monitor_quorum(Reported(r, s),
        IF source = "SCHEDULED" /\ s # "UP"
        THEN Confirmations(r, Reported(r, s)) ELSE request)

record_region_check(r, s, source) ==
    IF monitor = "deleted" THEN UNCHANGED db
    ELSE evaluate_monitor_quorum(Reported(r, s),
             IF source = "SCHEDULED" /\ s # "UP"
             THEN Confirmations(r, Reported(r, s)) ELSE request)

-----------------------------------------------------------------------------
(* Scheduled checks and heartbeats of a region's pool. *)

\* What a check from region r may find.
Outcomes(r) ==
    IF r \in Flaky THEN FlakyStatus ELSE IF outage THEN Unwell ELSE {"UP"}

runCheck(r) ==
    /\ r \in jobs
    /\ since[r] >= MinGap
    /\ \E s \in Outcomes(r) : record_region_check(r, s, "SCHEDULED")
    /\ since' = [since EXCEPT ![r] = 0]
    /\ UNCHANGED <<config, jobs, heartbeat, pc, audible, outage>>

\* A pool only learns of configuration changes when it next fetches monitors.
syncMonitors(r) ==
    /\ jobs' = IF monitor = "enabled" /\ r \in regions THEN jobs \cup {r} ELSE jobs \ {r}
    /\ since' = [since EXCEPT ![r] = IF r \in jobs THEN @ ELSE MinGap]
    /\ UNCHANGED <<config, heartbeat, db, pc, audible, outage>>

beat(w) ==
    /\ heartbeat' = [heartbeat EXCEPT ![RegionOf[w]] = 0]
    /\ UNCHANGED <<config, jobs, since, db, pc, audible, outage>>

-----------------------------------------------------------------------------
(* The verification worker's loop. *)

GoTo(w, l) == pc' = [pc EXCEPT ![w] = l]

ClaimVerificationRequests(w) ==
    LET r == RegionOf[w] IN
    /\ pc[w] = "idle"
    /\ monitor = "enabled"
    /\ request[r].asked /\ request[r].left > 0 /\ request[r].holder = Nobody
    /\ request' = [request EXCEPT ![r].holder = w]
    /\ GoTo(w, "verify")
    /\ UNCHANGED <<config, jobs, since, heartbeat, row, incident, told, unheard,
                   audible, outage>>

verify(w) ==
    /\ pc[w] = "verify"
    /\ \E s \in Outcomes(RegionOf[w]) :
           record_region_check(RegionOf[w], s, "VERIFICATION")
    /\ GoTo(w, "complete")
    /\ UNCHANGED <<config, jobs, since, heartbeat, audible, outage>>

\* The request is deleted by id: only the row this worker claimed goes.
complete(w) ==
    LET r == RegionOf[w] IN
    /\ pc[w] = "complete"
    /\ request' = IF request[r].holder = w
                  THEN [request EXCEPT ![r] = NoRequest] ELSE request
    /\ GoTo(w, "idle")
    /\ UNCHANGED <<config, jobs, since, heartbeat, row, incident, told, unheard,
                   audible, outage>>

\* The check's record or the delete fails, or the instance crashes and
\* restarts: the claimed request stays behind until it expires.
Abandon(w) ==
    /\ pc[w] \in {"verify", "complete"}
    /\ GoTo(w, "idle")
    /\ UNCHANGED <<config, jobs, since, heartbeat, db, audible, outage>>

Expired == {r \in Region : request[r].asked /\ request[r].left <= 0}

\* Mutant: expired requests are deleted and nothing is re-evaluated.
ExpireAndForget(w) ==
    /\ pc[w] = "idle"
    /\ Expired # {}
    /\ request' = [r \in Region |-> IF r \in Expired THEN NoRequest ELSE request[r]]
    /\ UNCHANGED <<config, jobs, since, heartbeat, row, incident, told, unheard,
                   pc, audible, outage>>

\* First half of sweepExpired: delete what expired, in any region.
ExpireVerificationRequests(w) ==
    /\ pc[w] = "idle"
    /\ Expired # {}
    /\ request' = [r \in Region |-> IF r \in Expired THEN NoRequest ELSE request[r]]
    /\ GoTo(w, "evaluate")
    /\ UNCHANGED <<config, jobs, since, heartbeat, row, incident, told, unheard,
                   audible, outage>>

\* Second half, a transaction of its own.  It has no check to take an "up"
\* message from and passes NULL; alert_outbox.message is NOT NULL, so a
\* resolve that has somebody to notify fails and is rolled back.
EvaluateMonitorQuorum(w) ==
    /\ pc[w] = "evaluate"
    /\ IF monitor = "deleted" \/ (audible /\ Resolves(row, request))
       THEN UNCHANGED db
       ELSE evaluate_monitor_quorum(row, request)
    /\ GoTo(w, "idle")
    /\ UNCHANGED <<config, jobs, since, heartbeat, audible, outage>>

\* The re-evaluation fails, or the instance crashes before it.
LoseEvaluation(w) ==
    /\ pc[w] = "evaluate"
    /\ GoTo(w, "idle")
    /\ UNCHANGED <<config, jobs, since, heartbeat, db, audible, outage>>

-----------------------------------------------------------------------------
(* The API: the owner edits, pauses or deletes the monitor. *)

\* UpdateMonitor, and a plan downgrade that trims the region list.
UpdateMonitorRegions(R) ==
    /\ monitor # "deleted"
    /\ ~cleanup
    /\ regions' = R
    /\ cleanup' = TRUE
    /\ UNCHANGED <<monitor, jobs, since, heartbeat, db, pc, audible, outage>>

\* Its second statement, whose failure is only logged.
CleanupRegionStatus ==
    /\ cleanup
    /\ cleanup' = FALSE
    /\ \/ row' = [r \in Region |-> IF r \in regions THEN row[r] ELSE NoRow]
       \/ row' = row
    /\ UNCHANGED <<monitor, regions, jobs, since, heartbeat, request, incident,
                   told, unheard, pc, audible, outage>>

UpdateMonitorEnabled ==
    /\ monitor # "deleted"
    /\ monitor' = IF monitor = "enabled" THEN "paused" ELSE "enabled"
    /\ UNCHANGED <<regions, cleanup, jobs, since, heartbeat, db, pc, audible, outage>>

\* Everything that references the monitor cascades; an open incident goes
\* without an alert.
DeleteMonitor ==
    /\ monitor # "deleted"
    /\ monitor' = "deleted"
    /\ row' = [r \in Region |-> NoRow]
    /\ request' = [r \in Region |-> NoRequest]
    /\ incident' = "none"
    /\ told' = told
    /\ unheard' = (unheard \/ incident # "none")
    /\ UNCHANGED <<regions, cleanup, jobs, since, heartbeat, pc, audible, outage>>

-----------------------------------------------------------------------------
(* The environment. *)

\* A maintenance window opens or closes, or the last enabled destination
\* changes.
ToggleAudible ==
    /\ audible' = ~audible
    /\ UNCHANGED <<config, jobs, since, heartbeat, db, pc, outage>>

ToggleOutage ==
    /\ CanFail
    /\ outage' = ~outage
    /\ UNCHANGED <<config, jobs, since, heartbeat, db, pc, audible>>

Older(age, limit) == IF age > limit THEN age ELSE age + 1

AgedRow(x) ==
    IF x.status = "none" THEN x
    ELSE [x EXCEPT !.age = Older(@, FreshFor(x.source))]

AgedRequest(x) ==
    IF x.asked /\ x.left >= 0 THEN [x EXCEPT !.left = @ - 1] ELSE x

TimePasses ==
    /\ since' = [r \in Region |-> IF since[r] < MinGap THEN since[r] + 1 ELSE since[r]]
    /\ row' = [r \in Region |-> AgedRow(row[r])]
    /\ request' = [r \in Region |-> AgedRequest(request[r])]
    /\ UNCHANGED <<config, jobs, incident, told, unheard, pc, audible, outage>>

Tick ==
    /\ heartbeat' = [r \in Region |-> Older(heartbeat[r], ActiveWindow)]
    /\ TimePasses

-----------------------------------------------------------------------------
Check  == \E r \in Region : runCheck(r)
Verify == \E w \in Worker : ClaimVerificationRequests(w) \/ verify(w) \/ complete(w)
Sweep  == \E w \in Worker : ExpireVerificationRequests(w) \/ EvaluateMonitorQuorum(w)
Fault  == \E w \in Worker : Abandon(w) \/ LoseEvaluation(w)
Edit   == \/ \E R \in Choices : UpdateMonitorRegions(R)
          \/ CleanupRegionStatus
          \/ \E r \in Region : syncMonitors(r)
Owner  == UpdateMonitorEnabled \/ DeleteMonitor
Beat   == \E w \in Worker : beat(w)

Next == Tick \/ Check \/ Beat \/ Verify \/ Sweep \/ Fault \/ Edit \/ Owner
        \/ ToggleAudible \/ ToggleOutage

Spec == Init /\ [][Next]_vars

-----------------------------------------------------------------------------
(* Safety, whatever fails and however the processes interleave. *)

\* The last alert put in the outbox carries the state the incident is in,
\* unless the last transition was muted: the decision and its alert rows are
\* written by one transaction (evaluate_monitor_quorum), for every caller.
ToldMatchesIncident == ~unheard => told = AlertOf(incident)

\* Checks and confirmations that finish after the monitor was deleted bring
\* nothing of it back: no report, no request, no incident
\* (record_region_check's NOT FOUND return, and the cascade on delete).
DeletedLeavesNothing ==
    monitor = "deleted" =>
        /\ \A r \in Region : row[r] = NoRow /\ request[r] = NoRequest
        /\ incident = "none"

Lifecycle ==
    INSTANCE IncidentLifecycle
        WITH incident <- incident, told <- told, unheard <- unheard

\* Whatever the regions report and in whatever order it is recorded, the
\* incident moves only along its life cycle (one open incident, no
\* softening) and only its transitions are alerted
\* (evaluate_monitor_quorum's opened/escalated/resolved branches).
ImplementsLifecycle == Lifecycle!LSpec
=============================================================================
