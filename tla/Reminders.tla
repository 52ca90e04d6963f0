----------------------------- MODULE Reminders ------------------------------
(***************************************************************************)
(* The two loops of a scheduler that queue alerts by themselves: the       *)
(* repeater, which reminds of incidents that stay open, and the expiry     *)
(* sweep, which warns of certificates and domains that run out.  Several   *)
(* instances run both; a sweep skips the rows another one has locked.      *)
(*                                                                         *)
(* Both queue through enqueue_monitor_alerts and give it no latency.       *)
(*                                                                         *)
(* Two clocks that nothing relates: ticks, in which the interval between   *)
(* reminders is counted, and half days, in which dates are.                *)
(***************************************************************************)
EXTENDS Integers, FiniteSets

CONSTANTS
    Monitor,     \* HTTP monitors of an account on the ENTERPRISE plan
    Kind,        \* the expiry checks: certificate, domain
    Interval,    \* ticks between reminders
    MaxCount,    \* reminders per incident
    Threshold,   \* the thresholds in days that users choose
    Horizon,     \* half days a renewal lasts
    MaxRenewals, \* bound on the renewals of a certificate or domain
    NULL

VARIABLES
    incident,   \* per monitor, its latest incident: whether it is open, the
                \* reminders sent, and the ticks since the last alert or the start
    config,     \* per monitor, the reminders and expiry checks that are on
    muted,      \* monitors in a maintenance window
    reachable,  \* monitors that have a destination enabled
    cert,       \* per monitor and kind, what expires, and the half days left
    status,     \* per monitor and kind, its row of monitor_expiry_status, with
                \* the half days since it was checked
    claims,     \* the expiry checks under way, with the threshold of the claim
    failing     \* the last sweep of reminders failed

rvars == <<incident, config, muted, reachable, cert, status, claims, failing>>

HalfDays == 2

Config == [repeats : BOOLEAN, checks : SUBSET Kind, threshold : Threshold]

\* A row that is not there yet is seeded as long overdue when it is first claimed.
RInit ==
    /\ incident = [m \in Monitor |-> [open |-> FALSE, repeats_sent |-> 0, age |-> 0]]
    /\ config \in [Monitor -> [repeats : {FALSE}, checks : {{}}, threshold : Threshold]]
    /\ muted = {}
    /\ reachable \in SUBSET Monitor
    /\ cert = [m \in Monitor |-> [k \in Kind |-> [left |-> Horizon, serial |-> 0]]]
    /\ status = [m \in Monitor |-> [k \in Kind |->
                    [age |-> HalfDays, expires_at |-> NULL,
                     last_alert_bucket |-> NULL, alerted_expires_at |-> NULL]]]
    /\ claims = {}
    /\ failing = FALSE

-----------------------------------------------------------------------------
(* The outbox. *)

\* The insert of a fan-out goes through.  The latency of alert_outbox is NOT
\* NULL: without one, the first row to insert fails, and the transaction with it.
Enqueues(m, latency) == m \in reachable => latency # NULL

-----------------------------------------------------------------------------
(* Incidents, as evaluate_monitor_quorum makes them.  Its alerts have a    *)
(* latency, and restart the interval when one goes out.                    *)

Told(m) == m \in reachable \ muted

Opens(m) ==
    /\ ~incident[m].open
    /\ incident' = [incident EXCEPT ![m] = [open |-> TRUE, repeats_sent |-> 0, age |-> 0]]
    /\ UNCHANGED <<config, muted, reachable, cert, status, claims, failing>>

Escalates(m) ==
    /\ incident[m].open /\ Told(m)
    /\ incident' = [incident EXCEPT ![m].age = 0]
    /\ UNCHANGED <<config, muted, reachable, cert, status, claims, failing>>

Resolves(m) ==
    /\ incident[m].open
    /\ incident' = [incident EXCEPT ![m].open = FALSE]
    /\ UNCHANGED <<config, muted, reachable, cert, status, claims, failing>>

-----------------------------------------------------------------------------
(* Reminders. *)

Due(m) ==
    /\ incident[m].open
    /\ config[m].repeats
    /\ incident[m].repeats_sent < MaxCount
    /\ incident[m].age = Interval
    /\ m \notin muted

Overdue == {m \in Monitor : Due(m)}

\* One sweep, over the due incidents that no other sweep has locked.
EnqueueRepeatAlerts(S) ==
    /\ S # {} /\ S \subseteq Overdue
    /\ IF \A m \in S : Enqueues(m, NULL)
       THEN /\ incident' = [m \in Monitor |->
                  IF m \in S
                  THEN [incident[m] EXCEPT !.repeats_sent = @ + 1, !.age = 0]
                  ELSE incident[m]]
            /\ failing' = FALSE
       ELSE failing' = TRUE /\ UNCHANGED incident
    /\ UNCHANGED <<config, muted, reachable, cert, status, claims>>

-----------------------------------------------------------------------------
(* Expiry. *)

\* Whole days left, rounded down: Go's conversion truncates, so a negative
\* fraction of a day is one day less.
ExpiryDaysLeft(left) ==
    LET days == IF left >= 0 THEN left \div HalfDays ELSE -((-left) \div HalfDays)
    IN  IF left < 0 /\ left # days * HalfDays THEN days - 1 ELSE days

ExpiryAlertBucket(days, threshold) ==
    IF days < 0 THEN 0
    ELSE IF days <= 1 /\ threshold >= 1 THEN 1
    ELSE IF days <= 3 /\ threshold >= 3 THEN 3
    ELSE IF days <= threshold THEN threshold ELSE NULL

\* A bucket fires once per date: anew after a renewal, then only deeper.
ShouldAlert(st, c, threshold) ==
    LET bucket == ExpiryAlertBucket(ExpiryDaysLeft(c.left), threshold)
    IN  /\ bucket # NULL
        /\ \/ st.alerted_expires_at # c.serial
           \/ st.last_alert_bucket = NULL
           \/ bucket < st.last_alert_bucket

\* Claiming a batch of overdue checks is what marks them checked.
ClaimDueExpiryChecks(S) ==
    /\ S # {}
    /\ \A x \in S : x[2] \in config[x[1]].checks /\ status[x[1]][x[2]].age = HalfDays
    /\ status' = [m \in Monitor |-> [k \in Kind |->
                     IF <<m, k>> \in S THEN [status[m][k] EXCEPT !.age = 0]
                     ELSE status[m][k]]]
    /\ claims' = claims \cup {[monitor |-> x[1], kind |-> x[2],
                               threshold |-> config[x[1]].threshold] : x \in S}
    /\ UNCHANGED <<incident, config, muted, reachable, cert, failing>>

\* The date is recorded and the bucket stamped in the transaction that queues
\* the alert; in a maintenance window it is stamped and nothing is queued.
RecordExpiryCheck(c) ==
    /\ c \in claims
    /\ LET m     == c.monitor
           st    == status[m][c.kind]
           now   == cert[m][c.kind]
           alert == ShouldAlert(st, now, c.threshold)
       IN  status' =
             IF alert /\ m \notin muted /\ ~Enqueues(m, NULL) THEN status
             ELSE [status EXCEPT ![m][c.kind] =
                      [st EXCEPT
                         !.expires_at = now.serial,
                         !.last_alert_bucket =
                            IF alert THEN ExpiryAlertBucket(ExpiryDaysLeft(now.left), c.threshold)
                            ELSE @,
                         !.alerted_expires_at = IF alert THEN now.serial ELSE @]]
    /\ claims' = claims \ {c}
    /\ UNCHANGED <<incident, config, muted, reachable, cert, failing>>

\* The check or the record of it fails, or the process dies: only the error
\* message changes, and the row is due again a day later.
CheckLost(c) ==
    /\ c \in claims
    /\ claims' = claims \ {c}
    /\ UNCHANGED <<incident, config, muted, reachable, cert, status, failing>>

-----------------------------------------------------------------------------
(* Users, the world and time. *)

UpdateMonitor(m, x) ==
    /\ config' = [config EXCEPT ![m] = x]
    /\ UNCHANGED <<incident, muted, reachable, cert, status, claims, failing>>

Maintenance(m) ==
    /\ muted' = IF m \in muted THEN muted \ {m} ELSE muted \cup {m}
    /\ UNCHANGED <<incident, config, reachable, cert, status, claims, failing>>

\* A channel or recipient of the monitor is the first, or was the last, enabled.
Destinations(m) ==
    /\ reachable' = IF m \in reachable THEN reachable \ {m} ELSE reachable \cup {m}
    /\ UNCHANGED <<incident, config, muted, cert, status, claims, failing>>

Renew(m, k) ==
    /\ cert[m][k].serial < MaxRenewals
    /\ cert' = [cert EXCEPT ![m][k] = [left |-> Horizon, serial |-> @.serial + 1]]
    /\ UNCHANGED <<incident, config, muted, reachable, status, claims, failing>>

Tick ==
    /\ incident' = [m \in Monitor |->
                       [incident[m] EXCEPT !.age = IF @ < Interval THEN @ + 1 ELSE @]]
    /\ UNCHANGED <<config, muted, reachable, cert, status, claims, failing>>

\* A batch of checks is over within five minutes.
HalfDayPasses ==
    /\ claims = {}
    /\ cert' = [m \in Monitor |-> [k \in Kind |->
                   [cert[m][k] EXCEPT !.left = IF @ > -HalfDays THEN @ - 1 ELSE @]]]
    /\ status' = [m \in Monitor |-> [k \in Kind |->
                     [status[m][k] EXCEPT !.age = IF @ < HalfDays THEN @ + 1 ELSE @]]]
    /\ UNCHANGED <<incident, config, muted, reachable, claims, failing>>

RNext ==
    \/ \E m \in Monitor : Opens(m) \/ Escalates(m) \/ Resolves(m)
    \/ \E m \in Monitor : Maintenance(m) \/ Destinations(m)
    \/ \E m \in Monitor, x \in Config : UpdateMonitor(m, x)
    \/ \E m \in Monitor, k \in Kind : Renew(m, k)
    \/ \E S \in SUBSET Monitor : EnqueueRepeatAlerts(S)
    \/ \E S \in SUBSET (Monitor \X Kind) : ClaimDueExpiryChecks(S)
    \/ \E c \in claims : RecordExpiryCheck(c) \/ CheckLost(c)
    \/ Tick
    \/ HalfDayPasses

\* Both loops keep ticking, and a check that is tried day after day succeeds
\* one day.
RFairness ==
    /\ WF_rvars(EnqueueRepeatAlerts(Overdue))
    /\ WF_rvars(Tick) /\ WF_rvars(HalfDayPasses)
    /\ \A m \in Monitor, k \in Kind :
           /\ WF_rvars(\E S \in SUBSET (Monitor \X Kind) :
                           <<m, k>> \in S /\ ClaimDueExpiryChecks(S))
           /\ SF_rvars(\E c \in claims : /\ c.monitor = m /\ c.kind = k
                                         /\ RecordExpiryCheck(c))

RSpec == RInit /\ [][RNext]_rvars /\ RFairness

-----------------------------------------------------------------------------
\* What is owed to a destination: a reminder of an incident that is due, and a
\* warning of a bucket that was not alerted.
ReminderOwed(m) == Due(m) /\ m \in reachable
WarningOwed(m, k) ==
    /\ m \in reachable \ muted
    /\ k \in config[m].checks
    /\ ShouldAlert(status[m][k], cert[m][k], config[m].threshold)

\* Nothing stays owed.  "While an incident stays open, re-send its alert every
\* repeat_alert_interval_secs" (enqueue_repeat_alerts); "when the expiry crosses
\* a new alert bucket, fans an alert out" (RecordExpiryCheck).
OwedGoesOut ==
    /\ \A m \in Monitor : ReminderOwed(m) ~> ~ReminderOwed(m)
    /\ \A m \in Monitor, k \in Kind : WarningOwed(m, k) ~> ~WarningOwed(m, k)
=============================================================================
