--------------------------- MODULE RemindersProofs ---------------------------
(***************************************************************************)
(* Proofs about Reminders, for any number of monitors, any thresholds and  *)
(* any interval: no warning is given twice for one date, and a reminder or *)
(* a warning that is owed stays owed.                                      *)
(***************************************************************************)
EXTENDS Reminders, TLAPS

\* What the plans and the validation of monitors allow.
Sensible ==
    /\ Interval \in Nat /\ MaxCount \in Nat /\ Horizon \in Nat /\ MaxRenewals \in Nat
    /\ Threshold \subseteq Nat
    /\ NULL \notin Int

ExpiryRow ==
    [age : 0 .. HalfDays, expires_at : Nat \cup {NULL},
     last_alert_bucket : Nat \cup {NULL}, alerted_expires_at : Nat \cup {NULL}]

RTypeOK ==
    /\ incident \in [Monitor -> [open : BOOLEAN, repeats_sent : 0 .. MaxCount,
                                 age : 0 .. Interval]]
    /\ config \in [Monitor -> Config]
    /\ muted \subseteq Monitor /\ reachable \subseteq Monitor
    /\ cert \in [Monitor -> [Kind -> [left : Int, serial : Nat]]]
    /\ status \in [Monitor -> [Kind -> ExpiryRow]]
    /\ claims \subseteq [monitor : Monitor, kind : Kind, threshold : Threshold]
    /\ failing \in BOOLEAN

\* A row names the date it alerted whenever it names a bucket.
Stamped ==
    \A m \in Monitor, k \in Kind :
        status[m][k].last_alert_bucket = NULL <=> status[m][k].alerted_expires_at = NULL

\* For one date the bucket that is stamped only gets deeper: none is alerted
\* twice, whatever thresholds are set and however the checks of several
\* instances overlap ("a bucket fires once per expires_at value", RecordExpiryCheck).
Deepens ==
    \A m \in Monitor, k \in Kind :
        LET old == status[m][k]
            new == status'[m][k]
        IN  new.alerted_expires_at = old.alerted_expires_at =>
                \/ new.last_alert_bucket = old.last_alert_bucket
                \/ new.last_alert_bucket < old.last_alert_bucket

BucketOnce == [][Deepens]_rvars

\* No sweep ends what is owed: only the owner, who edits the monitor, a window or
\* its destinations, an escalation or the end of the incident, and a renewal do.
StillOwed ==
    UNCHANGED <<config, muted, reachable>> =>
        /\ \A m \in Monitor :
              ReminderOwed(m) /\ ~Escalates(m) /\ ~Resolves(m) => ReminderOwed(m)'
        /\ \A m \in Monitor, k \in Kind :
              WarningOwed(m, k) /\ ~Renew(m, k) => WarningOwed(m, k)'

OwedStays == [][StillOwed]_rvars

-----------------------------------------------------------------------------
(* Days and buckets. *)

\* Go's truncation, corrected for negative fractions, is the rounding down that
\* whole days mean.
LEMMA DaysLeftFloor == \A left \in Int : ExpiryDaysLeft(left) = left \div 2
BY DEF ExpiryDaysLeft, HalfDays

\* The fewer days are left the deeper the bucket.
LEMMA BucketsDeepen ==
    ASSUME Sensible, NEW t \in Nat, NEW d \in Int, NEW e \in Int, e <= d,
           ExpiryAlertBucket(d, t) # NULL
    PROVE  /\ ExpiryAlertBucket(e, t) # NULL
           /\ ExpiryAlertBucket(e, t) <= ExpiryAlertBucket(d, t)
<1> DEFINE b == ExpiryAlertBucket(e, t)
<1>1. NULL \notin Nat
  BY DEF Sensible
<1>2. d < 0 \/ (d <= 1 /\ t >= 1) \/ (d <= 3 /\ t >= 3) \/ d <= t
  BY DEF ExpiryAlertBucket
<1>3. b \in Nat
  BY <1>2 DEF ExpiryAlertBucket
<1>4. CASE d < 0
  <2>1. ExpiryAlertBucket(d, t) = 0 /\ b = 0
    BY <1>4 DEF ExpiryAlertBucket
  <2> QED BY <1>1, <1>3, <2>1
<1>5. CASE d >= 0 /\ d <= 1 /\ t >= 1
  <2>1. ExpiryAlertBucket(d, t) = 1 /\ b \in {0, 1}
    BY <1>5 DEF ExpiryAlertBucket
  <2> QED BY <1>1, <1>3, <2>1
<1>6. CASE d >= 0 /\ ~(d <= 1 /\ t >= 1) /\ d <= 3 /\ t >= 3
  <2>1. ExpiryAlertBucket(d, t) = 3 /\ b \in {0, 1, 3}
    BY <1>6 DEF ExpiryAlertBucket
  <2> QED BY <1>1, <1>3, <2>1
<1>7. CASE d >= 0 /\ ~(d <= 1 /\ t >= 1) /\ ~(d <= 3 /\ t >= 3) /\ d <= t
  <2>1. ExpiryAlertBucket(d, t) = t
    BY <1>7 DEF ExpiryAlertBucket
  <2>2. b <= t
    BY <1>7 DEF ExpiryAlertBucket
  <2> QED BY <1>1, <1>3, <2>1, <2>2
<1> QED BY <1>2, <1>4, <1>5, <1>6, <1>7

LEMMA BucketType ==
    ASSUME NEW t \in Nat, NEW d \in Int
    PROVE  ExpiryAlertBucket(d, t) \in Nat \cup {NULL}
BY DEF ExpiryAlertBucket

LEMMA DaysType == \A left \in Int : ExpiryDaysLeft(left) \in Int
BY DEF ExpiryDaysLeft, HalfDays

-----------------------------------------------------------------------------
(* Types, and the dates of the stamps. *)

LEMMA RTypeInit == Sensible /\ RInit => RTypeOK /\ Stamped
<1> SUFFICES ASSUME Sensible, RInit PROVE RTypeOK /\ Stamped
  OBVIOUS
<1>1. /\ incident \in [Monitor -> [open : BOOLEAN, repeats_sent : 0 .. MaxCount,
                                  age : 0 .. Interval]]
      /\ muted \subseteq Monitor /\ reachable \subseteq Monitor /\ failing \in BOOLEAN
      /\ claims \subseteq [monitor : Monitor, kind : Kind, threshold : Threshold]
  <2>1. [open |-> FALSE, repeats_sent |-> 0, age |-> 0]
            \in [open : BOOLEAN, repeats_sent : 0 .. MaxCount, age : 0 .. Interval]
    BY DEF Sensible
  <2>2. incident \in [Monitor -> [open : BOOLEAN, repeats_sent : 0 .. MaxCount,
                                  age : 0 .. Interval]]
    BY <2>1 DEF RInit
  <2>3. failing \in BOOLEAN
    BY DEF RInit
  <2> QED BY <2>2, <2>3 DEF RInit
<1>2. config \in [Monitor -> Config]
  <2>1. [repeats : {FALSE}, checks : {{}}, threshold : Threshold] \subseteq Config
    BY DEF Config
  <2> QED BY <2>1 DEF RInit
<1>3. cert \in [Monitor -> [Kind -> [left : Int, serial : Nat]]]
  BY DEF Sensible, RInit
<1>4. status \in [Monitor -> [Kind -> ExpiryRow]]
  <2>1. [age |-> HalfDays, expires_at |-> NULL, last_alert_bucket |-> NULL,
         alerted_expires_at |-> NULL] \in ExpiryRow
    BY DEF ExpiryRow, HalfDays
  <2> QED BY <2>1 DEF RInit
<1>5. RTypeOK
  BY <1>1, <1>2, <1>3, <1>4 DEF RTypeOK
<1>6. Stamped
  BY DEF RInit, Stamped
<1> QED BY <1>5, <1>6

\* The row that a recorded check leaves.
Recorded(st, now, threshold) ==
    LET alert == ShouldAlert(st, now, threshold)
    IN  [st EXCEPT !.expires_at = now.serial,
                   !.last_alert_bucket =
                      IF alert THEN ExpiryAlertBucket(ExpiryDaysLeft(now.left), threshold)
                      ELSE @,
                   !.alerted_expires_at = IF alert THEN now.serial ELSE @]

LEMMA RecordedRow ==
    ASSUME Sensible, NEW st \in ExpiryRow, NEW now \in [left : Int, serial : Nat],
           NEW t \in Threshold,
           st.last_alert_bucket = NULL <=> st.alerted_expires_at = NULL
    PROVE  /\ Recorded(st, now, t) \in ExpiryRow
           /\ LET new == Recorded(st, now, t) IN
              /\ new.last_alert_bucket = NULL <=> new.alerted_expires_at = NULL
              /\ new.alerted_expires_at = st.alerted_expires_at =>
                    \/ new.last_alert_bucket = st.last_alert_bucket
                    \/ new.last_alert_bucket < st.last_alert_bucket
<1> DEFINE b == ExpiryAlertBucket(ExpiryDaysLeft(now.left), t)
           new == Recorded(st, now, t)
<1>1. t \in Nat /\ now.left \in Int /\ now.serial \in Nat /\ NULL \notin Nat
  BY DEF Sensible
<1>2. b \in Nat \cup {NULL}
  BY <1>1, DaysType, BucketType
<1>3. CASE ShouldAlert(st, now, t)
  <2>1. /\ b # NULL
        /\ \/ st.alerted_expires_at # now.serial
           \/ st.last_alert_bucket = NULL
           \/ b < st.last_alert_bucket
    BY <1>3 DEF ShouldAlert
  <2>2. new = [st EXCEPT !.expires_at = now.serial, !.last_alert_bucket = b,
                         !.alerted_expires_at = now.serial]
    BY <1>3 DEF Recorded, ExpiryRow
  <2> HIDE DEF b, new
  <2>3. /\ new \in ExpiryRow /\ new.last_alert_bucket = b
        /\ new.alerted_expires_at = now.serial
    BY <1>1, <1>2, <2>2 DEF ExpiryRow
  <2> QED BY <1>1, <2>1, <2>3 DEF new
<1>4. CASE ~ShouldAlert(st, now, t)
  <2>1. new = [st EXCEPT !.expires_at = now.serial]
    BY <1>4 DEF Recorded, ExpiryRow
  <2> HIDE DEF new
  <2>2. /\ new \in ExpiryRow /\ new.last_alert_bucket = st.last_alert_bucket
        /\ new.alerted_expires_at = st.alerted_expires_at
    BY <1>1, <2>1 DEF ExpiryRow
  <2> QED BY <2>2 DEF new
<1> QED BY <1>3, <1>4

\* What the recording of a check does to the rows.
LEMMA RecordMoves ==
    ASSUME RTypeOK, NEW c \in claims, RecordExpiryCheck(c)
    PROVE  /\ c.monitor \in Monitor /\ c.kind \in Kind /\ c.threshold \in Threshold
           /\ status \in [Monitor -> [Kind -> ExpiryRow]]
           /\ \/ status' = status
              \/ status' = [status EXCEPT ![c.monitor][c.kind] =
                               Recorded(status[c.monitor][c.kind], cert[c.monitor][c.kind],
                                        c.threshold)]
           /\ /\ ShouldAlert(status[c.monitor][c.kind], cert[c.monitor][c.kind], c.threshold)
              /\ c.monitor \in reachable \ muted
              => status' = status
BY DEF RTypeOK, RecordExpiryCheck, Recorded, Enqueues

\* One row of the table moves.
LEMMA OneRow ==
    ASSUME NEW S, NEW f \in [Monitor -> [Kind -> S]], NEW m \in Monitor, NEW k \in Kind,
           NEW x, NEW g, g = [f EXCEPT ![m][k] = x]
    PROVE  \A n \in Monitor, j \in Kind :
               g[n][j] = IF n = m /\ j = k THEN x ELSE f[n][j]
OBVIOUS

\* A row that only gets older, or younger, keeps its stamp.
SameStamp ==
    /\ status' \in [Monitor -> [Kind -> ExpiryRow]]
    /\ \A m \in Monitor, k \in Kind :
          /\ status'[m][k].last_alert_bucket = status[m][k].last_alert_bucket
          /\ status'[m][k].alerted_expires_at = status[m][k].alerted_expires_at

LEMMA ClaimKeepsStamps ==
    ASSUME RTypeOK, NEW S \in SUBSET (Monitor \X Kind), ClaimDueExpiryChecks(S)
    PROVE  SameStamp
<1>1. \A m \in Monitor, k \in Kind :
          /\ status'[m][k] \in ExpiryRow
          /\ status'[m][k].last_alert_bucket = status[m][k].last_alert_bucket
          /\ status'[m][k].alerted_expires_at = status[m][k].alerted_expires_at
  <2> SUFFICES ASSUME NEW m \in Monitor, NEW k \in Kind
               PROVE  /\ status'[m][k] \in ExpiryRow
                      /\ status'[m][k].last_alert_bucket = status[m][k].last_alert_bucket
                      /\ status'[m][k].alerted_expires_at = status[m][k].alerted_expires_at
    OBVIOUS
  <2>1. status[m][k] \in ExpiryRow
    BY DEF RTypeOK
  <2>2. status'[m][k] = IF <<m, k>> \in S THEN [status[m][k] EXCEPT !.age = 0]
                        ELSE status[m][k]
    BY DEF ClaimDueExpiryChecks
  <2> QED BY <2>1, <2>2 DEF ExpiryRow, HalfDays
<1>2. status' = [m \in Monitor |-> [k \in Kind |-> status'[m][k]]]
  BY DEF ClaimDueExpiryChecks
<1> QED BY <1>1, <1>2 DEF SameStamp

LEMMA DayKeepsStamps ==
    ASSUME RTypeOK, HalfDayPasses
    PROVE  SameStamp
<1>1. \A m \in Monitor, k \in Kind :
          /\ status'[m][k] \in ExpiryRow
          /\ status'[m][k].last_alert_bucket = status[m][k].last_alert_bucket
          /\ status'[m][k].alerted_expires_at = status[m][k].alerted_expires_at
  <2> SUFFICES ASSUME NEW m \in Monitor, NEW k \in Kind
               PROVE  /\ status'[m][k] \in ExpiryRow
                      /\ status'[m][k].last_alert_bucket = status[m][k].last_alert_bucket
                      /\ status'[m][k].alerted_expires_at = status[m][k].alerted_expires_at
    OBVIOUS
  <2>1. status[m][k] \in ExpiryRow
    BY DEF RTypeOK
  <2>2. status'[m][k] = [status[m][k] EXCEPT !.age = IF @ < HalfDays THEN @ + 1 ELSE @]
    BY DEF HalfDayPasses
  <2> QED BY <2>1, <2>2 DEF ExpiryRow, HalfDays
<1>2. status' = [m \in Monitor |-> [k \in Kind |-> status'[m][k]]]
  BY DEF HalfDayPasses
<1> QED BY <1>1, <1>2 DEF SameStamp

LEMMA RecordStamps ==
    ASSUME Sensible, RTypeOK, Stamped, NEW c \in claims, RecordExpiryCheck(c)
    PROVE  status' \in [Monitor -> [Kind -> ExpiryRow]] /\ Stamped' /\ Deepens
<1> DEFINE n == c.monitor
           j == c.kind
           new == Recorded(status[n][j], cert[n][j], c.threshold)
<1>1. /\ n \in Monitor /\ j \in Kind /\ c.threshold \in Threshold
      /\ status \in [Monitor -> [Kind -> ExpiryRow]]
      /\ status' = status \/ status' = [status EXCEPT ![n][j] = new]
  BY RecordMoves
<1>2. CASE status' = status
  BY <1>1, <1>2 DEF Stamped, Deepens
<1>3. CASE status' = [status EXCEPT ![n][j] = new]
  <2>1. status[n][j] \in ExpiryRow /\ cert[n][j] \in [left : Int, serial : Nat]
    BY <1>1 DEF RTypeOK
  <2>2. status[n][j].last_alert_bucket = NULL <=> status[n][j].alerted_expires_at = NULL
    BY <1>1 DEF Stamped
  <2>3. /\ new \in ExpiryRow
        /\ new.last_alert_bucket = NULL <=> new.alerted_expires_at = NULL
        /\ new.alerted_expires_at = status[n][j].alerted_expires_at =>
              \/ new.last_alert_bucket = status[n][j].last_alert_bucket
              \/ new.last_alert_bucket < status[n][j].last_alert_bucket
    BY <1>1, <2>1, <2>2, RecordedRow
  <2> HIDE DEF new, n, j
  <2>4. \A m \in Monitor, k \in Kind :
            status'[m][k] = IF m = n /\ k = j THEN new ELSE status[m][k]
    BY <1>1, <1>3, OneRow
  <2>5. status' \in [Monitor -> [Kind -> ExpiryRow]]
    BY <1>1, <1>3, <2>3
  <2>6. Stamped'
    BY <2>3, <2>4 DEF Stamped
  <2>7. Deepens
    BY <2>3, <2>4 DEF Deepens
  <2> QED BY <2>5, <2>6, <2>7
<1> QED BY <1>1, <1>2, <1>3

LEMMA SameStampSafe ==
    ASSUME Stamped, SameStamp
    PROVE  status' \in [Monitor -> [Kind -> ExpiryRow]] /\ Stamped' /\ Deepens
BY DEF Stamped, SameStamp, Deepens

\* What the steps do to the rows of monitor_expiry_status.
LEMMA RowsStep ==
    ASSUME Sensible, RTypeOK, Stamped, [RNext]_rvars
    PROVE  status' \in [Monitor -> [Kind -> ExpiryRow]] /\ Stamped' /\ Deepens
<1>1. CASE UNCHANGED status
  BY <1>1 DEF RTypeOK, Stamped, Deepens
<1>2. ASSUME NEW S \in SUBSET (Monitor \X Kind), ClaimDueExpiryChecks(S)
      PROVE  SameStamp
  BY <1>2, ClaimKeepsStamps
<1>3. ASSUME NEW c \in claims, RecordExpiryCheck(c)
      PROVE  status' \in [Monitor -> [Kind -> ExpiryRow]] /\ Stamped' /\ Deepens
  BY <1>3, RecordStamps
<1>4. CASE HalfDayPasses
  BY <1>4, DayKeepsStamps, SameStampSafe
<1>5. \/ UNCHANGED status
      \/ \E S \in SUBSET (Monitor \X Kind) : ClaimDueExpiryChecks(S)
      \/ \E c \in claims : RecordExpiryCheck(c)
      \/ HalfDayPasses
  BY DEF RNext, rvars, Opens, Escalates, Resolves, Maintenance, Destinations, UpdateMonitor,
         Renew, EnqueueRepeatAlerts, CheckLost, Tick
<1> QED BY <1>1, <1>2, <1>3, <1>4, <1>5, SameStampSafe

Incident == [open : BOOLEAN, repeats_sent : 0 .. MaxCount, age : 0 .. Interval]

\* Incidents: a sweep that goes through counts a reminder only below the limit.
LEMMA IncidentStep ==
    ASSUME Sensible, RTypeOK, [RNext]_rvars
    PROVE  incident' \in [Monitor -> Incident]
<1>1. /\ incident \in [Monitor -> Incident]
      /\ Interval \in Nat /\ MaxCount \in Nat
  BY DEF RTypeOK, Incident, Sensible
<1>2. CASE UNCHANGED incident
  BY <1>1, <1>2
<1>3. ASSUME NEW m \in Monitor, Opens(m)
      PROVE  incident' \in [Monitor -> Incident]
  <2>1. [open |-> TRUE, repeats_sent |-> 0, age |-> 0] \in Incident
    BY <1>1 DEF Incident
  <2> QED BY <1>1, <1>3, <2>1 DEF Opens
<1>4. ASSUME NEW m \in Monitor, Escalates(m)
      PROVE  incident' \in [Monitor -> Incident]
  <2>1. [incident[m] EXCEPT !.age = 0] \in Incident
    BY <1>1 DEF Incident
  <2> QED BY <1>1, <1>4, <2>1 DEF Escalates
<1>5. ASSUME NEW m \in Monitor, Resolves(m)
      PROVE  incident' \in [Monitor -> Incident]
  <2>1. [incident[m] EXCEPT !.open = FALSE] \in Incident
    BY <1>1 DEF Incident
  <2> QED BY <1>1, <1>5, <2>1 DEF Resolves
<1>6. ASSUME NEW S \in SUBSET Monitor, EnqueueRepeatAlerts(S)
      PROVE  incident' \in [Monitor -> Incident]
  <2>1. \A m \in S : [incident[m] EXCEPT !.repeats_sent = @ + 1, !.age = 0] \in Incident
    <3> SUFFICES ASSUME NEW m \in S
                 PROVE  [incident[m] EXCEPT !.repeats_sent = @ + 1, !.age = 0] \in Incident
      OBVIOUS
    <3>1. incident[m] \in Incident /\ incident[m].repeats_sent < MaxCount
      BY <1>1, <1>6 DEF EnqueueRepeatAlerts, Overdue, Due
    <3>2. /\ incident[m].open \in BOOLEAN /\ 0 \in 0 .. Interval
          /\ incident[m].repeats_sent + 1 \in 0 .. MaxCount
      BY <1>1, <3>1 DEF Incident
    <3>3. [incident[m] EXCEPT !.repeats_sent = @ + 1] \in Incident
      BY <3>1, <3>2 DEF Incident
    <3>4. [[incident[m] EXCEPT !.repeats_sent = @ + 1] EXCEPT !.age = 0] \in Incident
      BY <3>2, <3>3 DEF Incident
    <3> QED BY <3>4
  <2>2. \/ UNCHANGED incident
        \/ incident' = [m \in Monitor |->
               IF m \in S THEN [incident[m] EXCEPT !.repeats_sent = @ + 1, !.age = 0]
               ELSE incident[m]]
    BY <1>6 DEF EnqueueRepeatAlerts
  <2> QED BY <1>1, <2>1, <2>2
<1>7. CASE Tick
  <2>1. \A m \in Monitor :
            [incident[m] EXCEPT !.age = IF @ < Interval THEN @ + 1 ELSE @] \in Incident
    <3> SUFFICES ASSUME NEW m \in Monitor
                 PROVE  [incident[m] EXCEPT !.age = IF @ < Interval THEN @ + 1 ELSE @]
                            \in Incident
      OBVIOUS
    <3>1. incident[m] \in Incident
      BY <1>1
    <3> QED BY <1>1, <3>1 DEF Incident
  <2> QED BY <1>7, <2>1 DEF Tick
<1>8. \/ UNCHANGED incident
      \/ \E m \in Monitor : Opens(m) \/ Escalates(m) \/ Resolves(m)
      \/ \E S \in SUBSET Monitor : EnqueueRepeatAlerts(S)
      \/ Tick
  BY DEF RNext, rvars, Maintenance, Destinations, UpdateMonitor, Renew, ClaimDueExpiryChecks,
         RecordExpiryCheck, CheckLost, HalfDayPasses
<1> QED BY <1>2, <1>3, <1>4, <1>5, <1>6, <1>7, <1>8

Cert == [left : Int, serial : Nat]

LEMMA CertStep ==
    ASSUME Sensible, RTypeOK, [RNext]_rvars
    PROVE  cert' \in [Monitor -> [Kind -> Cert]]
<1>1. cert \in [Monitor -> [Kind -> Cert]]
  BY DEF RTypeOK, Cert
<1>2. CASE UNCHANGED cert
  BY <1>1, <1>2
<1>3. ASSUME NEW m \in Monitor, NEW k \in Kind, Renew(m, k)
      PROVE  cert' \in [Monitor -> [Kind -> Cert]]
  <2>1. [left |-> Horizon, serial |-> cert[m][k].serial + 1] \in Cert
    BY <1>1, <1>3 DEF Cert, Sensible
  <2> QED BY <1>1, <1>3, <2>1 DEF Renew
<1>4. CASE HalfDayPasses
  <2>1. \A m \in Monitor, k \in Kind :
            [cert[m][k] EXCEPT !.left = IF @ > -HalfDays THEN @ - 1 ELSE @] \in Cert
    BY <1>1 DEF Cert, HalfDays
  <2> QED BY <1>4, <2>1 DEF HalfDayPasses
<1>5. \/ UNCHANGED cert
      \/ \E m \in Monitor, k \in Kind : Renew(m, k)
      \/ HalfDayPasses
  BY DEF RNext, rvars, Opens, Escalates, Resolves, Maintenance, Destinations, UpdateMonitor,
         EnqueueRepeatAlerts, ClaimDueExpiryChecks, RecordExpiryCheck, CheckLost, Tick
<1> QED BY <1>2, <1>3, <1>4, <1>5

LEMMA OthersStep ==
    ASSUME RTypeOK, [RNext]_rvars
    PROVE  /\ config' \in [Monitor -> Config]
           /\ muted' \subseteq Monitor /\ reachable' \subseteq Monitor
           /\ claims' \subseteq [monitor : Monitor, kind : Kind, threshold : Threshold]
           /\ failing' \in BOOLEAN
<1>1. config' \in [Monitor -> Config]
  BY DEF RTypeOK, RNext, rvars, Opens, Escalates, Resolves, Maintenance, Destinations,
         UpdateMonitor, Renew, EnqueueRepeatAlerts, ClaimDueExpiryChecks, RecordExpiryCheck,
         CheckLost, Tick, HalfDayPasses
<1>2. muted' \subseteq Monitor /\ reachable' \subseteq Monitor
  BY DEF RTypeOK, RNext, rvars, Opens, Escalates, Resolves, Maintenance, Destinations,
         UpdateMonitor, Renew, EnqueueRepeatAlerts, ClaimDueExpiryChecks, RecordExpiryCheck,
         CheckLost, Tick, HalfDayPasses
<1>3. claims' \subseteq [monitor : Monitor, kind : Kind, threshold : Threshold]
  <2>1. ASSUME NEW S \in SUBSET (Monitor \X Kind), ClaimDueExpiryChecks(S)
        PROVE  claims' \subseteq [monitor : Monitor, kind : Kind, threshold : Threshold]
    <3>1. \A x \in S : x[1] \in Monitor /\ x[2] \in Kind /\ config[x[1]].threshold \in Threshold
      BY DEF RTypeOK, Config
    <3> QED BY <2>1, <3>1 DEF RTypeOK, ClaimDueExpiryChecks
  <2>2. \/ claims' \subseteq claims
        \/ \E S \in SUBSET (Monitor \X Kind) : ClaimDueExpiryChecks(S)
    BY DEF RNext, rvars, Opens, Escalates, Resolves, Maintenance, Destinations, UpdateMonitor,
           Renew, EnqueueRepeatAlerts, RecordExpiryCheck, CheckLost, Tick, HalfDayPasses
  <2> QED BY <2>1, <2>2 DEF RTypeOK
<1>4. failing' \in BOOLEAN
  <2>1. UNCHANGED failing \/ failing' = TRUE \/ failing' = FALSE
    BY Zenon DEF RNext, rvars, Opens, Escalates, Resolves, Maintenance, Destinations,
         UpdateMonitor, Renew, EnqueueRepeatAlerts, ClaimDueExpiryChecks, RecordExpiryCheck,
         CheckLost, Tick, HalfDayPasses
  <2> QED BY <2>1 DEF RTypeOK
<1> QED BY <1>1, <1>2, <1>3, <1>4

\* All of the above together.
LEMMA RStep ==
    ASSUME Sensible, RTypeOK, Stamped, [RNext]_rvars
    PROVE  RTypeOK' /\ Stamped' /\ Deepens
BY RowsStep, IncidentStep, CertStep, OthersStep DEF RTypeOK, Incident, Cert

\* The types hold, and with them the limit on reminders: no incident is reminded
\* of more than MaxCount times (i.repeats_sent < the plan's RepeatAlertMaxCount,
\* read and counted under the lock of the row in enqueue_repeat_alerts).
THEOREM RTypeCorrect == ASSUME Sensible PROVE RSpec => [](RTypeOK /\ Stamped)
<1>1. RInit => RTypeOK /\ Stamped
  BY RTypeInit
<1>2. RTypeOK /\ Stamped /\ [RNext]_rvars => RTypeOK' /\ Stamped'
  BY RStep
<1> QED BY <1>1, <1>2, PTL DEF RSpec

\* A warning is given once per bucket and date: what RecordExpiryCheck stamps for
\* a date it already alerted is a deeper bucket, even with overlapping claims of
\* two instances and thresholds edited between claim and record.
THEOREM BucketOnceCorrect == ASSUME Sensible PROVE RSpec => BucketOnce
<1>1. RTypeOK /\ Stamped /\ [RNext]_rvars => [Deepens]_rvars
  BY RStep
<1> QED BY <1>1, RTypeCorrect, PTL DEF RSpec, BucketOnce

-----------------------------------------------------------------------------
(* What is owed stays owed. *)

LEMMA ReminderStays ==
    ASSUME Sensible, RTypeOK, [RNext]_rvars, UNCHANGED <<config, muted, reachable>>,
           NEW m \in Monitor, ReminderOwed(m), ~Escalates(m), ~Resolves(m)
    PROVE  ReminderOwed(m)'
<1>1. /\ incident \in [Monitor -> Incident] /\ Interval \in Nat
      /\ incident[m].open /\ incident[m].age = Interval /\ m \in reachable
  BY DEF RTypeOK, Incident, Sensible, ReminderOwed, Due
<1>2. SUFFICES incident'[m] = incident[m]
  BY DEF ReminderOwed, Due
<1>3. CASE UNCHANGED incident
  BY <1>3
<1>4. ASSUME NEW n \in Monitor, Opens(n) \/ Escalates(n) \/ Resolves(n)
      PROVE  incident'[m] = incident[m]
  <2>1. n # m
    BY <1>1, <1>4 DEF Opens
  <2> QED BY <1>1, <1>4, <2>1 DEF Opens, Escalates, Resolves
<1>5. ASSUME NEW S \in SUBSET Monitor, EnqueueRepeatAlerts(S)
      PROVE  incident'[m] = incident[m]
  <2>1. m \in S => ~Enqueues(m, NULL)
    BY <1>1 DEF Enqueues
  <2> QED BY <1>5, <2>1 DEF EnqueueRepeatAlerts
<1>6. CASE Tick
  <2>1. incident'[m] = [incident[m] EXCEPT !.age = incident[m].age]
    BY <1>1, <1>6 DEF Tick
  <2> QED BY <1>1, <2>1 DEF Incident
<1>7. \/ UNCHANGED incident
      \/ \E n \in Monitor : Opens(n) \/ Escalates(n) \/ Resolves(n)
      \/ \E S \in SUBSET Monitor : EnqueueRepeatAlerts(S)
      \/ Tick
  BY DEF RNext, rvars, Maintenance, Destinations, UpdateMonitor, Renew, ClaimDueExpiryChecks,
         RecordExpiryCheck, CheckLost, HalfDayPasses
<1> QED BY <1>3, <1>4, <1>5, <1>6, <1>7

\* A warning that was due is due as the date draws nearer and as long as the
\* stamp stays.
LEMMA NearerStillDue ==
    ASSUME Sensible, NEW t \in Nat, NEW st \in ExpiryRow, NEW new \in ExpiryRow,
           NEW c \in Cert, NEW d \in Cert, ShouldAlert(st, c, t),
           d.serial = c.serial, d.left <= c.left,
           new.last_alert_bucket = st.last_alert_bucket,
           new.alerted_expires_at = st.alerted_expires_at
    PROVE  ShouldAlert(new, d, t)
<1> DEFINE b == ExpiryAlertBucket(ExpiryDaysLeft(c.left), t)
           e == ExpiryAlertBucket(ExpiryDaysLeft(d.left), t)
<1>1. c.left \in Int /\ d.left \in Int
  BY DEF Cert
<1>2. /\ ExpiryDaysLeft(c.left) \in Int /\ ExpiryDaysLeft(d.left) \in Int
      /\ ExpiryDaysLeft(d.left) <= ExpiryDaysLeft(c.left)
  BY <1>1, DaysLeftFloor
<1>3. /\ b # NULL
      /\ \/ st.alerted_expires_at # c.serial
         \/ st.last_alert_bucket = NULL
         \/ b < st.last_alert_bucket
  BY DEF ShouldAlert
<1>4. e # NULL /\ e <= b
  BY <1>2, <1>3, BucketsDeepen
<1>5. b \in Nat /\ e \in Nat
  BY <1>2, <1>3, <1>4, BucketType
<1>6. st.last_alert_bucket \in Nat \cup {NULL}
  BY DEF ExpiryRow
<1> HIDE DEF b, e
<1>7. \/ new.alerted_expires_at # d.serial
      \/ new.last_alert_bucket = NULL
      \/ e < new.last_alert_bucket
  BY <1>3, <1>4, <1>5, <1>6
<1> QED BY <1>4, <1>7 DEF ShouldAlert, e

\* A row keeps its stamp while the owner can be told and its date is not renewed.
LEMMA StampStays ==
    ASSUME RTypeOK, [RNext]_rvars, NEW m \in Monitor, NEW k \in Kind, WarningOwed(m, k)
    PROVE  /\ status'[m][k].last_alert_bucket = status[m][k].last_alert_bucket
           /\ status'[m][k].alerted_expires_at = status[m][k].alerted_expires_at
<1> DEFINE Kept == /\ status'[m][k].last_alert_bucket = status[m][k].last_alert_bucket
                   /\ status'[m][k].alerted_expires_at = status[m][k].alerted_expires_at
<1>1. CASE UNCHANGED status
  BY <1>1
<1>2. ASSUME NEW S \in SUBSET (Monitor \X Kind), ClaimDueExpiryChecks(S)
      PROVE  Kept
  BY <1>2, ClaimKeepsStamps DEF SameStamp
<1>3. CASE HalfDayPasses
  BY <1>3, DayKeepsStamps DEF SameStamp
<1>4. ASSUME NEW c \in claims, RecordExpiryCheck(c)
      PROVE  Kept
  <2> DEFINE n == c.monitor
             j == c.kind
             new == Recorded(status[n][j], cert[n][j], c.threshold)
  <2>1. /\ n \in Monitor /\ j \in Kind
        /\ status \in [Monitor -> [Kind -> ExpiryRow]]
        /\ status' = status \/ status' = [status EXCEPT ![n][j] = new]
        /\ ShouldAlert(status[n][j], cert[n][j], c.threshold) /\ n \in reachable \ muted
               => status' = status
    BY <1>4, RecordMoves
  <2>2. CASE status' = status
    BY <2>2
  <2>3. CASE status' # status
    <3>1. \A i \in Monitor, l \in Kind :
              status'[i][l] = IF i = n /\ l = j THEN new ELSE status[i][l]
      <4> HIDE DEF new, n, j
      <4> QED BY <2>1, <2>3, OneRow
    <3>2. CASE m = n /\ k = j
      <4>1. ~ShouldAlert(status[n][j], cert[n][j], c.threshold)
        BY <2>1, <2>3, <3>2 DEF WarningOwed
      <4>2. new = [status[n][j] EXCEPT !.expires_at = cert[n][j].serial]
        <5>1. status[n][j] \in ExpiryRow
          BY <2>1
        <5> QED BY <4>1, <5>1 DEF Recorded, ExpiryRow
      <4>3. status[n][j] \in ExpiryRow /\ status'[m][k] = new /\ status[m][k] = status[n][j]
        BY <2>1, <3>1, <3>2
      <4> HIDE DEF new, n, j
      <4> QED BY <4>2, <4>3 DEF ExpiryRow
    <3>3. CASE ~(m = n /\ k = j)
      BY <3>1, <3>3
    <3> QED BY <3>2, <3>3
  <2> QED BY <2>2, <2>3
<1>5. \/ UNCHANGED status
      \/ \E S \in SUBSET (Monitor \X Kind) : ClaimDueExpiryChecks(S)
      \/ \E c \in claims : RecordExpiryCheck(c)
      \/ HalfDayPasses
  BY DEF RNext, rvars, Opens, Escalates, Resolves, Maintenance, Destinations, UpdateMonitor,
         Renew, EnqueueRepeatAlerts, CheckLost, Tick
<1> QED BY <1>1, <1>2, <1>3, <1>4, <1>5

\* Without a renewal a date only draws nearer.
LEMMA DateNears ==
    ASSUME RTypeOK, [RNext]_rvars, NEW m \in Monitor, NEW k \in Kind, ~Renew(m, k)
    PROVE  cert'[m][k].serial = cert[m][k].serial /\ cert'[m][k].left <= cert[m][k].left
<1>1. cert \in [Monitor -> [Kind -> Cert]] /\ cert[m][k] \in Cert
  BY DEF RTypeOK, Cert
<1>2. CASE UNCHANGED cert
  BY <1>1, <1>2 DEF Cert
<1>3. ASSUME NEW n \in Monitor, NEW j \in Kind, Renew(n, j)
      PROVE  cert'[m][k] = cert[m][k]
  <2>1. ~(n = m /\ j = k)
    BY <1>3
  <2>2. cert' = [cert EXCEPT ![n][j] = [left |-> Horizon, serial |-> cert[n][j].serial + 1]]
    BY <1>3 DEF Renew
  <2> QED BY <1>1, <2>1, <2>2, OneRow
<1>4. CASE HalfDayPasses
  <2>1. cert'[m][k] = [cert[m][k] EXCEPT !.left = IF @ > -HalfDays THEN @ - 1 ELSE @]
    BY <1>4 DEF HalfDayPasses
  <2> QED BY <1>1, <2>1 DEF Cert, HalfDays
<1>5. \/ UNCHANGED cert
      \/ \E n \in Monitor, j \in Kind : Renew(n, j)
      \/ HalfDayPasses
  BY DEF RNext, rvars, Opens, Escalates, Resolves, Maintenance, Destinations, UpdateMonitor,
         EnqueueRepeatAlerts, ClaimDueExpiryChecks, RecordExpiryCheck, CheckLost, Tick
<1>6. ASSUME cert'[m][k] = cert[m][k]
      PROVE  cert'[m][k].serial = cert[m][k].serial /\ cert'[m][k].left <= cert[m][k].left
  BY <1>1, <1>6 DEF Cert
<1> QED BY <1>2, <1>3, <1>4, <1>5, <1>6

LEMMA WarningStays ==
    ASSUME Sensible, RTypeOK, Stamped, [RNext]_rvars, UNCHANGED <<config, muted, reachable>>,
           NEW m \in Monitor, NEW k \in Kind, WarningOwed(m, k), ~Renew(m, k)
    PROVE  WarningOwed(m, k)'
<1>1. RTypeOK'
  BY RStep
<1>2. /\ status[m][k] \in ExpiryRow /\ status'[m][k] \in ExpiryRow
      /\ cert[m][k] \in Cert /\ cert'[m][k] \in Cert
      /\ config[m].threshold \in Nat
  <2>1. status[m][k] \in ExpiryRow /\ status'[m][k] \in ExpiryRow
    BY <1>1 DEF RTypeOK
  <2>2. cert[m][k] \in Cert /\ cert'[m][k] \in Cert
    BY <1>1 DEF RTypeOK, Cert
  <2>3. config[m] \in Config
    BY DEF RTypeOK
  <2>4. config[m].threshold \in Nat
    BY <2>3 DEF Config, Sensible
  <2> QED BY <2>1, <2>2, <2>4
<1>3. ShouldAlert(status[m][k], cert[m][k], config[m].threshold)
  BY DEF WarningOwed
<1>4. ShouldAlert(status'[m][k], cert'[m][k], config[m].threshold)
  BY <1>2, <1>3, StampStays, DateNears, NearerStillDue
<1>5. ShouldAlert(status[m][k], cert[m][k], config[m].threshold)'
  BY <1>4 DEF ShouldAlert
<1> QED BY <1>5 DEF WarningOwed

\* The failure of OwedGoesOut holds for all constants: once a reminder or warning
\* is owed to a monitor that can be reached, no sweep of enqueue_repeat_alerts
\* and no RecordExpiryCheck ever sends it, since the insert without a latency
\* aborts them.
THEOREM OwedStaysCorrect == ASSUME Sensible PROVE RSpec => OwedStays
<1>1. RTypeOK /\ Stamped /\ [RNext]_rvars => [StillOwed]_rvars
  <2> SUFFICES ASSUME RTypeOK, Stamped, [RNext]_rvars PROVE StillOwed
    OBVIOUS
  <2> SUFFICES ASSUME UNCHANGED <<config, muted, reachable>>
               PROVE  /\ \A m \in Monitor : ReminderOwed(m) /\ ~Escalates(m) /\ ~Resolves(m)
                                                => ReminderOwed(m)'
                      /\ \A m \in Monitor, k \in Kind : WarningOwed(m, k) /\ ~Renew(m, k)
                                                          => WarningOwed(m, k)'
    BY DEF StillOwed
  <2>1. ASSUME NEW m \in Monitor, ReminderOwed(m), ~Escalates(m), ~Resolves(m)
        PROVE  ReminderOwed(m)'
    BY <2>1, ReminderStays
  <2>2. ASSUME NEW m \in Monitor, NEW k \in Kind, WarningOwed(m, k), ~Renew(m, k)
        PROVE  WarningOwed(m, k)'
    BY <2>2, WarningStays
  <2> QED BY <2>1, <2>2
<1> QED BY <1>1, RTypeCorrect, PTL DEF RSpec, OwedStays
==============================================================================
