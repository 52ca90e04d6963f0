# A TLA+ model of the Upguardly server

Upguardly checks HTTP, TCP and ping targets from several regions, opens an
incident when a majority of regions agree that a target is unhealthy, and alerts
the owner's channels.  This directory holds TLA+ specifications of its core, the
TLC runs that check them on small instances and TLAPS proofs of the properties
that matter most.  `PROJECT.json` maps every definition to the lines it models.

## 1. Inventory

| Part | State it keeps | Operations | Talks to |
|---|---|---|---|
| Quorum SQL (`record_region_check`, `evaluate_monitor_quorum`) | `monitor_region_status`, `region_verification_requests`, `scheduler_region_heartbeats`, `incidents` | record a check, ask other regions, decide, open / escalate / resolve, purge | called by check jobs, verification workers and the sweep; writes `alert_outbox` in the same transaction |
| `verificationWorker` (one per scheduler process) | claimed requests | heartbeat, claim, verify, complete, sweep of expired requests | quorum SQL |
| `alertDispatcher` (one per process) | claimed outbox rows, a batch deadline, 8 send slots | claim with lease, send, give up, finalize | `alert_outbox`, `alert_history`, the alert providers |
| `Coordinator` | etcd key under a lease, `c.instances`, the event channel | register, keep alive, re-register, list, watch, notify, reconcile, deregister | etcd, `DistributedScheduler` |
| `PartitionManager` | owned partitions | recalculate from the sorted member list | `DistributedScheduler` |
| `DistributedScheduler`, `Scheduler` (embedded) | `jobs`: one goroutine per monitor | sync, restart on change, stop | database, `checkRunner` |
| `checkRunner`, `resultWriter` | config snapshots, a channel of 4096 results, a batch of 200 | check, enqueue, flush, stop | quorum SQL, `monitor_results` |
| `alertRepeater`, `expirySweeper` | `repeats_sent`, `last_alert_at`; `monitor_expiry_status` | periodic sweeps | `enqueue_monitor_alerts` |
| Maintenance windows | one-off and weekly windows | `in_maintenance` | muting of alerts |
| Subscriptions and billing | `subscriptions`, Stripe's own state | checkout, webhooks, cancel, resume, reconcile, fit monitors to the plan, also by hand (`cmd/backfill`) | Stripe, monitors |
| Monitors API, plan limits | `monitors` | create, update, pause, delete under plan quotas | schedulers read the rows |
| Organizations, members, invitations, recipients | the tables of these names | invite, accept, remove, caps per plan | monitors, alert fan-out |
| Notification channels and fan-out | `notification_channels`, `monitor_channel_settings` | add, edit, delete, override per monitor; `enqueue_monitor_alerts` picks destinations | quorum SQL, the two sweeps, `alert_outbox` |
| Rate limiter, auth and workspace middleware, checkers, alert channels, mailer, metrics, configuration | little or none | per request or pure I/O | |

What is hard to test here: several processes per region and several regions act
on one monitor; every process runs six loops; handlers check and write in
different transactions; confirmations, expiry and the
purge on resolve race; leases replace locks in the outbox and in etcd; shutdown
happens around checks in flight.  `PROJECT.json` lists the hazards line by line
with the properties that would catch each.

What makes the parts correct: incidents follow one life cycle and alerts follow
incidents; a single region's blip alerts nobody; a real outage is alerted on even
if no other region can confirm it; a deleted monitor stays deleted; an alert
leaves the outbox only when sent or used up, and its history is true; instances
that agree on the membership never share a monitor and a stable membership ends
with every monitor checked once; every job can be stopped, every result is
stored once, and every edit reaches its job; the subscription record ends up
granting what Stripe's live subscription grants, and a monitor uses no more than
the plan allows; a user belongs to one organization, which keeps its owner; seats
and invitations are spent once, and one account pays for one pool of monitors; an
alert goes to each destination once, and to destinations that fit their channel;
what an open incident or an expiring certificate owes its owner is sent.

## 2. The modules

| Module | Models |
|---|---|
| `IncidentLifecycle` | abstract: one incident, its transitions and what subscribers were told |
| `IncidentQuorum` | one monitor across regions: checks, confirmations, sweeps, edits, time |
| `QuorumScenarios` | `IncidentQuorum` under assumptions on the platform (healthy; prompt loops) and what holds then |
| `AlertOutbox` | outbox rows, leases, dispatchers and their send slots |
| `Ownership` | membership in etcd, its lists, and the partitions each instance checks |
| `CheckRunner` | the jobs of one process, the sync loop, the result writer and shutdown |
| `Billing` | one user's subscription at Stripe, the record of it, and the monitor settings that depend on the plan |
| `Workspace` | organizations, members, invitations, alert recipients, and the pool of monitors of each payer, under concurrent requests |
| `Channels` | the notification channels of one account, per-monitor overrides, recipients, and the destinations of an alert |
| `Reminders` | repeat alerts of open incidents and warnings of expiring certificates and domains |
| `MC*` | constants for TLC |
| `*Proofs` | theorems, one module per component |

**IncidentQuorum.**  The two SQL functions take a per-monitor advisory lock, so
each is one step and one monitor is enough.  `row`, `request` and `heartbeat` are
the three tables; `incident` is the open incident; `told` is the status of the
last alert enqueued and `unheard` says that the last transition enqueued none
(`audible` is false in a maintenance window or without an enabled destination).
Timestamps are ages, saturating where no comparison distinguishes more.  The
worker's claim, check, completion, expiry delete and re-evaluation are separate
steps, each of which can be lost (`Abandon`, `LoseEvaluation`); a failed
heartbeat, a failed record of a scheduled check or a failed fetch is a step that
does not happen.  `EvaluateMonitorQuorum` passes no message; since
`alert_outbox.message` is NOT NULL, a resolve that would enqueue an alert is
rolled back, and so it is in the model.  Region edits are two statements
(`UpdateMonitorRegions`, `CleanupRegionStatus`), and the pool of a removed region
keeps its job until `syncMonitors`.  Status codes, messages and latencies are left out.

**AlertOutbox.**  `wait` is the time until `next_attempt_at`, `age` that of a
dispatcher's batch.  Attempts past the limit are not told apart.  A send may
succeed, fail, or be accepted without an answer.  Finalizing under a deleted
channel fails on the foreign key.  `OSpec` lets goroutines and the database stall at
will; `PromptSpec`, the specification of the run, lets time pass only when no
goroutine could go on, except for `Stall`s, of which there are boundedly many.

**Ownership.**  A list is a set of instances: sorting gives each its place.  Listing, storing into the shared field and
reading it back are separate steps of two goroutines.  Jobs are kept per
partition.  A watch event may come at any time or
never, and only to the instances in `Watched`.  `Shutdown` cancels all
jobs before the key is deleted, as `main` does.

**CheckRunner.**  `version` stands for the `updated_at` and interval that
`reconcileJob` compares.  A goroutine is a record with its snapshot's version;
`canceled` is its context.  `WaitsForSync` and `CallerCancels` choose between the
embedded Stop, which does not wait for its sync loop, and the distributed one.
`runCheck` hands the result to the writer and `recordRegionCheck` reports it to the
quorum, in this order and as two steps, between which the job may be canceled; `report`
keeps whether what this region reported last came from a check that ran or from one
that the cancellation aborted.
`jobLoop`'s returns for an invalid interval and `runCheck`'s for an unknown type
are not modelled: the API validates both.

**Billing.**  `stripe` lists the subscriptions bought, `events` what Stripe has yet
to deliver; each event carries a snapshot, may be delivered in any order and twice,
or stay undelivered.  A request slot of `Req` holds one request or webhook and what
it has read: reading the row, calling Stripe, reading the old plan, the upsert and
each of the five statements of `ReconcileMonitorsToPlan` are steps of their own.
`NoRow` stands for a missing row and, as in `UpsertSubscriptionParams`, for NULL
identifiers.  `Faults` lets a read find nothing, a write fail and a handler give
up.  `uses` is the set of plan-gated features of one monitor (the statements treat
all monitors alike); switching a feature off is always allowed and is left out, but
for deleting the monitor.  Left out too: period dates, price ids, and a second
Stripe customer made because the search index lagged.  `GetSubscription` is the
page when its last live read is old enough (`shouldReconcile`); within the minute
it only reads.  `Backfill` is one user's turn of `cmd/backfill -confirm`: the same
statements, decided on the plan the row granted when it was read, with FREE as the
old plan, among whatever requests run meanwhile.  Only the statement that trims
regions can then change anything: `ReconcileMonitorsToPlan` no longer lowers
intervals after an upgrade, which is what the command was written for.  `torn` is a history variable: it becomes true at the three kinds of
step after which a monitor may exceed its plan (see `WithinPlan`).

**Workspace.**  A slot of `Req` holds one request: `Checks` are the conditions a
handler reads before it writes, in one step, and `Writes` the transaction or the
statement that follows, with what the database enforces at that moment: the unique
index on `organization_members.user_id` (`UserIdIndex`), foreign keys (`Live`), a
`WHERE status = 'PENDING'` (`Marked`), counts under a lock (`SeatFree`,
`BillingScope`).  A check that fails changes nothing and is no step; `Fails` is an
error of the database.  `CreateInvitation` is longer: it expires the lapsed
invitations of the address one by one, checks the seats, and inserts.  `Faults` lets
a read fail where the handler goes on without it: plans are then FREE, lists empty.
An id is used once and stands for the UUID and for the token of an invitation;
accounts are identified with their e-mail addresses.  `Payer` bounds who ever
subscribes.  `PlanChanges` is the outcome of `Billing`, without its trimming of
monitors, which removes none.  PRO has no organizations and is left out, as are
names of organizations and the resending of an invitation's e-mail.

**Channels.**  A slot of `Req` holds one request that adds or edits a channel: its
checks (`CreateNotificationChannel`, `UpdateNotificationChannel`) and its write
(`InsertChannel`, `WriteChannel`) are separate steps, and the unique index is looked at
by the write.  An edit writes the columns it was given only, so `None` is a field that
stays.  `mixed` is a history variable: the rows a partial edit was written to after
they had changed under it.  The plan is read twice by some requests and may differ each
time.  Deleting, switching on or off and the overrides per monitor have one effective
statement and are one step.  `FanOut` is the set of rows `enqueue_monitor_alerts`
inserts.  What a target looks like is reduced to its kind (`Phone`, `Chat`, `Hook`,
`Address`); the masking of targets is output.

**Reminders.**  `incident` is the latest incident of a monitor with the time since its
last alert, `status` the row of `monitor_expiry_status`, `claims` the expiry checks a
sweep holds.  Dates are half days left, so that the rounding of `ExpiryDaysLeft`
shows.  `Enqueues` is the one thing the module says of the insert into the outbox: it
goes through if there is no destination or a latency is given, and otherwise it takes
its transaction with it; for the repeater that is the whole sweep.  Incidents open,
escalate and resolve at will here; when they do is `IncidentQuorum`'s.

## 3. The runs

All bounds are in the cfg files; runs take seconds to about three minutes.

| Run | Shows | Bounds, and why they are enough |
|---|---|---|
| `quorum_faults` | types, `ToldMatchesIncident`, `DeletedLeavesNothing`, refinement of `IncidentLifecycle` | two regions with a worker each, any status, all faults, pause, delete, muting; two regions give asker and asked, majority, tie and expiry |
| `quorum_blip` | `BlipNeverAlerts` | three pools, one flaky region, region edits, reports that age out |
| `quorum_progress` | `Detected`, `Recovered` | two regions, a confirmation that may always be lost |
| `quorum_false_resolve` | finding: an incident resolves while every region reports failures | check interval longer than the confirmations' freshness |
| `outbox` | types, `LeavesOnlyWhenDone`, `HistoryHonest`, `LeaseHolds`, `Drained` | two alerts (a channel's and a recipient's), two dispatchers, one slot, two attempts, one fault: a crash, a failed finalization or a stall.  A send may take 1, the first lease is 1, later ones and a batch are 2, in the code 30 seconds, 30 seconds, and two minutes for a batch: a lease ends before its batch does, so rows that wait for the slot are claimed again, claims of both dispatchers overlap, and batches reach their deadline |
| `outbox_double_send` | finding: two dispatchers send the same alert at once | the same two alerts and dispatchers without faults; units of 10 seconds, a lease of 3, a batch of 12, and sends of at most 2 (the code allows 3), which rules out the overlap of a send that takes its whole timeout and leaves that of a row that waited |
| `ownership_settles` | types, `NoSplit`, `SettledStays`, `CheckedOnce` | two instances, three partitions (not divisible by two), an event channel of one, three writes of the key set (two joins and a loss; a join, a loss and the re-registration), one of the watches dead for good |
| `runner_safety` | types, `Cancellable`, `ResultsOnce`, `AbortedNeverCounts`, `SyncComplete`, `FreshConfig` | one monitor with two edits, three goroutines and results, a channel of one |
| `billing` | types, `WithinPlan`, `NothingUnbought`, `IdsKept`, `Converges` | two overlapping requests, every failure, one gated feature, one subscription, three acts of the user and Stripe (checkout, purchase and one more: change of plan, cancel, failed payment, suspension, end).  Events of an old subscription need a second one, which the run does not reach; the theorems on the safety properties cover any number |
| `workspace` | types, `OneOrganization`, `OrgsWhole`, `SeatsRespected`, `SeatsPromised`, `RecipientsBounded`, `JoinsByInvitation`, `SettledForGood`, `PoolRespected` | three accounts, one of which pays, two requests at a time, reads that fail; one login seat and one recipient, one monitor on FREE and two on ENTERPRISE.  `Narrow` of `MCWorkspace` bounds what exists together: two organizations and two invitations without monitors and recipients (the last seat is promised twice, an organization is founded anew after a deletion or twice at once, an acceptance races another), or one organization and one invitation with two monitors or two contacts (payer and member create in different workspaces for the one place the payer has left on FREE, while the organization is deleted and the plan changes).  The proofs cover any number of each, together |
| `channels` | types, `OnceEach`, `TargetsFit`, `CapsBounded` | two channels, two requests at a time, the capped types e-mail and SMS with two numbers, one monitor of the organization, a recipient with the account's own address: duplicate adds race, an edit lands on a row another edit or a deletion changed |
| `reminders` | finding: neither a reminder nor an expiry warning ever goes out | one monitor, one certificate that runs out over six half days and may be renewed once, an interval of one tick, one reminder |

Deadlock checking is off for `Ownership` and `CheckRunner` only: all instances
may be off with the bound on changes reached, and a stopped process stays stopped.

Fairness.  `PromptSpec` of `QuorumScenarios`: the loops wake every 2 seconds and a
time unit is a minute, so time does not pass while something expired is unswept;
checks, claims and sweeps are weakly fair, a confirmation ends (recorded or
lost), nothing is assumed of heartbeats or of confirmations succeeding.
`PromptSpec` of `AlertOutbox`: goroutines with a free slot start, claims keep
coming (ticker), time passes.  `RSpec` of `Reminders`: both loops keep ticking, the
sweep of reminders takes all that is due, every due expiry check is claimed, and a check that
is tried day after day succeeds one day (strong fairness).  `FairSpec` of `Ownership`: local steps are weakly
fair; listing keys and fetching monitors are strongly fair because each may fail
repeatedly but not forever; the watch gets no fairness to fire.  `FairSpec` of
`CheckRunner`: the sync loop keeps turning and its fetch succeeds again and again.
`BFairSpec` of `Billing`: handlers run to their end, the user goes on opening the
billing page, and Stripe's answer and the upsert are strongly fair because each may
fail repeatedly but not forever; nothing is assumed of the delivery of events.

## 4. What the findings say

* *False resolve.*  A confirmation counts for 120 seconds.  With a longer check
  interval the next failing check finds the confirmations aged out, asks again,
  and counts the asked regions as pending: 1 of 2 is no majority, so the open
  incident resolves with an "up" alert, and reopens when the answer arrives.
* *Double sends.*  `SKIP LOCKED` protects the claim of an alert only, not its delivery:
  dispatcher.go:29-31 concludes that dispatchers run "concurrently without
  double-sending", but the locks end with the claim, and the first lease (30 seconds) is
  shorter than the two minutes a batch may take.  A row that waits for one of the slots
  is sent when its lease is over or about to be, and another dispatcher sends it as
  well.  What the lease gives is `LeaseHolds`, which holds in the run and is proved: an
  alert has two senders at once only if one of them has outlived the lease of its own
  claim, which takes one of the first three attempts: later leases outlast a batch.
* *Reminders never go out.*  `enqueue_repeat_alerts` and `RecordExpiryCheck` pass a
  NULL latency to `enqueue_monitor_alerts`, which inserts it into
  `alert_outbox.latency INTEGER NOT NULL` (the column's default does not apply to an
  explicit NULL).  Whenever the monitor has a destination the insert fails.  A sweep of
  reminders is one transaction, so one such monitor takes the reminders of all others
  with it, every 30 seconds anew; an expiry check is rolled back with its date and
  bucket, so the page shows no expiry either.  With a nullable latency both
  halves of `OwedGoesOut` hold on the same instance.

The models show more that no run keeps.  `Stop` of the runner cancels its jobs but
does not wait for them, then closes the channel they send on: a check that ends late
panics.  An incomplete or unpaid subscription is stored as its plan with status
CANCELED; `invoice.payment_failed` keeps the plan and writes PAST_DUE, which counts
as entitled, until an update event or the billing page corrects it.  Two invitations
for the last seat may both be sent, and then neither can be accepted, because each
acceptance counts the other invitation.  When an organization is deleted its monitors
become personal ones of whoever created them, also of former members (store.go:57-60:
"once removed from the org they lose it like any other member"), whatever their plan
or their number.  A confirmation claimed before a resolve is recorded
after its purge and can help to reopen the incident.  The sweep passes NULL for the
message, so its resolve is rolled back while somebody is to be notified.  A trimming
that fails, or two syncs of one user that overlap, can leave a monitor above its
plan until the plan changes again (`cmd/backfill` skips accounts on FREE); these are
two of the three exceptions of `WithinPlan`, which says that there are no others.  Two
edits of one channel that each give a part of the row combine into a type and a target
nobody checked together (the exception of `TargetsFit`), and overlapping adds exceed the cap of
one phone number, by as many as overlap (`CapsBounded`).  An expiry bucket crossed in a
maintenance window is stamped and never alerted, although an incident opened in one is
made up for by its first reminder.  During a
rebalancing two instances check the same monitors until the old one hears of the
new (README.md of the repository: "with no monitor checked by two instances at once");
`Reconcile` may return the watch loop's older list; the embedded Stop can be
followed by a job started from a sync in progress; an alert is dropped after its
eighth attempt although dispatcher.go says an outage delays alerts "instead of
losing them".

## 5. What is proved

Every theorem holds for all values of the constants that satisfy the named
assumptions; `PROJECT.json` lists them.

* `IncidentQuorumProofs`: `TypeOK` is inductive.  `ToldMatchesIncident` needs it
  and the observation that every action either leaves `incident`, `told` and
  `unheard` alone or is `evaluate_monitor_quorum` or a deletion.
  `DeletedLeavesNothing` follows from the deleted guard of every writer, with
  time and sweeps leaving absent rows absent.  `LifecycleRefinement` shows that
  each of those steps is a step or a stutter of the abstract machine (an open
  DOWN never softens).  `BlipSafe`, about `QuorumScenarios`, comes from the inductive
  `BlipInv`: on a healthy platform only the flaky region ever reports a failure, it is
  never asked, and no question outlives its time unit, so whoever fails alone is at
  most half of the reporters and the pending.
* `AlertOutboxProofs`: types; `LeavesOnlyWhenDone` and `HistoryHonest` from an
  invariant on goroutines (a goroutine that is done was received or has used its
  attempts, and its copy of the attempts never exceeds the row's);
  `LeaseHolds`, without any assumption on how leases and deadlines compare, from
  `LeaseInv`: for every row a dispatcher holds, the age of its batch and the time until
  the row is due add up to the lease of its claim at least, unless that lease is over.
  Whoever claims the row next finds it due, and so the first holder past its lease.
* `OwnershipProofs`: `OwnedCovers` (for every list that is not empty, every partition is
  owned by exactly one instance, a member of it), from the lemmas that places in a sorted
  list are distinct (`OwnedDisjoint`) and cover `0 .. n-1` (`OwnedSome`); types with the bound of the event channel; `NoSplit` from the
  invariant that every job is in a partition the applied list gives its instance;
  `SettledStays`, the part of `CheckedOnce` that is no liveness: where every list and
  event in flight is the current membership (`Current`, kept by `CurrentStep`),
  `applyOwnership` and `syncMonitors` have nothing to stop and nothing to start, an
  instance that does not run has no jobs (`Quiet`), and `OwnedCovers` makes the jobs a
  partition.
* `CheckRunnerProofs`: types with the bounds of channel and batch; `Cancellable`
  from the inductive relation between job entries and goroutines;
  `AbortedNeverCounts` because a goroutine that holds an aborted check is canceled, which
  is never taken back, and a canceled context reports nothing.  `ResultsOnce` from
  `Places`: neither the channel nor the batch repeats a result, channel, batch, inserted
  and lost results are disjoint, and together they are all that was handed over; a
  receive, a flush and a full channel move results from one to another.  `SyncComplete`,
  the part of `FreshConfig` that is no liveness, from `EntriesStarted` (an entry names a
  goroutine that was started) and `Reconciled` (until Stop, an entry's goroutine is alive
  and its monitor's, and what the sync has dealt with runs with what it fetched).
* `BillingProofs`: types; `IdsKept`, since the row only ever changes by an upsert;
  `WithinPlan` without premises, from the inductive `Accounted`: until a step that
  `torn` names, every feature in use is allowed by the plan of the record or doomed by a
  statement that a trimming under way has yet to execute.  `Backfill` only adds such
  statements.  `NothingUnbought` from `Unbought`: while Stripe knows no subscription, no
  event is on its way, no request waits on one, and neither the row nor what a request is
  about to write grants more than FREE; a subscription, once bought, is never forgotten by Stripe
  (`StripeGrows`), so the premise cannot come back.
  `NeverTornAlone` shows that one request at a time without failures takes none of
  those steps.
* `ChannelsProofs`: all properties of `Channels`, for any number of channels and
  slots.  `OnceEach` from the uniqueness of rows, which every write keeps, and from the
  exclusion of covered recipients; `TargetsFit` from what each request in progress has
  checked of the row it saw; `CapsBounded` by counting: a request that finds room finds
  no channel of its type but the one it edits, so from then on every further one is
  charged to another slot.
* `WorkspaceProofs`: all properties of `Workspace`, for any number of
  requests at a time.  The inductive `WInv` adds two parts to the types,
  `OneOrganization` and `OrgsWhole`: `Ids` (an id names one row, and only used ids
  occur) and `RequestsSound` (what a request relies on from its checks to its write:
  the target of a role change or a removal owns nothing there, the accepted
  invitation is still addressed to the caller, the payer of a new monitor is still
  the owner).  Ids that are never reused make the second inductive.  The seats follow
  from `SeatsMove`: a step adds no seat, begins to promise one that was free, turns
  such a promise into an invitation, or an invitation into a member.  `RecipientsBounded`
  follows in the same way from `RecipientMoves`.  `PoolRespected` has two halves: only
  `CreateMonitor` grants a request its cap, from a plan the billed account has at that
  moment or from FREE (`GrantStep`), and `InsertMonitor` counts the pool of the account
  that was looked up then (`PoolStep`).
* `RemindersProofs`, about the code as it is, under `Sensible` (numbers are numbers,
  NULL is none): the types with the limit on reminders; `BucketOnce`, that the bucket
  stamped for a date only gets deeper, with the invariant `Stamped` (a row names a bucket
  exactly when it names a date); and `OwedStays`, which is the second finding for all
  constants: no sweep and no recorded check ends what is owed to a monitor with a
  destination.  It rests on `DaysLeftFloor` (Go's truncation with its correction is the
  rounding down) and `BucketsDeepen` (fewer days, no shallower bucket), so that time
  ends nothing either.

Only model-checked: the liveness properties (`Detected`, `Recovered`, `Drained`,
`CheckedOnce`, `FreshConfig`, `Converges`), because fairness and ENABLED are beyond the
prover.  Every other property that a passing run checks is stated by a theorem.

## 6. Not modelled

Checkers, alert providers and the mailer (network I/O, an outcome is chosen),
authentication and sessions, metrics and statistics (read-only), configuration and
migrations.  The rate limiter counts requests in memory and shares no state with the
rest.  Lists and other reads of the API change nothing;
validation of request bodies is modelled where another component relies on it.

## 7. Plan

The weekly maintenance window and the effective interval as functions of time and
plan, against reference definitions.
