------------------------------- MODULE Billing -------------------------------
(***************************************************************************)
(* One user's subscription: what Stripe holds, the record the application  *)
(* keeps of it, and the monitor settings that depend on the plan.          *)
(*                                                                         *)
(* Stripe's events reach the webhook in any order, late, more than once or *)
(* never.  Requests of the user and webhooks run concurrently in slots of  *)
(* Req; each reads the record, calls Stripe and writes the record in steps *)
(* of their own.  Every handler that changes the plan ends in              *)
(* syncSubscription: read the old plan, upsert, and when the effective     *)
(* plan moved take away from the monitors what the new plan lacks, one     *)
(* statement after the other.                                              *)
(*                                                                         *)
(* ACTIVE stands for TRIALING too.  A monitor setting is the set of        *)
(* plan-gated features in use: an interval under FREE's floor (fast), two  *)
(* or three regions, more than three (manyRegions), a custom threshold,    *)
(* expiry checks and repeated alerts.                                      *)
(***************************************************************************)
EXTENDS Integers, Sequences, FiniteSets

CONSTANTS
    Req,        \* slots for requests in progress
    Edited,     \* the features the user switches on
    Faults,     \* may calls to Stripe and to the database fail?
    MaxSubs,    \* bound on the subscriptions bought
    MaxActs,    \* bound on what the user and Stripe do
    MaxDups     \* bound on repeated deliveries

Feature == {"fast", "regions", "manyRegions", "threshold", "expiry", "repeat"}

ASSUME BillingAssumption ==
    /\ Edited \subseteq Feature
    /\ Faults \in BOOLEAN
    /\ MaxSubs \in Nat /\ MaxActs \in Nat /\ MaxDups \in Nat

VARIABLES
    stripe,     \* Stripe's subscriptions, in the order they were bought
    sessions,   \* the plans of open checkout sessions
    events,     \* events Stripe has yet to deliver
    row,        \* the user's row of subscriptions
    req,        \* the request in each slot
    uses,       \* the plan-gated features the user's monitor uses
    acts,       \* what the user and Stripe did so far
    dups,       \* repeated deliveries so far
    torn        \* history: a write was overtaken, or a trimming cut short

bvars == <<stripe, sessions, events, row, req, uses, acts, dups, torn>>

-----------------------------------------------------------------------------
Plan == {"FREE", "PRO", "ENTERPRISE"}
Paid == Plan \ {"FREE"}

LimitsForPlan ==
    [p \in Plan |->
        CASE p = "FREE"       -> {}
          [] p = "PRO"        -> {"fast", "regions", "threshold"}
          [] p = "ENTERPRISE" -> Feature]

\* suspended: unpaid, paused or incomplete_expired.
StripeStatus == {"incomplete", "active", "past_due", "suspended", "canceled"}
Live == {"active", "past_due"}

Status == {"NONE", "ACTIVE", "PAST_DUE", "CANCELED"}    \* NONE: no row

\* Mutants: a status that is not known counts as paid; it is kept as it is.
MapUnknownActive(s) == IF s = "past_due" THEN "PAST_DUE" ELSE "ACTIVE"
MapVerbatim(s) == s
mapStripeStatus(s) ==
    CASE s = "active"   -> "ACTIVE"
      [] s = "past_due" -> "PAST_DUE"
      [] OTHER          -> "CANCELED"

\* A row, and what an upsert is given: sub 0 and customer FALSE are NULL.
Row == [plan : Plan, status : Status, customer : BOOLEAN,
        sub : 0 .. MaxSubs, cancel : BOOLEAN]

NoRow == [plan |-> "FREE", status |-> "NONE", customer |-> FALSE,
          sub |-> 0, cancel |-> FALSE]

\* GetSubscriptionByUser: a row that cannot be read counts as none.
GetSubscriptionByUser == {row} \cup (IF Faults THEN {NoRow} ELSE {})

effectivePlan(r) == IF r.status \in {"NONE", "CANCELED"} THEN "FREE" ELSE r.plan

\* UpsertSubscription: NULL leaves the identifiers alone.
\* (Mutant: it erases them.)
UpsertErases(r, put) == put
Upserted(r, put) ==
    [put EXCEPT !.customer = put.customer \/ r.customer,
                !.sub = IF put.sub = 0 THEN r.sub ELSE put.sub]

\* upsertParamsFromStripe, of a subscription or of the snapshot in an event.
FromStripe(s, sub) ==
    [plan |-> sub.plan, status |-> mapStripeStatus(sub.status), customer |-> TRUE,
     sub |-> s, cancel |-> sub.cancel]

Canceled == [NoRow EXCEPT !.status = "CANCELED"]

\* Stripe lists the newest subscription first; one that is live is preferred.
\* The set has one member, or none when nothing was ever bought.
GetActiveSubscription ==
    LET live == {s \in DOMAIN stripe : stripe[s].status \in Live}
        candidates == IF live = {} THEN DOMAIN stripe ELSE live
    IN  {s \in candidates : \A t \in candidates : t <= s}

\* The statements of ReconcileMonitorsToPlan, each with the features it is
\* about: what the new plan lacks is taken away.  Only the statement that trims
\* the regions does so whatever the old plan was.
Statement == <<{"fast"}, {"regions", "manyRegions"}, {"threshold"}, {"expiry"}, {"repeat"}>>

\* Mutant: repeated alerts are kept.
LostKeepsRepeat(k, old, new) ==
    IF k = 5 THEN {} ELSE Statement[k] \cap (LimitsForPlan[old] \ LimitsForPlan[new])
Lost(k, old, new) ==
    (IF k = 2 THEN Statement[k] ELSE Statement[k] \cap LimitsForPlan[old])
        \ LimitsForPlan[new]

-----------------------------------------------------------------------------
(* Requests. *)

At == {"idle", "persist", "fetch", "stripe", "sync", "write", "trim", "insert", "save"}
Op == {"none", "checkout", "read", "updated", "deleted", "failed", "cancel", "edit",
       "backfill"}

Request == [at : At, op : Op, put : Row, old : Plan, new : Plan,
            stmt : 0 .. Len(Statement), want : Plan, feats : SUBSET Feature]

Idle == [at |-> "idle", op |-> "none", put |-> NoRow, old |-> "FREE",
         new |-> "FREE", stmt |-> 0, want |-> "FREE", feats |-> {}]

Event == [op : {"updated", "deleted", "failed"}, sub : 1 .. MaxSubs, plan : Paid,
          status : StripeStatus, cancel : BOOLEAN]

BTypeOK ==
    /\ stripe \in Seq([status : StripeStatus, plan : Paid, cancel : BOOLEAN])
    /\ Len(stripe) <= MaxSubs
    /\ sessions \subseteq Plan
    /\ events \subseteq Event
    /\ row \in Row
    /\ req \in [Req -> Request]
    /\ uses \subseteq Feature
    /\ acts \in 0 .. MaxActs
    /\ dups \in 0 .. MaxDups
    /\ torn \in BOOLEAN

BInit ==
    /\ stripe = <<>>
    /\ sessions = {}
    /\ events = {}
    /\ row = NoRow
    /\ req = [q \in Req |-> Idle]
    /\ uses = {}
    /\ acts = 0
    /\ dups = 0
    /\ torn = FALSE

Acts == acts < MaxActs /\ acts' = acts + 1

Free(q) == req[q].at = "idle"

Ends(q) == req' = [req EXCEPT ![q] = Idle]

Starts(q, at, op, put) ==
    req' = [req EXCEPT ![q] = [Idle EXCEPT !.at = at, !.op = op, !.put = put]]

-----------------------------------------------------------------------------
(* Stripe. *)

Emits(op, s) ==
    events' = events \cup
        {[op |-> op, sub |-> s, plan |-> stripe'[s].plan,
          status |-> stripe'[s].status, cancel |-> stripe'[s].cancel]}

\* The user pays, or the first payment is still under way.
CompleteCheckout(p) ==
    /\ p \in sessions
    /\ Len(stripe) < MaxSubs
    /\ Acts
    /\ sessions' = sessions \ {p}
    /\ \E st \in {"active", "incomplete"} :
           stripe' = Append(stripe, [status |-> st, plan |-> p, cancel |-> FALSE])
    /\ Emits("updated", Len(stripe'))
    /\ UNCHANGED <<row, req, uses, dups, torn>>

Becomes(s, st) ==
    /\ Acts
    /\ stripe' = [stripe EXCEPT ![s].status = st]
    /\ UNCHANGED <<sessions, row, req, uses, dups, torn>>

PaymentSucceeds(s) ==
    /\ stripe[s].status \in {"incomplete", "past_due", "suspended"}
    /\ Becomes(s, "active")
    /\ Emits("updated", s)

\* A subscription whose first payment fails stays incomplete.
PaymentFails(s) ==
    /\ \/ stripe[s].status = "incomplete" /\ Becomes(s, "incomplete")
       \/ stripe[s].status = "active" /\ Becomes(s, "past_due")
    /\ events' = events \cup
        {[op |-> op, sub |-> s, plan |-> stripe[s].plan, status |-> stripe'[s].status,
          cancel |-> stripe[s].cancel] : op \in {"failed", "updated"}}

Suspend(s) ==
    /\ stripe[s].status \in {"incomplete", "active", "past_due"}
    /\ Becomes(s, "suspended")
    /\ Emits("updated", s)

\* The period of a subscription that does not renew ends, or it is canceled.
SubscriptionEnds(s) ==
    /\ stripe[s].status # "canceled"
    /\ Becomes(s, "canceled")
    /\ Emits("deleted", s)

\* The user changes plan in the portal.
PortalChangesPlan(s) ==
    /\ stripe[s].status \in Live
    /\ Acts
    /\ \E p \in Paid \ {stripe[s].plan} : stripe' = [stripe EXCEPT ![s].plan = p]
    /\ Emits("updated", s)
    /\ UNCHANGED <<sessions, row, req, uses, dups, torn>>

Stripe ==
    \/ \E p \in Paid : CompleteCheckout(p)
    \/ \E s \in DOMAIN stripe :
           \/ PaymentSucceeds(s) \/ PaymentFails(s) \/ Suspend(s)
           \/ SubscriptionEnds(s) \/ PortalChangesPlan(s)

-----------------------------------------------------------------------------
(* Checkout. *)

\* Mutant: the record carries the plan that is about to be bought.
CheckoutGrants(q, p) ==
    /\ Free(q)
    /\ Acts
    /\ \E r \in GetSubscriptionByUser :
          \/ /\ r.customer
             /\ sessions' = sessions \cup {p} \/ (Faults /\ UNCHANGED sessions)
             /\ UNCHANGED req
          \/ /\ ~r.customer
             /\ req' = [req EXCEPT ![q] = [Idle EXCEPT
                   !.at = "persist", !.op = "checkout", !.want = p,
                   !.put = [r EXCEPT !.customer = TRUE, !.plan = p, !.status = "ACTIVE",
                                     !.sub = 0]]]
             /\ UNCHANGED sessions
    /\ UNCHANGED <<stripe, events, row, uses, dups, torn>>

\* The customer is created when the record has none, and the record will carry
\* it: plan, status and cancellation are what was read.
CreateCheckout(q, p) ==
    /\ Free(q)
    /\ Acts
    /\ \E r \in GetSubscriptionByUser :
          \/ /\ r.customer
             /\ sessions' = sessions \cup {p} \/ (Faults /\ UNCHANGED sessions)
             /\ UNCHANGED req
          \/ /\ ~r.customer
             /\ req' = [req EXCEPT ![q] = [Idle EXCEPT
                   !.at = "persist", !.op = "checkout", !.want = p,
                   !.put = [r EXCEPT !.customer = TRUE,
                                     !.status = IF @ = "NONE" THEN "ACTIVE" ELSE @,
                                     !.sub = 0]]]
             /\ UNCHANGED sessions
    /\ UNCHANGED <<stripe, events, row, uses, dups, torn>>

\* A failed write is only logged.
PersistCustomer(q) ==
    /\ req[q].at = "persist"
    /\ row' = Upserted(row, req[q].put) \/ (Faults /\ UNCHANGED row)
    /\ sessions' = sessions \cup {req[q].want} \/ (Faults /\ UNCHANGED sessions)
    /\ torn' = (torn \/ effectivePlan(row') # effectivePlan(row))
    /\ Ends(q)
    /\ UNCHANGED <<stripe, events, uses, acts, dups>>

-----------------------------------------------------------------------------
(* The billing page. *)

\* GetSubscription, when the last reconcile is old enough: put keeps what was read.
GetSubscription(q) ==
    /\ Free(q)
    /\ \E r \in GetSubscriptionByUser : Starts(q, "fetch", "read", r)
    /\ UNCHANGED <<stripe, sessions, events, row, uses, acts, dups, torn>>

reconcileSubscription(q) ==
    /\ req[q].at = "fetch"
    /\ \/ \E s \in GetActiveSubscription :
              Starts(q, "sync", "read", FromStripe(s, stripe[s]))
       \/ /\ GetActiveSubscription = {}
          /\ IF req[q].put.plan # "FREE" THEN Starts(q, "sync", "read", Canceled)
             ELSE Ends(q)
    /\ UNCHANGED <<stripe, sessions, events, row, uses, acts, dups, torn>>

-----------------------------------------------------------------------------
(* The webhook.  It always answers that the event was received. *)

Delivers(e) ==
    /\ e \in events
    /\ \/ events' = events \ {e} /\ UNCHANGED dups
       \/ dups < MaxDups /\ dups' = dups + 1 /\ UNCHANGED events

handleSubscriptionUpdated(q, e) ==
    /\ Free(q) /\ e.op = "updated" /\ Delivers(e)
    /\ Starts(q, "sync", "updated", FromStripe(e.sub, e))
    /\ UNCHANGED <<stripe, sessions, row, uses, acts, torn>>

\* Which subscription was deleted is not looked at.
handleSubscriptionDeleted(q, e) ==
    /\ Free(q) /\ e.op = "deleted" /\ Delivers(e)
    /\ Starts(q, "sync", "deleted", Canceled)
    /\ UNCHANGED <<stripe, sessions, row, uses, acts, torn>>

handlePaymentFailed(q, e) ==
    /\ Free(q) /\ e.op = "failed" /\ Delivers(e)
    /\ \E r \in GetSubscriptionByUser :
          Starts(q, "sync", "failed", [NoRow EXCEPT !.plan = r.plan, !.status = "PAST_DUE"])
    /\ UNCHANGED <<stripe, sessions, row, uses, acts, torn>>

\* The user cannot be resolved or the price is not known.
IgnoreEvent(e) ==
    /\ Faults
    /\ e \in events
    /\ events' = events \ {e}
    /\ UNCHANGED <<stripe, sessions, row, req, uses, acts, dups, torn>>

-----------------------------------------------------------------------------
(* Scheduling the end of a subscription, and taking that back. *)

CancelSubscription(q) ==
    /\ Free(q)
    /\ row.status # "NONE" /\ row.sub # 0
    /\ Acts
    /\ Starts(q, "stripe", "cancel", [row EXCEPT !.cancel = TRUE])
    /\ UNCHANGED <<stripe, sessions, events, row, uses, dups, torn>>

ResumeSubscription(q) ==
    /\ Free(q)
    /\ row.sub # 0 /\ effectivePlan(row) # "FREE"
    /\ Acts
    /\ Starts(q, "stripe", "cancel", [row EXCEPT !.cancel = FALSE])
    /\ UNCHANGED <<stripe, sessions, events, row, uses, dups, torn>>

\* Stripe refuses for a subscription that is gone.
SetCancelAtPeriodEnd(q) ==
    /\ req[q].at = "stripe"
    /\ LET s == req[q].put.sub
       IN  \/ /\ stripe[s].status = "canceled"
              /\ Ends(q)
              /\ UNCHANGED <<stripe, events>>
           \/ /\ stripe[s].status # "canceled"
              /\ stripe' = [stripe EXCEPT ![s].cancel = req[q].put.cancel]
              /\ IF stripe' = stripe THEN UNCHANGED events ELSE Emits("updated", s)
              /\ req' = [req EXCEPT ![q].at = "sync"]
    /\ UNCHANGED <<sessions, row, uses, acts, dups, torn>>

-----------------------------------------------------------------------------
(* syncSubscription. *)

\* The old plan.
SyncReads(q) ==
    /\ req[q].at = "sync"
    /\ \E r \in GetSubscriptionByUser :
           req' = [req EXCEPT ![q].at = "write", ![q].old = effectivePlan(r)]
    /\ UNCHANGED <<stripe, sessions, events, row, uses, acts, dups, torn>>

\* The write, and whether the monitors have to follow.
UpsertSubscription(q) ==
    /\ req[q].at = "write"
    /\ row' = Upserted(row, req[q].put)
    /\ IF req[q].old = effectivePlan(row') THEN Ends(q)
       ELSE req' = [req EXCEPT ![q].at = "trim", ![q].new = effectivePlan(row'),
                               ![q].stmt = 1]
    /\ torn' = (torn \/ req[q].old # effectivePlan(row))
    /\ UNCHANGED <<stripe, sessions, events, uses, acts, dups>>

\* One statement of ReconcileMonitorsToPlan.
ReconcileMonitorsToPlan(q) ==
    /\ req[q].at = "trim"
    /\ uses' = uses \ Lost(req[q].stmt, req[q].old, req[q].new)
    /\ IF req[q].stmt = Len(Statement) THEN Ends(q)
       ELSE req' = [req EXCEPT ![q].stmt = @ + 1]
    /\ UNCHANGED <<stripe, sessions, events, row, acts, dups, torn>>

\* The repair command, run by hand and once at a time: trim to the plan the row
\* grants, as if the old plan had been FREE.
Backfill(q) ==
    /\ Free(q)
    /\ \A p \in Req : req[p].op # "backfill"
    /\ effectivePlan(row) # "FREE"
    /\ req' = [req EXCEPT ![q] = [Idle EXCEPT
          !.at = "trim", !.op = "backfill", !.new = effectivePlan(row), !.stmt = 1]]
    /\ UNCHANGED <<stripe, sessions, events, row, uses, acts, dups, torn>>

\* A call to Stripe or to the database fails and the handler gives up; what it
\* did so far stays.
Fails(q) ==
    /\ Faults
    /\ req[q].at \in {"fetch", "stripe", "write", "trim", "insert", "save"}
    /\ torn' = (torn \/ req[q].at = "trim")
    /\ Ends(q)
    /\ UNCHANGED <<stripe, sessions, events, row, uses, acts, dups>>

-----------------------------------------------------------------------------
(* Monitors. *)

\* Settings are compared with the limits of the plan as it is now.
Allowed(F) == F \subseteq LimitsForPlan[effectivePlan(row)]

Configures(q, at, F) ==
    /\ Free(q)
    /\ F # {} /\ Allowed(F)
    /\ req' = [req EXCEPT ![q] = [Idle EXCEPT !.at = at, !.op = "edit", !.feats = F]]
    /\ UNCHANGED <<stripe, sessions, events, row, uses, acts, dups, torn>>

\* A new monitor that uses all of what some plan offers.
CreateMonitor(q) ==
    /\ uses = {}
    /\ \E p \in Paid : Configures(q, "insert", Edited \cap LimitsForPlan[p])

\* Expiry checks are switched on by a second write.
InsertMonitor(q) ==
    /\ req[q].at = "insert"
    /\ uses' = req[q].feats \ {"expiry"}
    /\ IF "expiry" \in req[q].feats
       THEN req' = [req EXCEPT ![q].at = "save", ![q].feats = {"expiry"}]
       ELSE Ends(q)
    /\ torn' = (torn \/ ~Allowed(req[q].feats))
    /\ UNCHANGED <<stripe, sessions, events, row, acts, dups>>

\* More than three regions are also more than one.
UpdateMonitor(q, f) ==
    /\ f \notin uses
    /\ Configures(q, "save", IF f = "manyRegions" THEN Statement[2] ELSE {f})

SaveMonitor(q) ==
    /\ req[q].at = "save"
    /\ uses' = uses \cup req[q].feats
    /\ torn' = (torn \/ ~Allowed(req[q].feats))
    /\ Ends(q)
    /\ UNCHANGED <<stripe, sessions, events, row, acts, dups>>

DeleteMonitor(q) ==
    /\ Free(q)
    /\ uses # {}
    /\ uses' = {}
    /\ UNCHANGED <<stripe, sessions, events, row, req, acts, dups, torn>>

-----------------------------------------------------------------------------
User(q) ==
    \/ \E p \in Paid : CreateCheckout(q, p)
    \/ GetSubscription(q) \/ CancelSubscription(q) \/ ResumeSubscription(q)
    \/ \E f \in Edited : UpdateMonitor(q, f)
    \/ CreateMonitor(q) \/ DeleteMonitor(q)

Handler(q) ==
    \/ PersistCustomer(q) \/ reconcileSubscription(q) \/ SetCancelAtPeriodEnd(q)
    \/ SyncReads(q) \/ UpsertSubscription(q) \/ ReconcileMonitorsToPlan(q)
    \/ InsertMonitor(q) \/ SaveMonitor(q) \/ Fails(q)

StripeWebhook(q) ==
    \E e \in events :
        \/ handleSubscriptionUpdated(q, e) \/ handleSubscriptionDeleted(q, e)
        \/ handlePaymentFailed(q, e)

BNext ==
    \/ Stripe
    \/ \E e \in events : IgnoreEvent(e)
    \/ \E q \in Req : User(q) \/ Handler(q) \/ StripeWebhook(q) \/ Backfill(q)

BSpec == BInit /\ [][BNext]_bvars

\* Handlers run to their end, the user keeps opening the billing page, and
\* Stripe and the database answer again and again.  Nothing is assumed of the
\* delivery of events.
BFairness ==
    /\ \A q \in Req : WF_bvars(Handler(q))
    /\ SF_bvars(\E q \in Req : GetSubscription(q))
    /\ SF_bvars(\E q \in Req : reconcileSubscription(q))
    /\ SF_bvars(\E q \in Req : UpsertSubscription(q))

BFairSpec == BSpec /\ BFairness

-----------------------------------------------------------------------------
\* When no request is under way the monitor uses only what the effective plan
\* allows, after any purchases, plan changes, failed payments, suspensions and
\* edits, overlapping and failing as they may, with three exceptions and no
\* other: a write of the record that was decided on a plan since replaced, an
\* edit saved after its plan was replaced, and a ReconcileMonitorsToPlan that
\* stopped between two statements (syncSubscription, UpdateMonitor).
WithinPlan ==
    (\A q \in Req : Free(q)) /\ ~torn => uses \subseteq LimitsForPlan[effectivePlan(row)]

\* The record never forgets the Stripe customer or the subscription it knew,
\* whichever handlers overlap (the COALESCE of UpsertSubscription; without
\* them the portal and cancel endpoints answer 404).
IdsKept ==
    [][/\ row.customer => row'.customer
       /\ row.sub # 0 => row'.sub # 0]_bvars

\* Without a subscription there is nothing to use: as long as nothing was ever
\* bought the account is on FREE, and its monitor uses no feature of a paid plan,
\* whatever checkouts were begun, pages opened and writes overtaken or lost
\* ("default to FREE, never to a paid plan"; CreateCheckout, GetSubscription).
NothingUnbought == stripe = <<>> => effectivePlan(row) = "FREE" /\ uses = {}

\* What the user pays for: the newest subscription that is live.
LivePlan ==
    LET live == {s \in DOMAIN stripe : stripe[s].status \in Live}
    IN  IF live = {} THEN "FREE"
        ELSE stripe[CHOOSE s \in live : live \subseteq 1 .. s].plan

\* Once the user and Stripe stop, the record ends up granting what Stripe's
\* live subscription grants, although events were lost, repeated or reordered,
\* handlers overlapped and calls failed: the live read of the billing page
\* repairs it (GetSubscription, reconcileSubscription).
Converges == <>[](effectivePlan(row) = LivePlan)
============================================================================
