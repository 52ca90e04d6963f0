---------------------------- MODULE BillingProofs ----------------------------
(***************************************************************************)
(* Proofs about Billing, for any number of request slots, subscriptions,   *)
(* acts and repeated deliveries.                                           *)
(***************************************************************************)
EXTENDS Billing, TLAPS

Subscription == [status : StripeStatus, plan : Paid, cancel : BOOLEAN]

LEMMA PlanTypes ==
    /\ Paid \subseteq Plan
    /\ "FREE" \in Plan
    /\ \A p \in Plan : LimitsForPlan[p] \subseteq Feature
    /\ LimitsForPlan["FREE"] = {}
    /\ LimitsForPlan \in [Plan -> SUBSET Feature]
BY DEF Paid, Plan, LimitsForPlan, Feature

LEMMA RowTypes ==
    /\ NoRow \in Row
    /\ Canceled \in Row
    /\ \A r \in Row : effectivePlan(r) \in Plan
    /\ \A r, put \in Row : Upserted(r, put) \in Row
<1>1. MaxSubs \in Nat
  BY BillingAssumption
<1>2. NoRow \in Row /\ Canceled \in Row
  <2>1. 0 \in 0 .. MaxSubs
    BY <1>1
  <2>2. NoRow \in Row
    BY <2>1 DEF NoRow, Row, Plan, Status
  <2>3. Canceled \in Row
    BY <2>2 DEF Canceled, Row, Status
  <2> QED BY <2>2, <2>3
<1>3. \A r \in Row : effectivePlan(r) \in Plan
  BY DEF effectivePlan, Row, Plan
<1>4. \A r, put \in Row : Upserted(r, put) \in Row
  BY DEF Upserted, Row
<1> QED BY <1>2, <1>3, <1>4

\* A read returns a row, and the row itself when nothing fails.
LEMMA ReadTypes ==
    /\ row \in Row => GetSubscriptionByUser \subseteq Row
    /\ ~Faults => GetSubscriptionByUser = {row}
BY RowTypes DEF GetSubscriptionByUser

LEMMA FromStripeType ==
    ASSUME NEW s \in 1 .. MaxSubs, NEW x, x.plan \in Paid, x.cancel \in BOOLEAN
    PROVE  FromStripe(s, x) \in Row
<1>1. mapStripeStatus(x.status) \in Status
  BY DEF mapStripeStatus, Status
<1>2. s \in 0 .. MaxSubs /\ x.plan \in Plan
  BY BillingAssumption, PlanTypes
<1> QED BY <1>1, <1>2 DEF FromStripe, Row

LEMMA IdleType == Idle \in Request
BY RowTypes DEF Idle, Request, At, Op, Plan, Statement

-----------------------------------------------------------------------------
(* Type correctness. *)

LEMMA BTypeInit == BInit => BTypeOK
<1> SUFFICES ASSUME BInit PROVE BTypeOK
  OBVIOUS
<1>1. /\ stripe \in Seq([status : StripeStatus, plan : Paid, cancel : BOOLEAN])
      /\ Len(stripe) <= MaxSubs /\ acts \in 0 .. MaxActs /\ dups \in 0 .. MaxDups
  BY BillingAssumption DEF BInit
<1>2. /\ sessions \subseteq Plan /\ events \subseteq Event /\ uses \subseteq Feature
      /\ row \in Row /\ req \in [Req -> Request] /\ torn \in BOOLEAN
  BY RowTypes, IdleType DEF BInit
<1> QED BY <1>1, <1>2 DEF BTypeOK

\* What a slot may hold next.
LEMMA RequestTypes ==
    ASSUME BTypeOK, NEW q \in Req
    PROVE  /\ \A r \in Request : [req EXCEPT ![q] = r] \in [Req -> Request]
           /\ Ends(q) => req' \in [Req -> Request]
           /\ \A at \in At, op \in Op, put \in Row :
                  Starts(q, at, op, put) => req' \in [Req -> Request]
<1>1. \A r \in Request : [req EXCEPT ![q] = r] \in [Req -> Request]
  BY DEF BTypeOK
<1>2. \A at \in At, op \in Op, put \in Row :
          [Idle EXCEPT !.at = at, !.op = op, !.put = put] \in Request
  BY IdleType DEF Request
<1> QED BY <1>1, <1>2, IdleType DEF Ends, Starts

\* Stripe's own steps keep the types of what Stripe holds and sends.
LEMMA StripeTypes ==
    ASSUME BTypeOK, Stripe
    PROVE  BTypeOK'
<1>1. /\ stripe \in Seq(Subscription) /\ Len(stripe) \in Nat /\ Len(stripe) <= MaxSubs
      /\ DOMAIN stripe = 1 .. Len(stripe) /\ MaxSubs \in Nat /\ MaxActs \in Nat
  BY BillingAssumption DEF BTypeOK, Subscription
<1>2. ASSUME NEW op \in {"updated", "deleted", "failed"}, NEW s \in 1 .. MaxSubs,
             stripe'[s] \in Subscription, Emits(op, s)
      PROVE  events' \subseteq Event
  BY <1>2 DEF BTypeOK, Emits, Event, Subscription
<1>3. ASSUME stripe' \in Seq(Subscription), Len(stripe') <= MaxSubs, events' \subseteq Event,
             sessions' \subseteq Plan, Acts, UNCHANGED <<row, req, uses, dups, torn>>
      PROVE  BTypeOK'
  <2>1. acts' \in 0 .. MaxActs
    BY <1>1, <1>3 DEF BTypeOK, Acts
  <2> QED BY <1>3, <2>1 DEF BTypeOK, Subscription
<1>4. ASSUME NEW p \in Paid, CompleteCheckout(p) PROVE BTypeOK'
  <2>1. PICK st \in {"active", "incomplete"} :
            stripe' = Append(stripe, [status |-> st, plan |-> p, cancel |-> FALSE])
    BY <1>4 DEF CompleteCheckout
  <2> DEFINE new == [status |-> st, plan |-> p, cancel |-> FALSE]
  <2>2. new \in Subscription
    BY DEF Subscription, StripeStatus
  <2> HIDE DEF new
  <2>3. stripe' = Append(stripe, new)
    BY <2>1 DEF new
  <2>4. /\ stripe' \in Seq(Subscription) /\ Len(stripe') = Len(stripe) + 1
        /\ stripe'[Len(stripe')] \in Subscription
    BY <1>1, <2>2, <2>3
  <2>5. Len(stripe') \in 1 .. MaxSubs
    BY <1>1, <1>4, <2>4 DEF CompleteCheckout
  <2>6. events' \subseteq Event
    BY <1>2, <1>4, <2>4, <2>5 DEF CompleteCheckout
  <2>7. sessions' \subseteq Plan /\ Acts /\ UNCHANGED <<row, req, uses, dups, torn>>
    BY <1>4 DEF CompleteCheckout, BTypeOK
  <2> QED BY <1>1, <1>3, <2>4, <2>5, <2>6, <2>7
<1>5. ASSUME NEW s \in DOMAIN stripe, NEW x \in Subscription, stripe' = [stripe EXCEPT ![s] = x]
      PROVE  /\ stripe' \in Seq(Subscription) /\ Len(stripe') <= MaxSubs
             /\ stripe'[s] = x /\ s \in 1 .. MaxSubs
  BY <1>1, <1>5
<1>6. ASSUME NEW s \in DOMAIN stripe,
             \/ PaymentSucceeds(s) \/ PaymentFails(s) \/ Suspend(s)
             \/ SubscriptionEnds(s) \/ PortalChangesPlan(s)
      PROVE  BTypeOK'
  <2>1. stripe[s] \in Subscription
    BY <1>1
  <2>2. Acts /\ sessions' \subseteq Plan /\ UNCHANGED <<row, req, uses, dups, torn>>
    BY <1>6 DEF PaymentSucceeds, PaymentFails, Suspend, SubscriptionEnds,
                PortalChangesPlan, Becomes, BTypeOK
  <2>3. PICK x \in Subscription : stripe' = [stripe EXCEPT ![s] = x]
    <3>1. CASE \E st \in StripeStatus : Becomes(s, st)
      <4>1. PICK st \in StripeStatus : Becomes(s, st)
        BY <3>1
      <4>2. [stripe[s] EXCEPT !.status = st] \in Subscription
        BY <2>1 DEF Subscription
      <4> QED BY <4>1, <4>2 DEF Becomes
    <3>2. CASE PortalChangesPlan(s)
      <4>1. PICK p \in Paid : stripe' = [stripe EXCEPT ![s].plan = p]
        BY <3>2 DEF PortalChangesPlan
      <4>2. [stripe[s] EXCEPT !.plan = p] \in Subscription
        BY <2>1 DEF Subscription
      <4> QED BY <4>1, <4>2
    <3> QED BY <1>6, <3>1, <3>2 DEF PaymentSucceeds, PaymentFails, Suspend,
                                    SubscriptionEnds, StripeStatus
  <2>4. /\ stripe' \in Seq(Subscription) /\ Len(stripe') <= MaxSubs
        /\ stripe'[s] \in Subscription /\ s \in 1 .. MaxSubs
    BY <1>5, <2>3
  <2>5. events' \subseteq Event
    <3>1. CASE PaymentFails(s)
      BY <2>1, <2>4, <3>1 DEF PaymentFails, BTypeOK, Event, Subscription
    <3>2. CASE ~PaymentFails(s)
      BY <1>2, <1>6, <2>4, <3>2 DEF PaymentSucceeds, Suspend, SubscriptionEnds,
                                    PortalChangesPlan
    <3> QED BY <3>1, <3>2
  <2> QED BY <1>3, <2>2, <2>4, <2>5
<1> QED BY <1>4, <1>6 DEF Stripe

\* The steps of requests and webhooks.
LEMMA RequestStepTypes ==
    ASSUME BTypeOK, NEW q \in Req, User(q) \/ Handler(q) \/ StripeWebhook(q) \/ Backfill(q)
    PROVE  BTypeOK'
<1> DEFINE r == req[q]
<1>1. /\ stripe \in Seq(Subscription) /\ Len(stripe) \in Nat /\ Len(stripe) <= MaxSubs
      /\ DOMAIN stripe = 1 .. Len(stripe) /\ MaxSubs \in Nat /\ MaxActs \in Nat
      /\ MaxDups \in Nat /\ Edited \subseteq Feature
  BY BillingAssumption DEF BTypeOK, Subscription
<1>2. r \in Request /\ r.put \in Row /\ row \in Row
  BY DEF BTypeOK, Request
<1>3. GetSubscriptionByUser \subseteq Row /\ \A g \in GetSubscriptionByUser : effectivePlan(g) \in Plan
  BY <1>2, RowTypes, ReadTypes
<1>4. Acts => acts' \in 0 .. MaxActs
  BY <1>1 DEF Acts, BTypeOK
<1>5. ASSUME NEW p \in Paid, CreateCheckout(q, p) PROVE BTypeOK'
  <2> DEFINE new(g) == [Idle EXCEPT
                 !.at = "persist", !.op = "checkout", !.want = p,
                 !.put = [g EXCEPT !.customer = TRUE,
                                   !.status = IF @ = "NONE" THEN "ACTIVE" ELSE @, !.sub = 0]]
  <2>1. PICK g \in GetSubscriptionByUser : req' = req \/ req' = [req EXCEPT ![q] = new(g)]
    BY <1>5 DEF CreateCheckout
  <2>2. g \in Row
    BY <1>3
  <2> DEFINE put == [g EXCEPT !.customer = TRUE,
                              !.status = IF @ = "NONE" THEN "ACTIVE" ELSE @, !.sub = 0]
  <2>3. put \in Row
    <3>1. 0 \in 0 .. MaxSubs
      BY <1>1
    <3>2. (IF g.status = "NONE" THEN "ACTIVE" ELSE g.status) \in Status
      BY <2>2 DEF Row, Status
    <3> QED BY <2>2, <3>1, <3>2 DEF Row
  <2>4. req' \in [Req -> Request]
    <3> HIDE DEF put
    <3>1. [Idle EXCEPT !.at = "persist", !.op = "checkout", !.want = p, !.put = put] \in Request
      BY <2>3, IdleType, PlanTypes DEF Request, At, Op
    <3>2. new(g) \in Request
      BY <3>1 DEF put
    <3> HIDE DEF new
    <3> QED BY <2>1, <3>2 DEF BTypeOK
  <2>5. sessions' \subseteq Plan
    BY <1>5, PlanTypes DEF CreateCheckout, BTypeOK
  <2> QED BY <1>4, <1>5, <2>4, <2>5 DEF CreateCheckout, BTypeOK
<1>6. CASE PersistCustomer(q)
  <2>1. row' \in Row
    BY <1>2, <1>6, RowTypes DEF PersistCustomer
  <2>2. req' \in [Req -> Request]
    BY <1>6, RequestTypes DEF PersistCustomer
  <2>3. sessions' \subseteq Plan
    BY <1>2, <1>6 DEF PersistCustomer, BTypeOK, Request
  <2> QED BY <1>6, <2>1, <2>2, <2>3 DEF PersistCustomer, BTypeOK
<1>7. CASE GetSubscription(q)
  <2>1. req' \in [Req -> Request]
    BY <1>3, <1>7, RequestTypes DEF GetSubscription, At, Op
  <2> QED BY <1>7, <2>1 DEF GetSubscription, BTypeOK
<1>8. CASE reconcileSubscription(q)
  <2>1. \A s \in GetActiveSubscription : FromStripe(s, stripe[s]) \in Row
    <3> SUFFICES ASSUME NEW s \in GetActiveSubscription
                 PROVE  FromStripe(s, stripe[s]) \in Row
      OBVIOUS
    <3>1. s \in DOMAIN stripe
      BY DEF GetActiveSubscription
    <3>2. s \in 1 .. MaxSubs /\ stripe[s] \in Subscription
      BY <1>1, <3>1
    <3> QED BY <3>2, FromStripeType DEF Subscription
  <2>2. req' \in [Req -> Request]
    BY <1>8, <2>1, RowTypes, RequestTypes DEF reconcileSubscription, At, Op
  <2> QED BY <1>8, <2>2 DEF reconcileSubscription, BTypeOK
<1>9. CASE StripeWebhook(q)
  <2>1. PICK e \in events :
            \/ handleSubscriptionUpdated(q, e) \/ handleSubscriptionDeleted(q, e)
            \/ handlePaymentFailed(q, e)
    BY <1>9 DEF StripeWebhook
  <2>2. e \in Event
    BY DEF BTypeOK
  <2>3. FromStripe(e.sub, e) \in Row
    BY <2>2, FromStripeType DEF Event
  <2>4. \A g \in GetSubscriptionByUser :
            [NoRow EXCEPT !.plan = g.plan, !.status = "PAST_DUE"] \in Row
    BY <1>3, RowTypes DEF Row, Status
  <2>5. req' \in [Req -> Request]
    BY <2>1, <2>3, <2>4, RowTypes, RequestTypes
       DEF handleSubscriptionUpdated, handleSubscriptionDeleted, handlePaymentFailed, At, Op
  <2>6. events' \subseteq Event /\ dups' \in 0 .. MaxDups
    <3>1. Delivers(e)
      BY <2>1 DEF handleSubscriptionUpdated, handleSubscriptionDeleted, handlePaymentFailed
    <3> QED BY <1>1, <3>1 DEF Delivers, BTypeOK
  <2> QED
    BY <2>1, <2>5, <2>6 DEF BTypeOK,
       handleSubscriptionUpdated, handleSubscriptionDeleted, handlePaymentFailed
<1>10. CASE CancelSubscription(q) \/ ResumeSubscription(q)
  <2>1. \A b \in BOOLEAN : [row EXCEPT !.cancel = b] \in Row
    BY <1>2 DEF Row
  <2>2. req' \in [Req -> Request]
    BY <1>10, <2>1, RequestTypes DEF CancelSubscription, ResumeSubscription, At, Op
  <2> QED BY <1>4, <1>10, <2>2 DEF CancelSubscription, ResumeSubscription, BTypeOK
<1>11. CASE SetCancelAtPeriodEnd(q)
  <2> DEFINE s == r.put.sub
  <2>1. CASE stripe' = stripe
    <3>1. req' \in [Req -> Request] /\ events' = events
      <4>1. [r EXCEPT !.at = "sync"] \in Request
        BY <1>2 DEF Request, At
      <4> QED BY <1>11, <2>1, <4>1, RequestTypes DEF SetCancelAtPeriodEnd
    <3> QED BY <1>11, <2>1, <3>1 DEF SetCancelAtPeriodEnd, BTypeOK
  <2>2. CASE stripe' # stripe
    <3>1. /\ stripe' = [stripe EXCEPT ![s].cancel = r.put.cancel]
          /\ Emits("updated", s) /\ req' = [req EXCEPT ![q].at = "sync"]
      BY <1>11, <2>2 DEF SetCancelAtPeriodEnd
    <3>2. s \in DOMAIN stripe
      BY <1>1, <2>2, <3>1
    <3> DEFINE x == [stripe[s] EXCEPT !.cancel = r.put.cancel]
    <3>3. x \in Subscription
      <4>1. stripe[s] \in Subscription
        BY <1>1, <3>2
      <4>2. r.put.cancel \in BOOLEAN
        BY <1>2 DEF Row
      <4> QED BY <4>1, <4>2 DEF Subscription
    <3> HIDE DEF x
    <3>4. stripe' = [stripe EXCEPT ![s] = x]
      BY <3>1 DEF x
    <3> HIDE DEF s
    <3>5. /\ stripe' \in Seq(Subscription) /\ Len(stripe') <= MaxSubs
          /\ stripe'[s] \in Subscription /\ s \in 1 .. MaxSubs
      BY <1>1, <3>2, <3>3, <3>4
    <3>6. events' \subseteq Event
      BY <3>1, <3>5 DEF BTypeOK, Emits, Event, Subscription
    <3>7. req' \in [Req -> Request]
      <4>1. [r EXCEPT !.at = "sync"] \in Request
        BY <1>2 DEF Request, At
      <4> QED BY <3>1, <4>1, RequestTypes
    <3> QED BY <1>11, <3>5, <3>6, <3>7 DEF SetCancelAtPeriodEnd, BTypeOK, Subscription
  <2> QED BY <2>1, <2>2
<1>12. CASE SyncReads(q)
  <2>1. PICK old \in Plan : req' = [req EXCEPT ![q].at = "write", ![q].old = old]
    BY <1>3, <1>12 DEF SyncReads
  <2>2. [r EXCEPT !.at = "write", !.old = old] \in Request
    BY <1>2 DEF Request, At
  <2>3. req' = [req EXCEPT ![q] = [r EXCEPT !.at = "write", !.old = old]]
    BY <2>1 DEF BTypeOK
  <2>4. req' \in [Req -> Request]
    BY <2>2, <2>3, RequestTypes
  <2> QED BY <1>12, <2>4 DEF SyncReads, BTypeOK
<1>13. CASE UpsertSubscription(q)
  <2>1. row' \in Row
    BY <1>2, <1>13, RowTypes DEF UpsertSubscription
  <2>2. effectivePlan(row') \in Plan
    BY <2>1, RowTypes
  <2>3. [r EXCEPT !.at = "trim", !.new = effectivePlan(row'), !.stmt = 1] \in Request
    <3>1. 1 \in 0 .. Len(Statement)
      BY DEF Statement
    <3> QED BY <1>2, <2>2, <3>1 DEF Request, At
  <2>4. req' \in [Req -> Request]
    <3>1. CASE Ends(q)
      BY <3>1, RequestTypes
    <3>2. CASE ~Ends(q)
      <4>1. req' = [req EXCEPT ![q] =
                [r EXCEPT !.at = "trim", !.new = effectivePlan(row'), !.stmt = 1]]
        BY <1>13, <3>2 DEF UpsertSubscription, BTypeOK
      <4> QED BY <2>3, <4>1, RequestTypes
    <3> QED BY <3>1, <3>2
  <2> QED BY <1>13, <2>1, <2>4 DEF UpsertSubscription, BTypeOK
<1>14. CASE ReconcileMonitorsToPlan(q)
  <2>1. r.stmt # Len(Statement) => [r EXCEPT !.stmt = @ + 1] \in Request
    <3>1. Len(Statement) = 5
      BY DEF Statement
    <3>2. r.stmt # 5 => r.stmt + 1 \in 0 .. 5
      BY <1>2, <3>1 DEF Request
    <3> QED BY <1>2, <3>1, <3>2 DEF Request
  <2>2. req' \in [Req -> Request]
    BY <1>14, <2>1, RequestTypes DEF ReconcileMonitorsToPlan
  <2> QED BY <1>14, <2>2 DEF ReconcileMonitorsToPlan, BTypeOK
<1>15. ASSUME NEW at \in At, NEW F \in SUBSET Feature, Configures(q, at, F) PROVE BTypeOK'
  <2>1. [Idle EXCEPT !.at = at, !.op = "edit", !.feats = F] \in Request
    BY IdleType DEF Request, Op
  <2>2. req' \in [Req -> Request]
    BY <1>15, <2>1, RequestTypes DEF Configures
  <2> QED BY <1>4, <1>15, <2>2 DEF Configures, BTypeOK
<1>16. CASE CreateMonitor(q)
  <2>1. PICK p \in Paid : Configures(q, "insert", Edited \cap LimitsForPlan[p])
    BY <1>16 DEF CreateMonitor
  <2>2. Edited \cap LimitsForPlan[p] \in SUBSET Feature
    BY <1>1
  <2> QED BY <1>15, <2>1, <2>2 DEF At
<1>17. ASSUME NEW f \in Edited, UpdateMonitor(q, f) PROVE BTypeOK'
  <2>1. (IF f = "manyRegions" THEN Statement[2] ELSE {f}) \in SUBSET Feature
    BY <1>1 DEF Statement, Feature
  <2> QED BY <1>15, <1>17, <2>1 DEF UpdateMonitor, At
<1>18. CASE InsertMonitor(q)
  <2>1. [r EXCEPT !.at = "save", !.feats = {"expiry"}] \in Request
    BY <1>2 DEF Request, At, Feature
  <2>2. uses' \subseteq Feature
    BY <1>2, <1>18 DEF InsertMonitor, Request
  <2>3. req' \in [Req -> Request]
    <3>1. CASE Ends(q)
      BY <3>1, RequestTypes
    <3>2. CASE ~Ends(q)
      <4>1. req' = [req EXCEPT ![q] = [r EXCEPT !.at = "save", !.feats = {"expiry"}]]
        BY <1>18, <3>2 DEF InsertMonitor, BTypeOK
      <4> QED BY <2>1, <4>1, RequestTypes
    <3> QED BY <3>1, <3>2
  <2> QED BY <1>18, <2>2, <2>3 DEF InsertMonitor, BTypeOK
<1>19. CASE SaveMonitor(q)
  <2>1. req' \in [Req -> Request] /\ uses' \subseteq Feature
    BY <1>2, <1>19, RequestTypes DEF SaveMonitor, Request, BTypeOK
  <2> QED BY <1>19, <2>1 DEF SaveMonitor, BTypeOK
<1>20. CASE DeleteMonitor(q)
  BY <1>4, <1>20 DEF DeleteMonitor, BTypeOK
<1>21. CASE Fails(q)
  <2>1. req' \in [Req -> Request]
    BY <1>21, RequestTypes DEF Fails
  <2> QED BY <1>21, <2>1 DEF Fails, BTypeOK
<1>22. CASE Backfill(q)
  <2> DEFINE new == effectivePlan(row)
  <2>1. new \in Plan /\ 1 \in 0 .. Len(Statement)
    BY <1>2, RowTypes DEF Statement
  <2> HIDE DEF new
  <2>2. [Idle EXCEPT !.at = "trim", !.op = "backfill", !.new = new, !.stmt = 1] \in Request
    BY <2>1, IdleType DEF Request, At, Op
  <2>3. req' \in [Req -> Request]
    BY <1>22, <2>2, RequestTypes DEF Backfill, new
  <2> QED BY <1>22, <2>3 DEF Backfill, BTypeOK
<1> QED
  BY <1>5, <1>6, <1>7, <1>8, <1>9, <1>10, <1>11, <1>12, <1>13, <1>14, <1>16, <1>17,
     <1>18, <1>19, <1>20, <1>21, <1>22 DEF User, Handler

LEMMA BTypeStep == BTypeOK /\ [BNext]_bvars => BTypeOK'
<1> SUFFICES ASSUME BTypeOK, [BNext]_bvars PROVE BTypeOK'
  OBVIOUS
<1>1. CASE UNCHANGED bvars
  BY <1>1 DEF BTypeOK, bvars
<1>2. CASE \E e \in events : IgnoreEvent(e)
  BY <1>2 DEF BTypeOK, IgnoreEvent
<1> QED BY <1>1, <1>2, StripeTypes, RequestStepTypes DEF BNext

\* The record, every request under way and every event keep their types,
\* whatever overlaps or fails (UpsertSubscription, syncSubscription).
THEOREM BTypeCorrect == BSpec => []BTypeOK
<1>1. BInit => BTypeOK
  BY BTypeInit
<1>2. BTypeOK /\ [BNext]_bvars => BTypeOK'
  BY BTypeStep
<1> QED BY <1>1, <1>2, PTL DEF BSpec

-----------------------------------------------------------------------------
(* The identifiers in the record. *)

\* The row changes by an upsert or not at all.
LEMMA RowStep ==
    ASSUME [BNext]_bvars
    PROVE  row' = row \/ \E q \in Req : row' = Upserted(row, req[q].put)
BY DEF BNext, bvars, Stripe, CompleteCheckout, PaymentSucceeds, PaymentFails, Suspend,
       SubscriptionEnds, PortalChangesPlan, Becomes, IgnoreEvent, User, Handler,
       StripeWebhook, CreateCheckout, PersistCustomer, GetSubscription,
       reconcileSubscription, handleSubscriptionUpdated, handleSubscriptionDeleted,
       handlePaymentFailed, CancelSubscription, ResumeSubscription, SetCancelAtPeriodEnd,
       SyncReads, UpsertSubscription, ReconcileMonitorsToPlan, Fails, CreateMonitor,
       UpdateMonitor, Configures, InsertMonitor, SaveMonitor, DeleteMonitor, Backfill

\* For any number of overlapping handlers, once the record holds the customer
\* and the subscription it always does (the COALESCE of UpsertSubscription).
THEOREM IdsKeptCorrect == BSpec => IdsKept
<1> DEFINE Kept == /\ row.customer => row'.customer
                   /\ row.sub # 0 => row'.sub # 0
<1>1. BTypeOK /\ [BNext]_bvars => [Kept]_bvars
  <2> SUFFICES ASSUME BTypeOK, [BNext]_bvars PROVE Kept
    OBVIOUS
  <2>1. CASE row' = row
    BY <2>1
  <2>2. ASSUME NEW q \in Req, row' = Upserted(row, req[q].put) PROVE Kept
    <3>1. row \in Row /\ req[q].put \in Row
      BY DEF BTypeOK, Request
    <3> QED BY <2>2, <3>1 DEF Upserted, Row
  <2> QED BY <2>1, <2>2, RowStep
<1> QED BY <1>1, BTypeCorrect, PTL DEF BSpec, IdsKept

-----------------------------------------------------------------------------
(* The monitors and the plan, one request at a time. *)

\* A missing row counts as FREE, and what a handler writes makes it present.
Recorded ==
    /\ row.status = "NONE" => row.plan = "FREE"
    /\ \A q \in Req : req[q].at \in {"persist", "stripe", "sync", "write"} =>
                          req[q].put.status # "NONE"

LEMMA RecordedStep == BTypeOK /\ Recorded /\ [BNext]_bvars => Recorded'
<1> SUFFICES ASSUME BTypeOK, Recorded, [BNext]_bvars PROVE Recorded'
  OBVIOUS
<1> DEFINE Writes == {"persist", "stripe", "sync", "write"}
<1>1. row \in Row /\ req \in [Req -> Request]
  BY DEF BTypeOK
<1>2. CASE UNCHANGED <<row, req>>
  BY <1>2 DEF Recorded
<1>3. ASSUME NEW q \in Req, User(q) \/ Handler(q) \/ StripeWebhook(q)
      PROVE  /\ \A p \in Req \ {q} : req'[p] = req[p]
             /\ req'[q].at \in Writes => req'[q].put.status # "NONE"
             /\ row' # row => row' = Upserted(row, req[q].put) /\ req[q].at \in Writes
  <2> DEFINE Goal == /\ \A p \in Req \ {q} : req'[p] = req[p]
                     /\ req'[q].at \in Writes => req'[q].put.status # "NONE"
                     /\ row' # row => row' = Upserted(row, req[q].put) /\ req[q].at \in Writes
             r == req[q]
  <2>1. r \in Request /\ (r.at \in Writes => r.put.status # "NONE")
    BY <1>1 DEF Recorded
  <2>2. Ends(q) => /\ \A p \in Req \ {q} : req'[p] = req[p]
                   /\ req'[q].at = "idle"
    BY <1>1 DEF Ends, Idle
  <2>3. \A at, op, put : Starts(q, at, op, put) =>
            /\ \A p \in Req \ {q} : req'[p] = req[p]
            /\ req'[q].at = at /\ req'[q].put = put
    BY <1>1 DEF Starts, Idle
  <2>4. ASSUME NEW p \in Paid, CreateCheckout(q, p) PROVE Goal
    <3> DEFINE put(g) == [g EXCEPT !.customer = TRUE,
                                   !.status = IF @ = "NONE" THEN "ACTIVE" ELSE @, !.sub = 0]
    <3>1. \A g \in GetSubscriptionByUser : put(g).status # "NONE"
      BY <1>1, ReadTypes DEF Row
    <3>2. PICK g \in GetSubscriptionByUser : row' = row /\
          \/ req' = req
          \/ req' = [req EXCEPT ![q] = [Idle EXCEPT
                 !.at = "persist", !.op = "checkout", !.want = p, !.put = put(g)]]
      BY <2>4 DEF CreateCheckout
    <3> HIDE DEF put
    <3> QED BY <1>1, <2>1, <3>1, <3>2 DEF Idle
  <2>5. CASE PersistCustomer(q)
    BY <2>2, <2>5 DEF PersistCustomer
  <2>6. CASE GetSubscription(q) \/ CancelSubscription(q) \/ ResumeSubscription(q)
    <3>1. \A b \in BOOLEAN : [row EXCEPT !.cancel = b].status = row.status
      BY <1>1 DEF Row
    <3> QED BY <2>3, <2>6, <3>1 DEF GetSubscription, CancelSubscription,
                                    ResumeSubscription, effectivePlan
  <2>7. CASE reconcileSubscription(q) \/ StripeWebhook(q)
    <3>1. /\ Canceled.status # "NONE"
          /\ \A p : [NoRow EXCEPT !.plan = p, !.status = "PAST_DUE"].status # "NONE"
      BY DEF Canceled, NoRow
    <3>2. \A t, x : FromStripe(t, x).status # "NONE"
      BY DEF FromStripe, mapStripeStatus
    <3>3. Ends(q) \/ \E at, op, put : Starts(q, at, op, put) /\ put.status # "NONE"
      <4>1. CASE reconcileSubscription(q)
        BY <3>1, <3>2, <4>1 DEF reconcileSubscription
      <4>2. CASE StripeWebhook(q)
        BY <3>1, <3>2, <4>2 DEF StripeWebhook,
           handleSubscriptionUpdated, handleSubscriptionDeleted, handlePaymentFailed
      <4> QED BY <2>7, <4>1, <4>2
    <3>4. row' = row
      BY <2>7 DEF reconcileSubscription, StripeWebhook,
         handleSubscriptionUpdated, handleSubscriptionDeleted, handlePaymentFailed
    <3> QED BY <2>2, <2>3, <3>3, <3>4
  <2>8. CASE SetCancelAtPeriodEnd(q)
    BY <1>1, <2>1, <2>2, <2>8 DEF SetCancelAtPeriodEnd, Request
  <2>9. CASE SyncReads(q)
    BY <1>1, <2>1, <2>9 DEF SyncReads, Request
  <2>10. CASE UpsertSubscription(q)
    BY <1>1, <2>1, <2>2, <2>10 DEF UpsertSubscription, Request
  <2>11. CASE ReconcileMonitorsToPlan(q) \/ InsertMonitor(q) \/ SaveMonitor(q) \/ Fails(q)
    <3>1. CASE Ends(q)
      BY <2>2, <2>11, <3>1 DEF ReconcileMonitorsToPlan, InsertMonitor, SaveMonitor, Fails
    <3>2. CASE ReconcileMonitorsToPlan(q) /\ ~Ends(q)
      BY <1>1, <2>1, <3>2 DEF ReconcileMonitorsToPlan, Request
    <3>3. CASE InsertMonitor(q) /\ ~Ends(q)
      BY <1>1, <2>1, <3>3 DEF InsertMonitor, Request
    <3> QED BY <2>11, <3>1, <3>2, <3>3 DEF SaveMonitor, Fails
  <2>12. CASE CreateMonitor(q) \/ DeleteMonitor(q) \/ \E f \in Edited : UpdateMonitor(q, f)
    <3>1. CASE DeleteMonitor(q)
      BY <2>1, <3>1 DEF DeleteMonitor
    <3>2. ASSUME NEW at \in {"insert", "save"}, NEW F, Configures(q, at, F) PROVE Goal
      <4>1. /\ req' = [req EXCEPT ![q] = [Idle EXCEPT !.at = at, !.op = "edit", !.feats = F]]
            /\ row' = row
        BY <3>2 DEF Configures
      <4>2. (\A p \in Req \ {q} : req'[p] = req[p]) /\ req'[q].at = at
        BY <1>1, <4>1 DEF Idle
      <4> QED BY <4>1, <4>2
    <3> QED BY <2>12, <3>1, <3>2 DEF CreateMonitor, UpdateMonitor
  <2> QED BY <1>3, <2>4, <2>5, <2>6, <2>7, <2>8, <2>9, <2>10, <2>11, <2>12 DEF User, Handler
<1>4. ASSUME NEW q \in Req, User(q) \/ Handler(q) \/ StripeWebhook(q) PROVE Recorded'
  <2>1. row' # row => row'.status # "NONE"
    BY <1>1, <1>3, <1>4 DEF Recorded, Upserted, Request, Row
  <2> QED BY <1>3, <1>4, <2>1 DEF Recorded
<1>5. CASE Stripe \/ \E e \in events : IgnoreEvent(e)
  <2>1. UNCHANGED <<row, req>>
    BY <1>5 DEF Stripe, CompleteCheckout, PaymentSucceeds, PaymentFails, Suspend,
       SubscriptionEnds, PortalChangesPlan, Becomes, IgnoreEvent
  <2> QED BY <1>2, <2>1
<1>6. ASSUME NEW q \in Req, Backfill(q) PROVE Recorded'
  <2>1. req'[q].at = "trim" /\ row' = row /\ \A p \in Req \ {q} : req'[p] = req[p]
    BY <1>1, <1>6 DEF Backfill, Idle
  <2> QED BY <2>1 DEF Recorded
<1> QED BY <1>2, <1>4, <1>5, <1>6 DEF BNext, bvars

LEMMA RecordedCorrect == BSpec => []Recorded
<1>1. BInit => Recorded
  BY DEF BInit, Recorded, NoRow, Idle
<1> QED BY <1>1, RecordedStep, BTypeCorrect, PTL DEF BSpec

\* Where a request stands, and what the monitor may use there.  While the
\* statements run the monitor is within the old plan or the new one, and within
\* the new one as far as the statements already executed go.
SettledAt(q) ==
    LET r == req[q]
    IN  /\ r.at # "trim" => uses \subseteq LimitsForPlan[effectivePlan(row)]
        /\ r.at = "persist" => effectivePlan(r.put) = effectivePlan(row)
        /\ r.at = "write" => r.old = effectivePlan(row)
        /\ r.at \in {"insert", "save"} => r.feats \subseteq LimitsForPlan[effectivePlan(row)]
        /\ r.at = "trim" =>
              /\ r.new = effectivePlan(row)
              /\ uses \subseteq LimitsForPlan[r.old] \cup LimitsForPlan[r.new]
              /\ r.stmt \in 1 .. 5
              /\ \A k \in 1 .. 5 : k < r.stmt => uses \cap Statement[k] \subseteq LimitsForPlan[r.new]

Settled == \A q \in Req : SettledAt(q)

\* Every feature is the business of some statement.
LEMMA StatementsCover == Feature \subseteq UNION {Statement[k] : k \in 1 .. 5}
<1>1. Statement[1] = {"fast"} /\ Statement[2] = {"regions", "manyRegions"}
      /\ Statement[3] = {"threshold"} /\ Statement[4] = {"expiry"}
      /\ Statement[5] = {"repeat"}
  BY DEF Statement
<1> QED BY <1>1 DEF Feature

\* A statement leaves nothing of its features that the new plan lacks,
\* provided the monitor was within the old plan or the new one.
LEMMA StatementTrims ==
    ASSUME NEW U, NEW k \in 1 .. 5, NEW old \in Plan, NEW new \in Plan,
           U \subseteq LimitsForPlan[old] \cup LimitsForPlan[new]
    PROVE  (U \ Lost(k, old, new)) \cap Statement[k] \subseteq LimitsForPlan[new]
BY DEF Lost

\* Requests do not overlap and nothing fails.
Alone == ~Faults /\ \A p, q \in Req : p = q

LEMMA SettledStep ==
    ASSUME Alone, BTypeOK, Recorded, Settled, [BNext]_bvars
    PROVE  Settled'
<1>1. CASE UNCHANGED <<row, req, uses>>
  BY <1>1 DEF Settled, SettledAt
<1>2. ASSUME NEW q \in Req, User(q) \/ Handler(q) \/ StripeWebhook(q) \/ Backfill(q)
      PROVE  Settled'
  <2> DEFINE r == req[q]
             L == LimitsForPlan[effectivePlan(row)]
  <2>1. SettledAt(q)' => Settled'
    BY DEF Settled, Alone
  <2>2. /\ row \in Row /\ r \in Request /\ r.put \in Row /\ uses \subseteq Feature
        /\ req \in [Req -> Request] /\ effectivePlan(row) \in Plan
    BY RowTypes DEF BTypeOK, Request
  <2>3. SettledAt(q)
    BY DEF Settled
  <2>4. ASSUME req'[q].at \in {"idle", "fetch", "stripe", "sync"},
               uses' \subseteq LimitsForPlan[effectivePlan(row')]
        PROVE  Settled'
    BY <2>1, <2>4 DEF SettledAt
  <2>5. Ends(q) => req'[q].at = "idle"
    BY <2>2 DEF Ends, Idle
  <2>6. \A at, op, put : Starts(q, at, op, put) => req'[q].at = at
    BY <2>2 DEF Starts, Idle
  <2>7. r.at # "trim" => uses \subseteq L
    BY <2>3 DEF SettledAt
  <2>8. ASSUME UNCHANGED <<row, uses>>, r.at # "trim",
               req'[q].at \in {"idle", "fetch", "stripe", "sync"}
        PROVE  Settled'
    BY <2>4, <2>7, <2>8
  <2>9. ASSUME NEW p \in Paid, CreateCheckout(q, p) PROVE Settled'
    <3>1. CASE req' = req
      BY <2>8, <2>9, <3>1 DEF CreateCheckout, Free
    <3>2. CASE req' # req
      <4> DEFINE put == [row EXCEPT !.customer = TRUE,
                                    !.status = IF @ = "NONE" THEN "ACTIVE" ELSE @, !.sub = 0]
      <4>1. /\ req' = [req EXCEPT ![q] = [Idle EXCEPT
                   !.at = "persist", !.op = "checkout", !.want = p, !.put = put]]
            /\ Free(q) /\ UNCHANGED <<row, uses>>
        BY <2>9, <3>2, ReadTypes DEF CreateCheckout, Alone
      <4>2. req'[q].at = "persist" /\ req'[q].put = put
        BY <2>2, <4>1 DEF Idle
      <4>3. effectivePlan(put) = effectivePlan(row)
        BY <2>2 DEF effectivePlan, Row, Recorded
      <4> QED BY <2>1, <2>7, <4>1, <4>2, <4>3 DEF SettledAt, Free
    <3> QED BY <3>1, <3>2
  <2>10. CASE PersistCustomer(q)
    <3>1. effectivePlan(Upserted(row, r.put)) = effectivePlan(r.put)
      BY <2>2 DEF effectivePlan, Upserted, Row
    <3>2. effectivePlan(row') = effectivePlan(row)
      BY <2>3, <2>10, <3>1 DEF PersistCustomer, SettledAt
    <3>3. uses' \subseteq LimitsForPlan[effectivePlan(row')]
      BY <2>7, <2>10, <3>2 DEF PersistCustomer
    <3> QED BY <2>4, <2>5, <2>10, <3>3 DEF PersistCustomer
  <2>11. CASE GetSubscription(q) \/ CancelSubscription(q) \/ ResumeSubscription(q)
    BY <2>6, <2>8, <2>11 DEF GetSubscription, CancelSubscription, ResumeSubscription, Free
  <2>12. CASE reconcileSubscription(q)
    BY <2>5, <2>6, <2>8, <2>12 DEF reconcileSubscription
  <2>13. CASE StripeWebhook(q)
    BY <2>6, <2>8, <2>13 DEF StripeWebhook, handleSubscriptionUpdated,
       handleSubscriptionDeleted, handlePaymentFailed, Free
  <2>14. CASE SetCancelAtPeriodEnd(q)
    <3>1. req'[q].at \in {"idle", "sync"}
      BY <2>2, <2>5, <2>14 DEF SetCancelAtPeriodEnd, Request
    <3> QED BY <2>8, <2>14, <3>1 DEF SetCancelAtPeriodEnd
  <2>15. CASE SyncReads(q)
    <3>1. req' = [req EXCEPT ![q].at = "write", ![q].old = effectivePlan(row)]
      BY <2>15, ReadTypes DEF SyncReads, Alone
    <3>2. req'[q].at = "write" /\ req'[q].old = effectivePlan(row)
      BY <2>2, <3>1 DEF Request
    <3> QED BY <2>1, <2>7, <2>15, <3>2 DEF SettledAt, SyncReads
  <2>16. CASE UpsertSubscription(q)
    <3>1. r.old = effectivePlan(row) /\ uses \subseteq LimitsForPlan[r.old] /\ uses' = uses
      BY <2>3, <2>16 DEF UpsertSubscription, SettledAt
    <3>2. CASE r.old = effectivePlan(row')
      BY <2>4, <2>5, <2>16, <3>1, <3>2 DEF UpsertSubscription
    <3>3. CASE r.old # effectivePlan(row')
      <4>1. req' = [req EXCEPT ![q].at = "trim", ![q].new = effectivePlan(row'), ![q].stmt = 1]
        BY <2>16, <3>3 DEF UpsertSubscription
      <4>2. /\ req'[q].at = "trim" /\ req'[q].new = effectivePlan(row')
            /\ req'[q].stmt = 1 /\ req'[q].old = r.old
        BY <2>2, <4>1 DEF Request
      <4> QED BY <2>1, <3>1, <4>2 DEF SettledAt
    <3> QED BY <3>2, <3>3
  <2>17. CASE ReconcileMonitorsToPlan(q)
    <3> DEFINE k == r.stmt
    <3>1. /\ r.new = effectivePlan(row)
          /\ uses \subseteq LimitsForPlan[r.old] \cup LimitsForPlan[r.new]
          /\ k \in 1 .. 5 /\ r.old \in Plan /\ r.new \in Plan
          /\ \A j \in 1 .. 5 : j < k => uses \cap Statement[j] \subseteq LimitsForPlan[r.new]
      BY <2>2, <2>3, <2>17 DEF ReconcileMonitorsToPlan, SettledAt, Request
    <3>2. uses' = uses \ Lost(k, r.old, r.new) /\ row' = row
      BY <2>17 DEF ReconcileMonitorsToPlan
    <3>3. uses' \cap Statement[k] \subseteq LimitsForPlan[r.new]
      BY <3>1, <3>2, StatementTrims
    <3>4. \A j \in 1 .. 5 : j <= k => uses' \cap Statement[j] \subseteq LimitsForPlan[r.new]
      BY <3>1, <3>2, <3>3
    <3>5. Len(Statement) = 5
      BY DEF Statement
    <3>6. CASE k = 5
      <4>1. \A j \in 1 .. 5 : uses' \cap Statement[j] \subseteq LimitsForPlan[r.new]
        BY <3>4, <3>6
      <4>2. uses' \subseteq LimitsForPlan[r.new]
        BY <2>2, <3>2, <4>1, StatementsCover
      <4> QED BY <2>4, <2>5, <2>17, <3>1, <3>2, <3>5, <3>6, <4>2 DEF ReconcileMonitorsToPlan
    <3>7. CASE k # 5
      <4>1. req' = [req EXCEPT ![q].stmt = @ + 1]
        BY <2>17, <3>5, <3>7 DEF ReconcileMonitorsToPlan
      <4>2. /\ req'[q].at = "trim" /\ req'[q].new = r.new /\ req'[q].old = r.old
            /\ req'[q].stmt = k + 1
        BY <2>2, <2>17, <4>1 DEF Request, ReconcileMonitorsToPlan
      <4>3. k + 1 \in 1 .. 5 /\ \A j \in 1 .. 5 : j < k + 1 => j <= k
        BY <3>1, <3>7
      <4>4. uses' \subseteq LimitsForPlan[r.old] \cup LimitsForPlan[r.new]
        BY <3>1, <3>2
      <4> HIDE DEF k
      <4> QED BY <2>1, <3>1, <3>2, <3>4, <4>2, <4>3, <4>4 DEF SettledAt
    <3> QED BY <3>6, <3>7
  <2>18. ASSUME NEW at \in {"insert", "save"}, NEW F, Configures(q, at, F) PROVE Settled'
    <3>1. req'[q].at = at /\ req'[q].feats = F
      BY <2>2, <2>18 DEF Configures, Idle
    <3>2. F \subseteq L /\ UNCHANGED <<row, uses>> /\ r.at # "trim"
      BY <2>18 DEF Configures, Allowed, Free
    <3> QED BY <2>1, <2>7, <3>1, <3>2 DEF SettledAt
  <2>19. CASE InsertMonitor(q)
    <3>1. r.feats \subseteq L /\ row' = row /\ uses' \subseteq r.feats
      BY <2>3, <2>19 DEF InsertMonitor, SettledAt
    <3>2. CASE Ends(q)
      BY <2>4, <2>5, <3>1, <3>2
    <3>3. CASE ~Ends(q)
      <4>1. "expiry" \in r.feats /\ req' = [req EXCEPT ![q].at = "save", ![q].feats = {"expiry"}]
        BY <2>19, <3>3 DEF InsertMonitor
      <4>2. req'[q].at = "save" /\ req'[q].feats = {"expiry"}
        BY <2>2, <4>1 DEF Request
      <4> QED BY <2>1, <3>1, <4>1, <4>2 DEF SettledAt
    <3> QED BY <3>2, <3>3
  <2>20. CASE SaveMonitor(q)
    BY <2>3, <2>4, <2>5, <2>7, <2>20 DEF SaveMonitor, SettledAt
  <2>21. CASE DeleteMonitor(q)
    BY <2>4, <2>21 DEF DeleteMonitor, Free
  <2>22. CASE Fails(q)
    BY <2>22 DEF Fails, Alone
  <2>23. CASE Backfill(q)
    <3>1. /\ req'[q].at = "trim" /\ req'[q].new = effectivePlan(row) /\ req'[q].stmt = 1
          /\ UNCHANGED <<row, uses>> /\ r.at # "trim"
      BY <2>2, <2>23 DEF Backfill, Idle, Free
    <3> QED BY <2>1, <2>7, <3>1 DEF SettledAt
  <2> QED
    BY <1>2, <2>9, <2>10, <2>11, <2>12, <2>13, <2>14, <2>15, <2>16, <2>17, <2>18, <2>19,
       <2>20, <2>21, <2>22, <2>23 DEF User, Handler, CreateMonitor, UpdateMonitor
<1>3. CASE Stripe \/ \E e \in events : IgnoreEvent(e)
  <2>1. UNCHANGED <<row, req, uses>>
    BY <1>3 DEF Stripe, CompleteCheckout, PaymentSucceeds, PaymentFails, Suspend,
       SubscriptionEnds, PortalChangesPlan, Becomes, IgnoreEvent
  <2> QED BY <1>1, <2>1
<1> QED BY <1>1, <1>2, <1>3 DEF BNext, bvars

\* Requests that do not overlap and do not fail never tear anything: every
\* write is decided on the record it replaces, and every trimming completes.
THEOREM NeverTornAlone ==
    ASSUME Alone
    PROVE  BSpec => []~torn
<1>1. BInit => Settled /\ ~torn
  BY PlanTypes DEF BInit, Settled, SettledAt, Idle
<1>2. ASSUME BTypeOK, Recorded, Settled, ~torn, [BNext]_bvars PROVE ~torn'
  <2>1. ASSUME NEW q \in Req, User(q) \/ Handler(q) \/ StripeWebhook(q) PROVE ~torn'
    <3>1. SettledAt(q) /\ row \in Row /\ req[q].put \in Row
      BY <1>2 DEF Settled, BTypeOK, Request
    <3>2. CASE PersistCustomer(q)
      <4>1. effectivePlan(Upserted(row, req[q].put)) = effectivePlan(req[q].put)
        BY <3>1 DEF effectivePlan, Upserted, Row
      <4> QED BY <1>2, <3>1, <3>2, <4>1 DEF PersistCustomer, SettledAt
    <3>3. CASE UpsertSubscription(q)
      BY <1>2, <3>1, <3>3 DEF UpsertSubscription, SettledAt
    <3>4. CASE Fails(q)
      BY <3>4 DEF Fails, Alone
    <3>5. CASE InsertMonitor(q) \/ SaveMonitor(q)
      BY <1>2, <3>1, <3>5 DEF InsertMonitor, SaveMonitor, SettledAt, Allowed
    <3> QED
      BY <1>2, <2>1, <3>2, <3>3, <3>4, <3>5 DEF User, Handler, StripeWebhook, CreateCheckout,
         GetSubscription, CancelSubscription, ResumeSubscription, UpdateMonitor,
         CreateMonitor, Configures, DeleteMonitor, reconcileSubscription,
         SetCancelAtPeriodEnd, SyncReads, ReconcileMonitorsToPlan,
         handleSubscriptionUpdated, handleSubscriptionDeleted, handlePaymentFailed
  <2>2. CASE Stripe \/ (\E e \in events : IgnoreEvent(e)) \/ UNCHANGED bvars
    BY <1>2, <2>2 DEF bvars, Stripe, CompleteCheckout, PaymentSucceeds, PaymentFails,
       Suspend, SubscriptionEnds, PortalChangesPlan, Becomes, IgnoreEvent
  <2>3. CASE \E q \in Req : Backfill(q)
    BY <1>2, <2>3 DEF Backfill
  <2> QED BY <1>2, <2>1, <2>2, <2>3 DEF BNext
<1>3. BTypeOK /\ Recorded /\ Settled /\ ~torn /\ [BNext]_bvars => (Settled /\ ~torn)'
  BY <1>2, SettledStep
<1> QED BY <1>1, <1>3, BTypeCorrect, RecordedCorrect, PTL DEF BSpec

-----------------------------------------------------------------------------
(* The monitors and the plan, whatever overlaps and fails. *)

\* A statement that some request has yet to execute takes the feature away.
Doomed(f) ==
    \E q \in Req, k \in 1 .. 5 :
        req[q].at = "trim" /\ req[q].stmt <= k /\ f \in Lost(k, req[q].old, req[q].new)

\* Unless something was torn, every feature in use is allowed or doomed.
Accounted ==
    /\ \A q \in Req : req[q].at = "trim" => req[q].stmt \in 1 .. 5
    /\ ~torn => \A f \in uses : f \in LimitsForPlan[effectivePlan(row)] \/ Doomed(f)

\* The statements between them take away all that the new plan lacks.
LEMMA StatementsTake ==
    ASSUME NEW old \in Plan, NEW new \in Plan, NEW f \in LimitsForPlan[old] \ LimitsForPlan[new]
    PROVE  \E k \in 1 .. 5 : f \in Lost(k, old, new)
<1>1. f \in Feature
  BY PlanTypes
<1>2. PICK k \in 1 .. 5 : f \in Statement[k]
  BY <1>1, StatementsCover
<1> QED BY <1>2 DEF Lost

\* A request changes its own slot only.
LEMMA OneSlot ==
    ASSUME BTypeOK, NEW q \in Req, User(q) \/ Handler(q) \/ StripeWebhook(q)
    PROVE  \A p \in Req \ {q} : req'[p] = req[p]
<1>1. req \in [Req -> Request]
  BY DEF BTypeOK
<1>2. Ends(q) => \A p \in Req \ {q} : req'[p] = req[p]
  BY <1>1 DEF Ends
<1>3. \A at, op, put : Starts(q, at, op, put) => \A p \in Req \ {q} : req'[p] = req[p]
  BY <1>1 DEF Starts
<1>4. CASE Handler(q)
  BY <1>1, <1>2, <1>3, <1>4 DEF Handler, PersistCustomer, reconcileSubscription,
     SetCancelAtPeriodEnd, SyncReads, UpsertSubscription, ReconcileMonitorsToPlan,
     InsertMonitor, SaveMonitor, Fails
<1>5. CASE User(q)
  BY <1>1, <1>3, <1>5 DEF User, CreateCheckout, GetSubscription, CancelSubscription,
     ResumeSubscription, UpdateMonitor, CreateMonitor, Configures, DeleteMonitor
<1>6. CASE StripeWebhook(q)
  BY <1>3, <1>6 DEF StripeWebhook, handleSubscriptionUpdated, handleSubscriptionDeleted,
     handlePaymentFailed
<1> QED BY <1>4, <1>5, <1>6

LEMMA AccountedStep ==
    ASSUME BTypeOK, Accounted, [BNext]_bvars
    PROVE  Accounted'
<1> DEFINE L == LimitsForPlan[effectivePlan(row)]
<1>1. CASE UNCHANGED <<row, req, uses, torn>>
  BY <1>1 DEF Accounted, Doomed
<1>2. ASSUME NEW q \in Req, User(q) \/ Handler(q) \/ StripeWebhook(q) PROVE Accounted'
  <2> DEFINE r == req[q]
  <2>1. /\ row \in Row /\ r \in Request /\ req \in [Req -> Request] /\ uses \subseteq Feature
        /\ \A p \in Req \ {q} : req'[p] = req[p]
    BY <1>2, OneSlot DEF BTypeOK
  <2>2. Ends(q) => req'[q].at = "idle"
    BY <2>1 DEF Ends, Idle
  <2>3. \A at, op, put : Starts(q, at, op, put) => req'[q].at = at
    BY <2>1 DEF Starts, Idle
  \* The slot does not trim: what was doomed stays so.
  <2>4. ASSUME r.at # "trim", req'[q].at # "trim",
               ~torn' => /\ ~torn
                         /\ \A f \in uses' : f \notin uses => f \in LimitsForPlan[effectivePlan(row')]
                         /\ effectivePlan(row') = effectivePlan(row)
        PROVE  Accounted'
    <3>1. \A p \in Req : req'[p].at = "trim" => req[p].at = "trim" /\ req'[p] = req[p]
      BY <2>1, <2>4
    <3>2. \A f : Doomed(f) => Doomed(f)'
      BY <2>1, <2>4 DEF Doomed
    <3> QED BY <2>4, <3>1, <3>2 DEF Accounted
  <2>5. ASSUME UNCHANGED <<row, torn>>, uses' \subseteq uses, r.at # "trim", req'[q].at # "trim"
        PROVE  Accounted'
    BY <2>4, <2>5
  <2>6. CASE User(q) /\ ~\E p \in Paid : CreateCheckout(q, p)
    <3>1. ASSUME NEW at \in {"insert", "save"}, NEW F, Configures(q, at, F) PROVE Accounted'
      <4>1. req'[q].at = at
        BY <2>1, <3>1 DEF Configures, Idle
      <4> QED BY <2>5, <3>1, <4>1 DEF Configures, Free
    <3>2. CASE GetSubscription(q) \/ CancelSubscription(q) \/ ResumeSubscription(q)
      BY <2>3, <2>5, <3>2 DEF GetSubscription, CancelSubscription, ResumeSubscription, Free
    <3>3. CASE DeleteMonitor(q)
      BY <2>5, <3>3 DEF DeleteMonitor, Free
    <3> QED BY <2>6, <3>1, <3>2, <3>3 DEF User, CreateMonitor, UpdateMonitor
  <2>7. ASSUME NEW p \in Paid, CreateCheckout(q, p) PROVE Accounted'
    <3>1. req'[q].at # "trim"
      BY <2>1, <2>7 DEF CreateCheckout, Idle, Free
    <3> QED BY <2>5, <2>7, <3>1 DEF CreateCheckout, Free
  <2>8. CASE StripeWebhook(q)
    BY <2>3, <2>5, <2>8 DEF StripeWebhook, handleSubscriptionUpdated,
       handleSubscriptionDeleted, handlePaymentFailed, Free
  <2>9. CASE PersistCustomer(q)
    BY <2>2, <2>4, <2>9 DEF PersistCustomer
  <2>10. CASE reconcileSubscription(q)
    BY <2>2, <2>3, <2>5, <2>10 DEF reconcileSubscription
  <2>11. CASE SetCancelAtPeriodEnd(q)
    <3>1. req'[q].at \in {"idle", "sync"}
      BY <2>1, <2>2, <2>11 DEF SetCancelAtPeriodEnd, Request
    <3> QED BY <2>5, <2>11, <3>1 DEF SetCancelAtPeriodEnd
  <2>12. CASE SyncReads(q)
    <3>1. req'[q].at = "write"
      BY <2>1, <2>12 DEF SyncReads, Request
    <3> QED BY <2>5, <2>12, <3>1 DEF SyncReads
  \* What the old plan allowed and the new one does not is doomed by this slot.
  <2>13. CASE UpsertSubscription(q)
    <3>1. /\ r.at = "write" /\ uses' = uses
          /\ ~torn' => ~torn /\ r.old = effectivePlan(row)
      BY <2>13 DEF UpsertSubscription
    <3>2. CASE r.old = effectivePlan(row')
      <4>1. req'[q].at = "idle"
        BY <2>2, <2>13, <3>2 DEF UpsertSubscription
      <4> QED BY <2>4, <3>1, <3>2, <4>1
    <3>3. CASE r.old # effectivePlan(row')
      <4>1. req' = [req EXCEPT ![q].at = "trim", ![q].new = effectivePlan(row'), ![q].stmt = 1]
        BY <2>13, <3>3 DEF UpsertSubscription
      <4>2. /\ req'[q].at = "trim" /\ req'[q].new = effectivePlan(row')
            /\ req'[q].stmt = 1 /\ req'[q].old = r.old
        BY <2>1, <4>1 DEF Request
      <4>3. \A f : Doomed(f) => Doomed(f)'
        BY <2>1, <3>1 DEF Doomed
      <4>4. r.old \in Plan /\ effectivePlan(row') \in Plan
        <5>1. BTypeOK'
          BY BTypeStep
        <5> QED BY <2>1, <5>1, RowTypes DEF BTypeOK, Request
      <4>5. ASSUME ~torn', NEW f \in uses'
            PROVE  f \in LimitsForPlan[effectivePlan(row')] \/ Doomed(f)'
        <5>1. CASE Doomed(f)
          BY <4>3, <5>1
        <5>2. CASE f \in LimitsForPlan[r.old] \ LimitsForPlan[effectivePlan(row')]
          <6>1. PICK k \in 1 .. 5 : f \in Lost(k, r.old, effectivePlan(row'))
            BY <4>4, <5>2, StatementsTake
          <6> QED BY <4>2, <6>1 DEF Doomed
        <5> QED BY <3>1, <4>5, <5>1, <5>2 DEF Accounted
      <4>6. \A p \in Req : req'[p].at = "trim" => req'[p].stmt \in 1 .. 5
        BY <2>1, <4>2 DEF Accounted
      <4> QED BY <4>5, <4>6 DEF Accounted
    <3> QED BY <3>2, <3>3
  \* The statement executed takes away what only it still doomed.
  <2>14. CASE ReconcileMonitorsToPlan(q)
    <3> DEFINE n == r.stmt
    <3>1. /\ n \in 1 .. 5 /\ r.at = "trim" /\ uses' = uses \ Lost(n, r.old, r.new)
          /\ UNCHANGED <<row, torn>> /\ Len(Statement) = 5
      BY <2>14 DEF ReconcileMonitorsToPlan, Accounted, Statement
    <3>2. n # 5 => /\ req'[q].at = "trim" /\ req'[q].new = r.new /\ req'[q].old = r.old
                   /\ req'[q].stmt = n + 1
      <4>1. n # 5 => req' = [req EXCEPT ![q].stmt = @ + 1]
        BY <2>14, <3>1 DEF ReconcileMonitorsToPlan
      <4> QED BY <2>1, <3>1, <4>1 DEF Request
    <3>3. n = 5 => req'[q].at = "idle"
      BY <2>2, <2>14, <3>1 DEF ReconcileMonitorsToPlan
    <3>4. ASSUME NEW f \in uses', Doomed(f) PROVE Doomed(f)'
      <4>1. PICK p \in Req, k \in 1 .. 5 :
                req[p].at = "trim" /\ req[p].stmt <= k /\ f \in Lost(k, req[p].old, req[p].new)
        BY <3>4 DEF Doomed
      <4>2. CASE p = q
        <5>1. k # n /\ n < k /\ n # 5
          BY <3>1, <3>4, <4>1, <4>2
        <5>2. n + 1 <= k
          BY <3>1, <5>1
        <5> QED BY <3>2, <4>1, <4>2, <5>1, <5>2 DEF Doomed
      <4>3. CASE p # q
        BY <2>1, <4>1, <4>3 DEF Doomed
      <4> QED BY <4>2, <4>3
    <3>5. \A p \in Req : req'[p].at = "trim" => req'[p].stmt \in 1 .. 5
      <4>1. n # 5 => n + 1 \in 1 .. 5
        BY <3>1
      <4> HIDE DEF n
      <4> QED BY <2>1, <3>2, <3>3, <4>1 DEF Accounted
    <3> QED BY <3>1, <3>4, <3>5 DEF Accounted
  <2>15. CASE InsertMonitor(q)
    <3>1. req'[q].at # "trim"
      BY <2>1, <2>2, <2>15 DEF InsertMonitor, Request
    <3> QED BY <2>4, <2>15, <3>1 DEF InsertMonitor, Allowed
  <2>16. CASE SaveMonitor(q)
    BY <2>2, <2>4, <2>16 DEF SaveMonitor, Allowed
  <2>17. CASE Fails(q)
    <3>1. CASE r.at = "trim"
      <4>1. torn' /\ req'[q].at = "idle"
        BY <2>2, <2>17, <3>1 DEF Fails
      <4> QED BY <2>1, <4>1 DEF Accounted
    <3>2. CASE r.at # "trim"
      <4>1. (torn' <=> torn) /\ UNCHANGED <<row, uses>> /\ req'[q].at = "idle"
        BY <2>2, <2>17, <3>2 DEF Fails
      <4> QED BY <2>4, <3>2, <4>1
    <3> QED BY <3>1, <3>2
  <2> QED
    BY <1>2, <2>6, <2>7, <2>8, <2>9, <2>10, <2>11, <2>12, <2>13, <2>14, <2>15, <2>16, <2>17
       DEF Handler
<1>3. CASE Stripe \/ \E e \in events : IgnoreEvent(e)
  <2>1. UNCHANGED <<row, req, uses, torn>>
    BY <1>3 DEF Stripe, CompleteCheckout, PaymentSucceeds, PaymentFails, Suspend,
       SubscriptionEnds, PortalChangesPlan, Becomes, IgnoreEvent
  <2> QED BY <1>1, <2>1
<1>4. ASSUME NEW q \in Req, Backfill(q) PROVE Accounted'
  <2>1. /\ req'[q].at = "trim" /\ req'[q].stmt = 1
        /\ UNCHANGED <<row, uses, torn>> /\ req[q].at # "trim"
        /\ \A p \in Req \ {q} : req'[p] = req[p]
    BY <1>4 DEF Backfill, Idle, Free, BTypeOK
  <2>2. \A f : Doomed(f) => Doomed(f)'
    BY <2>1 DEF Doomed
  <2> QED BY <2>1, <2>2 DEF Accounted
<1> QED BY <1>1, <1>2, <1>3, <1>4 DEF BNext, bvars

\* An idle account's monitor uses only what its effective plan allows, for any
\* number of requests, purchases and edits, in any overlap and with any
\* failures, unless a write or an edit was overtaken or a trimming stopped
\* half-way (syncSubscription, ReconcileMonitorsToPlan).
THEOREM WithinPlanCorrect == BSpec => []WithinPlan
<1>1. BInit => Accounted
  BY DEF BInit, Accounted, Idle
<1>2. BTypeOK /\ Accounted /\ [BNext]_bvars => Accounted'
  BY AccountedStep
<1>3. Accounted => WithinPlan
  BY DEF Accounted, Doomed, WithinPlan, Free
<1> QED BY <1>1, <1>2, <1>3, BTypeCorrect, PTL DEF BSpec

-----------------------------------------------------------------------------
(* An account that never bought anything. *)

\* What a request may carry, and the record may hold, of nothing bought.
Unpaid(r) == r.plan = "FREE" /\ r.sub = 0

Unbought ==
    stripe = <<>> =>
        /\ events = {}
        /\ uses = {}
        /\ Unpaid(row)
        /\ \A q \in Req : /\ Unpaid(req[q].put)
                         /\ req[q].at \notin {"stripe", "insert", "save"}

\* Subscriptions are only ever added.
LEMMA StripeGrows == BTypeOK /\ [BNext]_bvars /\ stripe' = <<>> => stripe = <<>>
<1> SUFFICES ASSUME BTypeOK, [BNext]_bvars, stripe # <<>> PROVE stripe' # <<>>
  OBVIOUS
<1>t. stripe \in Seq(Subscription)
  BY DEF BTypeOK, Subscription
<1>1. CASE UNCHANGED stripe
  BY <1>1
<1>2. ASSUME NEW x, stripe' = Append(stripe, x) PROVE stripe' # <<>>
  BY <1>t, <1>2
<1>3. ASSUME DOMAIN stripe' = DOMAIN stripe PROVE stripe' # <<>>
  BY <1>t, <1>3
<1>4. ASSUME NEW s, Becomes(s, "active") \/ Becomes(s, "incomplete") \/ Becomes(s, "past_due")
                    \/ Becomes(s, "suspended") \/ Becomes(s, "canceled")
      PROVE  DOMAIN stripe' = DOMAIN stripe
  BY <1>4, <1>t DEF Becomes
<1>5. ASSUME NEW s, PortalChangesPlan(s) PROVE DOMAIN stripe' = DOMAIN stripe
  BY <1>5, <1>t DEF PortalChangesPlan
<1>6. ASSUME NEW q, SetCancelAtPeriodEnd(q)
      PROVE  DOMAIN stripe' = DOMAIN stripe
  BY <1>6, <1>t DEF SetCancelAtPeriodEnd
<1>7. CASE Stripe
  BY <1>2, <1>3, <1>4, <1>5, <1>7
     DEF Stripe, CompleteCheckout, PaymentSucceeds, PaymentFails, Suspend, SubscriptionEnds
<1>8. ASSUME NEW q \in Req, User(q) \/ StripeWebhook(q) \/ Backfill(q) PROVE stripe' # <<>>
  BY <1>8
     DEF User, CreateCheckout, GetSubscription, CancelSubscription, ResumeSubscription,
         UpdateMonitor, CreateMonitor, Configures, DeleteMonitor, StripeWebhook,
         handleSubscriptionUpdated, handleSubscriptionDeleted, handlePaymentFailed, Backfill
<1>9. ASSUME NEW q \in Req, Handler(q) PROVE stripe' # <<>>
  BY <1>3, <1>6, <1>9
     DEF Handler, PersistCustomer, reconcileSubscription, SyncReads, UpsertSubscription,
         ReconcileMonitorsToPlan, InsertMonitor, SaveMonitor, Fails
<1> QED BY <1>1, <1>7, <1>8, <1>9 DEF BNext, IgnoreEvent, bvars

LEMMA UnboughtStep == BTypeOK /\ Unbought /\ [BNext]_bvars => Unbought'
<1> SUFFICES ASSUME BTypeOK, Unbought, [BNext]_bvars, stripe' = <<>>
             PROVE  Unbought'
  BY DEF Unbought
<1>0. /\ stripe = <<>> /\ events = {} /\ uses = {} /\ Unpaid(row)
      /\ \A q \in Req : Unpaid(req[q].put) /\ req[q].at \notin {"stripe", "insert", "save"}
      /\ req \in [Req -> Request] /\ row \in Row
  BY StripeGrows DEF Unbought, BTypeOK
<1>1. CASE UNCHANGED <<events, uses, row, req>>
  BY <1>0, <1>1 DEF Unbought
<1>i. Unpaid(NoRow) /\ Unpaid(Canceled) /\ Unpaid(Idle.put) /\ Idle.at = "idle"
  BY DEF Unpaid, NoRow, Canceled, Idle
<1>r. \A r \in GetSubscriptionByUser : Unpaid(r) /\ r \in Row
  BY <1>0, <1>i, RowTypes DEF GetSubscriptionByUser
<1>f. \A r : Unpaid(r) => effectivePlan(r) = "FREE"
  BY DEF Unpaid, effectivePlan
<1>a. \A F : F # {} => ~Allowed(F)
  BY <1>0, <1>f, PlanTypes DEF Allowed
\* It is enough to look at the slot that moves.
<1>2. ASSUME NEW q \in Req, events' = {}, uses' = {}, Unpaid(row)',
             \A p \in Req \ {q} : req'[p] = req[p],
             Unpaid(req'[q].put), req'[q].at \notin {"stripe", "insert", "save"}
      PROVE  Unbought'
  BY <1>0, <1>2 DEF Unbought
<1>3. ASSUME NEW q \in Req, User(q) \/ Backfill(q) PROVE Unbought'
  <2>0. events' = {} /\ uses' = {} /\ UNCHANGED row
    BY <1>0, <1>3
       DEF User, CreateCheckout, GetSubscription, CancelSubscription, ResumeSubscription,
           UpdateMonitor, CreateMonitor, Configures, DeleteMonitor, Backfill
  <2>1. CASE \E p \in Paid : CreateCheckout(q, p)
    <3>1. PICK p \in Paid : CreateCheckout(q, p)
      BY <2>1
    <3>2. CASE UNCHANGED req
      BY <1>0, <1>1, <2>0, <3>2
    <3>3. CASE \E r \in GetSubscriptionByUser :
                 req' = [req EXCEPT ![q] = [Idle EXCEPT
                   !.at = "persist", !.op = "checkout", !.want = p,
                   !.put = [r EXCEPT !.customer = TRUE,
                                     !.status = IF @ = "NONE" THEN "ACTIVE" ELSE @,
                                     !.sub = 0]]]
      <4>1. PICK r \in GetSubscriptionByUser :
                 req' = [req EXCEPT ![q] = [Idle EXCEPT
                   !.at = "persist", !.op = "checkout", !.want = p,
                   !.put = [r EXCEPT !.customer = TRUE,
                                     !.status = IF @ = "NONE" THEN "ACTIVE" ELSE @,
                                     !.sub = 0]]]
        BY <3>3
      <4>2. r \in Row /\ Unpaid(r)
        BY <1>r
      <4> DEFINE put == [r EXCEPT !.customer = TRUE,
                                  !.status = IF @ = "NONE" THEN "ACTIVE" ELSE @, !.sub = 0]
      <4>3. Unpaid(put)
        BY <4>2 DEF Unpaid, Row
      <4> HIDE DEF put
      <4>4. /\ req'[q].put = put /\ req'[q].at = "persist"
            /\ \A k \in Req \ {q} : req'[k] = req[k]
        BY <1>0, <4>1 DEF Idle, put
      <4> QED BY <1>0, <1>2, <2>0, <4>3, <4>4 DEF Unpaid
    <3> QED BY <3>1, <3>2, <3>3 DEF CreateCheckout
  <2>2. CASE GetSubscription(q)
    <3>1. PICK r \in GetSubscriptionByUser : Starts(q, "fetch", "read", r)
      BY <2>2 DEF GetSubscription
    <3>2. req'[q].put = r /\ req'[q].at = "fetch" /\ \A k \in Req \ {q} : req'[k] = req[k]
      BY <1>0, <3>1 DEF Starts, Idle
    <3> QED BY <1>0, <1>2, <1>r, <2>0, <3>2 DEF Unpaid
  <2>3. CASE CancelSubscription(q) \/ ResumeSubscription(q)
    BY <1>0, <2>3 DEF CancelSubscription, ResumeSubscription, Unpaid
  <2>4. ~\E at, F : Configures(q, at, F)
    BY <1>a DEF Configures
  <2>5. CASE DeleteMonitor(q)
    BY <1>0, <2>5 DEF DeleteMonitor
  <2>6. CASE Backfill(q)
    BY <1>0, <1>f, <2>6 DEF Backfill
  <2> QED BY <1>3, <2>1, <2>2, <2>3, <2>4, <2>5, <2>6
             DEF User, UpdateMonitor, CreateMonitor
<1>4. ASSUME NEW q \in Req, Handler(q) PROVE Unbought'
  <2>e. ASSUME Ends(q)
        PROVE  /\ Unpaid(req'[q].put) /\ req'[q].at = "idle"
               /\ \A k \in Req \ {q} : req'[k] = req[k]
    BY <1>0, <1>i, <2>e DEF Ends
  <2>u. ASSUME NEW put, Unpaid(put), row' = Upserted(row, put) PROVE Unpaid(row')
    BY <1>0, <2>u DEF Upserted, Unpaid
  <2>r. /\ req[q] \in Request /\ Unpaid(req[q].put)
        /\ req[q].at \notin {"stripe", "insert", "save"}
    BY <1>0
  <2>1. CASE PersistCustomer(q)
    <3>1. Ends(q) /\ UNCHANGED <<events, uses>>
          /\ (row' = row \/ row' = Upserted(row, req[q].put))
      BY <2>1 DEF PersistCustomer
    <3> QED BY <1>0, <1>2, <2>e, <2>u, <2>r, <3>1 DEF Unpaid
  <2>2. CASE reconcileSubscription(q)
    <3>1. GetActiveSubscription = {}
      BY <1>0 DEF GetActiveSubscription
    <3>2. Ends(q) /\ UNCHANGED <<events, uses, row>>
      BY <2>2, <2>r, <3>1 DEF reconcileSubscription, Unpaid
    <3> QED BY <1>0, <1>2, <2>e, <3>2 DEF Unpaid
  <2>3. CASE SyncReads(q)
    <3>1. /\ req'[q].put = req[q].put /\ req'[q].at = "write"
          /\ \A k \in Req \ {q} : req'[k] = req[k]
          /\ UNCHANGED <<events, uses, row>>
      BY <1>0, <2>3, <2>r DEF SyncReads, Request
    <3> QED BY <1>0, <1>2, <2>r, <3>1 DEF Unpaid
  <2>4. CASE UpsertSubscription(q)
    <3>1. /\ row' = Upserted(row, req[q].put) /\ UNCHANGED <<events, uses>>
          /\ \/ Ends(q)
             \/ /\ req'[q].put = req[q].put /\ req'[q].at = "trim"
                /\ \A k \in Req \ {q} : req'[k] = req[k]
      BY <1>0, <2>4, <2>r DEF UpsertSubscription, Request
    <3> QED BY <1>0, <1>2, <2>e, <2>u, <2>r, <3>1 DEF Unpaid
  <2>5. CASE ReconcileMonitorsToPlan(q)
    <3>1. /\ UNCHANGED <<events, row>> /\ uses' = {}
          /\ \/ Ends(q)
             \/ /\ req'[q].put = req[q].put /\ req'[q].at = "trim"
                /\ \A k \in Req \ {q} : req'[k] = req[k]
      BY <1>0, <2>5, <2>r DEF ReconcileMonitorsToPlan, Request
    <3> QED BY <1>0, <1>2, <2>e, <2>r, <3>1 DEF Unpaid
  <2>6. CASE Fails(q)
    BY <1>0, <1>2, <2>e, <2>6 DEF Fails, Unpaid
  <2> QED BY <1>4, <2>1, <2>2, <2>3, <2>4, <2>5, <2>6, <2>r
             DEF Handler, SetCancelAtPeriodEnd, InsertMonitor, SaveMonitor
<1>5. CASE Stripe
  <2>1. DOMAIN stripe = {}
    BY <1>0
  <2>2. PICK p \in Paid : CompleteCheckout(p)
    BY <1>5, <2>1 DEF Stripe
  <2>3. PICK x : stripe' = Append(stripe, x)
    BY <2>2 DEF CompleteCheckout
  <2> QED BY <1>0, <2>3
<1>6. events = {}
  BY <1>0
<1> QED BY <1>1, <1>3, <1>4, <1>5, <1>6 DEF BNext, StripeWebhook, bvars

\* An account that never bought a subscription stays on FREE and uses nothing of a
\* paid plan, for any number of overlapping and failing requests
\* (CreateCheckout, GetSubscription, syncSubscription).
THEOREM NothingUnboughtCorrect == BSpec => []NothingUnbought
<1>1. BInit => Unbought
  BY DEF BInit, Unbought, Unpaid, NoRow, Idle
<1>2. BTypeOK /\ Unbought /\ [BNext]_bvars => Unbought'
  BY UnboughtStep
<1>3. Unbought => NothingUnbought
  BY DEF Unbought, NothingUnbought, Unpaid, effectivePlan
<1> QED BY <1>1, <1>2, <1>3, BTypeCorrect, PTL DEF BSpec
============================================================================
