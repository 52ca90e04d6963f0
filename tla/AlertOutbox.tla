---------------------------- MODULE AlertOutbox ----------------------------
(***************************************************************************)
(* The alert_outbox table and the dispatchers that drain it.               *)
(*                                                                         *)
(* Every scheduler instance runs one dispatcher.  It claims a batch of due *)
(* rows, which also postpones their next attempt (the lease), delivers     *)
(* them on a bounded number of goroutines, and deletes a row once its      *)
(* alert was sent or its attempts are used up.  Nothing but the lease      *)
(* keeps a claimed row from another dispatcher.                            *)
(*                                                                         *)
(* Time is counted in an arbitrary unit; what is kept is the time left     *)
(* until a row is due and until a send times out, and the age of a batch.  *)
(***************************************************************************)
EXTENDS Integers, FiniteSets

CONSTANTS
    Alert,          \* alerts: one outbox row each
    Recipient,      \* those addressed to an org recipient, not to a channel
    Dispatcher,     \* the scheduler instances
    BatchSize,      \* dispatchBatchSize
    Slots,          \* dispatchConcurrency
    MaxAttempts,    \* dispatchMaxAttempts
    SendTimeout,    \* dispatchSendTimeout
    BatchTimeout,   \* the deadline of one dispatchBatch
    LeaseBase,      \* the first lease
    LeaseCap,       \* the longest lease
    MaxFaults       \* bound on crashes and failed finalizations

ASSUME OutboxAssumption ==
    /\ Recipient \subseteq Alert
    /\ BatchSize \in Nat \ {0}
    /\ Slots \in Nat \ {0}
    /\ MaxAttempts \in Nat \ {0}
    /\ SendTimeout \in Nat \ {0}
    /\ BatchTimeout \in Nat \ {0}
    /\ LeaseBase \in Nat \ {0}
    /\ LeaseCap \in Nat \ {0}
    /\ MaxFaults \in Nat
    /\ LeaseBase * 2^MaxAttempts >= LeaseCap

VARIABLES
    outbox,     \* per alert, its row of alert_outbox
    work,       \* per dispatcher and alert, the goroutine delivering it
    age,        \* per dispatcher, the age of its batch, up to BatchTimeout
    received,   \* the alerts that reached their recipient
    history,    \* per alert, the outcomes alert_history records
    up,         \* the provider accepts alerts
    faults      \* crashes and failed finalizations so far

ovars == <<outbox, work, age, received, history, up, faults>>

-----------------------------------------------------------------------------
NoWork == [at |-> "none", attempts |-> 0, left |-> 0]

OutboxRow == [state : {"new", "queued", "gone", "dropped"}, attempts : Nat, wait : Int]
Goroutine == [at : {"none", "claimed", "sending", "sent", "gaveup"},
              attempts : Nat, left : Nat]

OTypeOK ==
    /\ outbox \in [Alert -> OutboxRow]
    /\ work \in [Dispatcher -> [Alert -> Goroutine]]
    /\ age \in [Dispatcher -> Nat]
    /\ received \in SUBSET Alert
    /\ history \in [Alert -> SUBSET {"sent", "failed"}]
    /\ up \in BOOLEAN
    /\ faults \in Nat

OInit ==
    /\ outbox = [a \in Alert |-> [state |-> "new", attempts |-> 0, wait |-> 0]]
    /\ work = [d \in Dispatcher |-> [a \in Alert |-> NoWork]]
    /\ age = [d \in Dispatcher |-> 0]
    /\ received = {}
    /\ history = [a \in Alert |-> {}]
    /\ up = TRUE
    /\ faults = 0

-----------------------------------------------------------------------------
(* The rows. *)

\* A transition's alert is enqueued, due at once.
enqueue_monitor_alerts(a) ==
    /\ outbox[a].state = "new"
    /\ outbox' = [outbox EXCEPT ![a].state = "queued"]
    /\ UNCHANGED <<work, age, received, history, up, faults>>

\* The channel or recipient is deleted; its rows cascade.
DeleteChannel(a) ==
    /\ outbox[a].state = "queued"
    /\ outbox' = [outbox EXCEPT ![a].state = "dropped"]
    /\ UNCHANGED <<work, age, received, history, up, faults>>

\* Mutant: a row whose attempts are used up is not claimed again.
DueWithAttempts ==
    {a \in Alert : /\ outbox[a].state = "queued"
                   /\ outbox[a].wait <= 0
                   /\ outbox[a].attempts < MaxAttempts}

Due == {a \in Alert : outbox[a].state = "queued" /\ outbox[a].wait <= 0}

Backoff(n) == IF LeaseBase * 2^n < LeaseCap THEN LeaseBase * 2^n ELSE LeaseCap

\* Attempts past MaxAttempts are alike: none is retried sooner or later.
Counted(n) == IF n < MaxAttempts THEN n + 1 ELSE n

Idle(d) == \A a \in Alert : work[d][a].at = "none"

\* Mutant: the claim counts the attempt and takes no lease.
ClaimNoLease(d, S) ==
    /\ Idle(d)
    /\ S # {} /\ S \subseteq Due /\ Cardinality(S) <= BatchSize
    /\ outbox' = [a \in Alert |-> IF a \in S
                                  THEN [outbox[a] EXCEPT !.attempts = Counted(@)]
                                  ELSE outbox[a]]
    /\ work' = [work EXCEPT ![d] =
           [a \in Alert |-> IF a \in S
                            THEN [at |-> "claimed", attempts |-> Counted(outbox[a].attempts),
                                  left |-> 0]
                            ELSE NoWork]]
    /\ age' = [age EXCEPT ![d] = 0]
    /\ UNCHANGED <<received, history, up, faults>>

\* One UPDATE: no row goes to two claims at once.  Rows locked by another
\* statement are skipped, so the claim may take fewer rows than are due.
ClaimOutboxAlerts(d, S) ==
    /\ Idle(d)
    /\ S # {} /\ S \subseteq Due /\ Cardinality(S) <= BatchSize
    /\ outbox' = [a \in Alert |->
           IF a \in S
           THEN [outbox[a] EXCEPT !.attempts = Counted(@),
                                  !.wait = Backoff(outbox[a].attempts)]
           ELSE outbox[a]]
    /\ work' = [work EXCEPT ![d] =
           [a \in Alert |-> IF a \in S
                            THEN [at |-> "claimed", attempts |-> Counted(outbox[a].attempts),
                                  left |-> 0]
                            ELSE NoWork]]
    /\ age' = [age EXCEPT ![d] = 0]
    /\ UNCHANGED <<received, history, up, faults>>

-----------------------------------------------------------------------------
(* Delivering one claimed row. *)

Busy(d) == {a \in Alert : work[d][a].at \notin {"none", "claimed"}}

Becomes(d, a, w) == work' = [work EXCEPT ![d][a] = w]

\* What deliver does with a failed send.
GiveUpEarly(w) ==
    IF w.attempts + 1 >= MaxAttempts THEN [w EXCEPT !.at = "gaveup", !.left = 0] ELSE NoWork
Failed(w) ==
    IF w.attempts >= MaxAttempts THEN [w EXCEPT !.at = "gaveup", !.left = 0] ELSE NoWork

\* A goroutine gets a slot and starts its send.
StartSend(d, a) ==
    /\ work[d][a].at = "claimed"
    /\ Cardinality(Busy(d)) < Slots
    /\ age[d] < BatchTimeout
    /\ Becomes(d, a, [work[d][a] EXCEPT !.at = "sending", !.left = SendTimeout])
    /\ UNCHANGED <<outbox, age, received, history, up, faults>>

\* It gets its slot when the batch's context is over: the send fails at once.
StartTooLate(d, a) ==
    /\ work[d][a].at = "claimed"
    /\ Cardinality(Busy(d)) < Slots
    /\ age[d] >= BatchTimeout
    /\ Becomes(d, a, Failed(work[d][a]))
    /\ UNCHANGED <<outbox, age, received, history, up, faults>>

SendSucceeds(d, a) ==
    /\ work[d][a].at = "sending"
    /\ up
    /\ received' = received \cup {a}
    /\ Becomes(d, a, [work[d][a] EXCEPT !.at = "sent", !.left = 0])
    /\ UNCHANGED <<outbox, age, history, up, faults>>

SendFails(d, a) ==
    /\ work[d][a].at = "sending"
    /\ ~up \/ age[d] >= BatchTimeout
    /\ Becomes(d, a, Failed(work[d][a]))
    /\ UNCHANGED <<outbox, age, received, history, up, faults>>

\* The provider accepts the alert, but its answer is lost or comes too late.
SendUnanswered(d, a) ==
    /\ work[d][a].at = "sending"
    /\ up
    /\ received' = received \cup {a}
    /\ Becomes(d, a, Failed(work[d][a]))
    /\ UNCHANGED <<outbox, age, history, up, faults>>

\* Mutants: whatever ends the row's life is recorded as sent, or verbatim.
OutcomeSent(w) == "sent"
OutcomeVerbatim(w) == w.at
Outcome(w) == IF w.at = "sent" THEN "sent" ELSE "failed"

\* Record the outcome and delete the row, in one transaction.  The history
\* row of a deleted channel violates its foreign key: nothing is written.
finalize(d, a) ==
    /\ work[d][a].at \in {"sent", "gaveup"}
    /\ age[d] < BatchTimeout
    /\ IF outbox[a].state = "dropped" THEN UNCHANGED <<outbox, history>>
       ELSE /\ outbox' = [outbox EXCEPT ![a].state = "gone"]
            /\ history' = IF a \in Recipient THEN history
                          ELSE [history EXCEPT ![a] = @ \cup {Outcome(work[d][a])}]
    /\ Becomes(d, a, NoWork)
    /\ UNCHANGED <<age, received, up, faults>>

\* The batch's context is over, or the database fails: the row stays.
FinalizeFails(d, a) ==
    /\ work[d][a].at \in {"sent", "gaveup"}
    /\ \/ age[d] >= BatchTimeout /\ faults' = faults
       \/ age[d] < BatchTimeout /\ faults < MaxFaults /\ faults' = faults + 1
    /\ Becomes(d, a, NoWork)
    /\ UNCHANGED <<outbox, age, received, history, up>>

-----------------------------------------------------------------------------
(* Crashes, the provider and time. *)

\* The instance dies with its batch, and restarts.
Crash(d) ==
    /\ faults < MaxFaults
    /\ ~Idle(d)
    /\ faults' = faults + 1
    /\ work' = [work EXCEPT ![d] = [a \in Alert |-> NoWork]]
    /\ UNCHANGED <<outbox, age, received, history, up>>

ProviderToggles ==
    /\ up' = ~up
    /\ UNCHANGED <<outbox, work, age, received, history, faults>>

Less(n) == IF n <= 0 THEN n ELSE n - 1

\* Sends do not outlive their timeout or their batch's deadline.
TimePasses ==
    /\ \A d \in Dispatcher, a \in Alert :
           work[d][a].at = "sending" => work[d][a].left > 0 /\ age[d] < BatchTimeout
    /\ outbox' = [a \in Alert |-> [outbox[a] EXCEPT !.wait = Less(@)]]
    /\ work' = [d \in Dispatcher |->
                   [a \in Alert |-> [work[d][a] EXCEPT !.left = Less(@)]]]
    /\ age' = [d \in Dispatcher |->
                  IF Idle(d) THEN 0 ELSE IF age[d] < BatchTimeout THEN age[d] + 1 ELSE age[d]]
    /\ UNCHANGED <<received, history, up>>

Tick == TimePasses /\ UNCHANGED faults

-----------------------------------------------------------------------------
Claim(d) == \E S \in SUBSET Alert : ClaimOutboxAlerts(d, S)

Deliver(d, a) ==
    \/ StartSend(d, a)    \/ StartTooLate(d, a)
    \/ SendSucceeds(d, a) \/ SendFails(d, a) \/ SendUnanswered(d, a)
    \/ finalize(d, a)     \/ FinalizeFails(d, a)

ONext ==
    \/ \E a \in Alert : enqueue_monitor_alerts(a) \/ DeleteChannel(a)
    \/ \E d \in Dispatcher : Claim(d) \/ Crash(d)
    \/ \E d \in Dispatcher, a \in Alert : Deliver(d, a)
    \/ ProviderToggles
    \/ Tick

OSpec == OInit /\ [][ONext]_ovars

-----------------------------------------------------------------------------
(* Goroutines and the database are prompt: time passes only while sends are *)
(* on their way or nothing is due.  A bounded number of times they stall.   *)

PromptTick ==
    /\ \A d \in Dispatcher, a \in Alert :
           /\ work[d][a].at \notin {"sent", "gaveup"}
           /\ work[d][a].at = "claimed" => Cardinality(Busy(d)) >= Slots
    /\ Tick

Stall ==
    /\ faults < MaxFaults
    /\ TimePasses
    /\ faults' = faults + 1

PromptNext ==
    \/ \E a \in Alert : enqueue_monitor_alerts(a) \/ DeleteChannel(a)
    \/ \E d \in Dispatcher : Claim(d) \/ Crash(d)
    \/ \E d \in Dispatcher, a \in Alert : Deliver(d, a)
    \/ ProviderToggles
    \/ PromptTick \/ Stall

OFairness ==
    /\ WF_ovars(PromptTick)
    /\ \A d \in Dispatcher :
           /\ WF_ovars(Claim(d))
           /\ \A a \in Alert : WF_ovars(Deliver(d, a))

PromptSpec == OInit /\ [][PromptNext]_ovars /\ OFairness

-----------------------------------------------------------------------------
\* A row leaves the outbox only when its alert reached the recipient or every
\* attempt was used up, whatever crashed, timed out or was claimed twice
\* (deliver's three cases, with the attempts counted by the claim).
LeavesOnlyWhenDone ==
    \A a \in Alert : outbox[a].state = "gone" =>
        a \in received \/ outbox[a].attempts >= MaxAttempts

\* alert_history never misreports: it says "sent" only of an alert that arrived
\* and "failed" only of one whose attempts were used up, and a channel's alert
\* does not leave the outbox without an entry (FinalizeOutboxAlert).
HistoryHonest ==
    \A a \in Alert :
        /\ "sent" \in history[a] => a \in received
        /\ "failed" \in history[a] => outbox[a].attempts >= MaxAttempts
        /\ outbox[a].state = "gone" /\ a \notin Recipient => history[a] # {}

\* The time since d's claim of a has reached the lease that the claim took (the
\* shorter of the two leases that end with MaxAttempts counted).
PastLease(d, a) ==
    \E n \in 0 .. MaxAttempts : Counted(n) = work[d][a].attempts /\ age[d] >= Backoff(n)

\* The lease keeps a claimed row from every other dispatcher for as long as it
\* lasts: two send the same alert at once only when one of them has outlived the
\* lease of its own claim, and so never where both leases outlast a batch
\* (next_attempt_at in ClaimOutboxAlerts, against dispatchBatch's deadline).
LeaseHolds ==
    \A a \in Alert, d, e \in Dispatcher :
        work[d][a].at = "sending" /\ work[e][a].at = "sending" /\ d # e =>
            PastLease(d, a) \/ PastLease(e, a)

\* No two dispatchers are sending the same alert at the same time: "any number
\* of scheduler instances can run a dispatcher concurrently without
\* double-sending" (the comment on alertDispatcher).
Exclusive ==
    \A a \in Alert, d, e \in Dispatcher :
        work[d][a].at = "sending" /\ work[e][a].at = "sending" => d = e

\* Every alert leaves the outbox, however the provider behaves and whoever
\* crashed with it: the lease runs out and the row is claimed again, until it
\* is sent or its attempts are used up, unless its channel is deleted with it
\* (ClaimOutboxAlerts, deliver).
Drained ==
    \A a \in Alert : outbox[a].state = "queued" ~> outbox[a].state \in {"gone", "dropped"}
=============================================================================
