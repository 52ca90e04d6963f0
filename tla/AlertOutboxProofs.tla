------------------------- MODULE AlertOutboxProofs -------------------------
(***************************************************************************)
(* Proofs about AlertOutbox for any alerts, any number of dispatchers and  *)
(* any timeouts, leases, batch sizes and attempt limits.                   *)
(***************************************************************************)
EXTENDS AlertOutbox, TLAPS

-----------------------------------------------------------------------------
(* Types. *)

LEMMA BackoffType == \A n \in Nat : Backoff(n) \in Int
<1>1. \A n \in Nat : 2^n \in Int
  OBVIOUS
<1> QED BY <1>1, OutboxAssumption DEF Backoff

LEMMA CountedType == \A n \in Nat : Counted(n) \in Nat /\ n <= Counted(n)
BY OutboxAssumption DEF Counted

LEMMA LessType == (\A n \in Int : Less(n) \in Int) /\ (\A n \in Nat : Less(n) \in Nat)
BY DEF Less

LEMMA NoWorkType == NoWork \in Goroutine
BY DEF NoWork, Goroutine

LEMMA FailedType == \A w \in Goroutine : Failed(w) \in Goroutine
BY NoWorkType DEF Failed, Goroutine

LEMMA BecomesType ==
    ASSUME work \in [Dispatcher -> [Alert -> Goroutine]],
           NEW d \in Dispatcher, NEW a \in Alert, NEW w \in Goroutine, Becomes(d, a, w)
    PROVE  work' \in [Dispatcher -> [Alert -> Goroutine]]
BY DEF Becomes

LEMMA OTypeInit == OInit => OTypeOK
BY NoWorkType DEF OInit, OTypeOK, OutboxRow

LEMMA ClaimType ==
    ASSUME OTypeOK, NEW d \in Dispatcher, NEW S \in SUBSET Alert, ClaimOutboxAlerts(d, S)
    PROVE  OTypeOK'
<1>1. outbox' \in [Alert -> OutboxRow]
  <2> SUFFICES ASSUME NEW a \in Alert, a \in S
               PROVE  [outbox[a] EXCEPT !.attempts = Counted(@),
                                        !.wait = Backoff(outbox[a].attempts)] \in OutboxRow
    BY DEF ClaimOutboxAlerts, OTypeOK
  <2> QED BY BackoffType, CountedType DEF OTypeOK, OutboxRow
<1>2. work' \in [Dispatcher -> [Alert -> Goroutine]]
  <2>1. \A a \in Alert : [at |-> "claimed", attempts |-> Counted(outbox[a].attempts),
                          left |-> 0] \in Goroutine
    BY CountedType DEF OTypeOK, OutboxRow, Goroutine
  <2> QED BY <2>1, NoWorkType DEF ClaimOutboxAlerts, OTypeOK
<1> QED BY <1>1, <1>2 DEF ClaimOutboxAlerts, OTypeOK

LEMMA DeliverType ==
    ASSUME OTypeOK, NEW d \in Dispatcher, NEW a \in Alert, Deliver(d, a)
    PROVE  OTypeOK'
<1>0. work[d][a] \in Goroutine
  BY DEF OTypeOK
<1>1. work' \in [Dispatcher -> [Alert -> Goroutine]]
  <2>1. \E w \in Goroutine : Becomes(d, a, w)
    <3>1. CASE StartSend(d, a)
      BY <1>0, <3>1, OutboxAssumption DEF StartSend, Goroutine
    <3>2. CASE StartTooLate(d, a) \/ SendFails(d, a) \/ SendUnanswered(d, a)
      BY <1>0, <3>2, FailedType DEF StartTooLate, SendFails, SendUnanswered
    <3>3. CASE SendSucceeds(d, a)
      BY <1>0, <3>3 DEF SendSucceeds, Goroutine
    <3>4. CASE finalize(d, a) \/ FinalizeFails(d, a)
      BY <3>4, NoWorkType DEF finalize, FinalizeFails
    <3> QED BY <3>1, <3>2, <3>3, <3>4 DEF Deliver
  <2> QED BY <2>1, BecomesType DEF OTypeOK
<1>2. outbox' \in [Alert -> OutboxRow] /\ history' \in [Alert -> SUBSET {"sent", "failed"}]
  <2>1. CASE finalize(d, a)
    <3>1. [outbox[a] EXCEPT !.state = "gone"] \in OutboxRow
      BY DEF OTypeOK, OutboxRow
    <3>2. outbox' \in {outbox, [outbox EXCEPT ![a] = [outbox[a] EXCEPT !.state = "gone"]]}
      BY <2>1 DEF finalize
    <3>3. outbox' \in [Alert -> OutboxRow]
      BY <3>1, <3>2 DEF OTypeOK
    <3>4. Outcome(work[d][a]) \in {"sent", "failed"}
      BY DEF Outcome
    <3>5. history' \in [Alert -> SUBSET {"sent", "failed"}]
      BY <2>1, <3>4 DEF finalize, OTypeOK
    <3> QED BY <3>3, <3>5
  <2>2. CASE ~finalize(d, a)
    BY <2>2 DEF Deliver, StartSend, StartTooLate, SendSucceeds, SendFails,
                SendUnanswered, FinalizeFails, OTypeOK
  <2> QED BY <2>1, <2>2
<1>3. /\ age' \in [Dispatcher -> Nat] /\ received' \in SUBSET Alert
      /\ up' \in BOOLEAN /\ faults' \in Nat
  BY DEF Deliver, StartSend, StartTooLate, SendSucceeds, SendFails,
         SendUnanswered, finalize, FinalizeFails, OTypeOK
<1> QED BY <1>1, <1>2, <1>3 DEF OTypeOK

LEMMA TickType == OTypeOK /\ Tick => OTypeOK'
<1> SUFFICES ASSUME OTypeOK, Tick PROVE OTypeOK'
  OBVIOUS
<1>1. outbox' \in [Alert -> OutboxRow]
  <2>1. \A a \in Alert : [outbox[a] EXCEPT !.wait = Less(@)] \in OutboxRow
    BY LessType DEF OTypeOK, OutboxRow
  <2> QED BY <2>1 DEF Tick, TimePasses
<1>2. work' \in [Dispatcher -> [Alert -> Goroutine]]
  <2>1. \A d \in Dispatcher, a \in Alert :
            [work[d][a] EXCEPT !.left = Less(@)] \in Goroutine
    <3> SUFFICES ASSUME NEW d \in Dispatcher, NEW a \in Alert
                 PROVE  [work[d][a] EXCEPT !.left = Less(@)] \in Goroutine
      OBVIOUS
    <3>1. work[d][a] \in Goroutine
      BY DEF OTypeOK
    <3> QED BY <3>1, LessType DEF Goroutine
  <2> QED BY <2>1 DEF Tick, TimePasses
<1>3. age' \in [Dispatcher -> Nat]
  BY DEF Tick, TimePasses, OTypeOK
<1> QED BY <1>1, <1>2, <1>3 DEF Tick, TimePasses, OTypeOK

LEMMA OTypeStep == OTypeOK /\ [ONext]_ovars => OTypeOK'
<1> SUFFICES ASSUME OTypeOK, [ONext]_ovars PROVE OTypeOK'
  OBVIOUS
<1>1. ASSUME NEW a \in Alert, enqueue_monitor_alerts(a) \/ DeleteChannel(a) PROVE OTypeOK'
  <2>1. outbox' \in [Alert -> OutboxRow]
    BY <1>1 DEF enqueue_monitor_alerts, DeleteChannel, OTypeOK, OutboxRow
  <2> QED BY <1>1, <2>1 DEF enqueue_monitor_alerts, DeleteChannel, OTypeOK
<1>2. ASSUME NEW d \in Dispatcher, Crash(d) PROVE OTypeOK'
  <2>1. work' \in [Dispatcher -> [Alert -> Goroutine]]
    BY <1>2, NoWorkType DEF Crash, OTypeOK
  <2> QED BY <1>2, <2>1 DEF Crash, OTypeOK
<1>3. CASE ProviderToggles
  BY <1>3 DEF ProviderToggles, OTypeOK
<1>4. CASE UNCHANGED ovars
  BY <1>4 DEF ovars, OTypeOK
<1> QED BY <1>1, <1>2, <1>3, <1>4, ClaimType, DeliverType, TickType DEF ONext, Claim

\* The outbox, the goroutines and the history keep their shape.
THEOREM OTypeCorrect == OSpec => []OTypeOK
BY OTypeInit, OTypeStep, PTL DEF OSpec

-----------------------------------------------------------------------------
(* What a row's end means. *)

\* Goroutines know no more attempts than their row; one that sent has reached
\* the recipient; one that gave up had no attempt left.
GoroutineInv ==
    \A d \in Dispatcher, a \in Alert :
        /\ work[d][a].at # "none" => work[d][a].attempts <= outbox[a].attempts
        /\ work[d][a].at = "sent" => a \in received
        /\ work[d][a].at = "gaveup" => work[d][a].attempts >= MaxAttempts

EndInv == GoroutineInv /\ LeavesOnlyWhenDone /\ HistoryHonest

LEMMA EndInit == OInit => EndInv
BY DEF OInit, NoWork, EndInv, GoroutineInv, LeavesOnlyWhenDone, HistoryHonest

LEMMA FailedKeeps ==
    ASSUME NEW w \in Goroutine, NEW n \in Nat, w.attempts <= n
    PROVE  /\ Failed(w).at # "none" => Failed(w).attempts <= n
           /\ Failed(w).at # "sent"
           /\ Failed(w).at = "gaveup" => Failed(w).attempts >= MaxAttempts
BY DEF Failed, NoWork, Goroutine

\* Attempts never go down and nothing received is forgotten.
LEMMA EndMonotone ==
    ASSUME EndInv, OTypeOK, OTypeOK', UNCHANGED history, received \subseteq received',
           \A a \in Alert : /\ outbox[a].attempts <= outbox'[a].attempts
                            /\ outbox'[a].state = "gone" => outbox[a].state = "gone"
    PROVE  LeavesOnlyWhenDone' /\ HistoryHonest'
<1>1. \A a \in Alert : outbox[a].attempts \in Nat /\ outbox'[a].attempts \in Nat
  BY DEF OTypeOK, OutboxRow
<1> QED BY <1>1, OutboxAssumption DEF EndInv, LeavesOnlyWhenDone, HistoryHonest

LEMMA EndClaim ==
    ASSUME EndInv, OTypeOK, OTypeOK', NEW d \in Dispatcher, NEW S \in SUBSET Alert,
           ClaimOutboxAlerts(d, S)
    PROVE  EndInv'
<1>1. \A a \in Alert : /\ outbox[a] \in OutboxRow
                       /\ outbox'[a].attempts =
                             IF a \in S THEN Counted(outbox[a].attempts) ELSE outbox[a].attempts
                       /\ outbox'[a].state = outbox[a].state
  BY DEF ClaimOutboxAlerts, OTypeOK, OutboxRow
<1>2. \A a \in Alert : outbox[a].attempts <= outbox'[a].attempts
  BY <1>1, CountedType DEF OutboxRow
<1>3. LeavesOnlyWhenDone' /\ HistoryHonest'
  BY <1>1, <1>2, EndMonotone DEF ClaimOutboxAlerts
<1>4. ASSUME NEW e \in Dispatcher, NEW a \in Alert
      PROVE  /\ work'[e][a].at # "none" => work'[e][a].attempts <= outbox'[a].attempts
             /\ work'[e][a].at = "sent" => a \in received'
             /\ work'[e][a].at = "gaveup" => work'[e][a].attempts >= MaxAttempts
  <2>1. CASE e = d
    <3>1. work'[d][a] = IF a \in S
                        THEN [at |-> "claimed", attempts |-> Counted(outbox[a].attempts),
                              left |-> 0]
                        ELSE NoWork
      BY DEF ClaimOutboxAlerts, OTypeOK
    <3>2. outbox'[a].attempts \in Nat
      BY DEF OTypeOK, OutboxRow
    <3> QED BY <1>1, <2>1, <3>1, <3>2 DEF NoWork
  <2>2. CASE e # d
    <3>1. work'[e][a] = work[e][a] /\ received' = received
      BY <2>2 DEF ClaimOutboxAlerts, OTypeOK
    <3>2. /\ work[e][a].attempts \in Nat
          /\ outbox[a].attempts \in Nat /\ outbox'[a].attempts \in Nat
      BY DEF OTypeOK, OutboxRow, Goroutine
    <3> QED BY <1>2, <3>1, <3>2 DEF EndInv, GoroutineInv
  <2> QED BY <2>1, <2>2
<1> QED BY <1>3, <1>4 DEF EndInv, GoroutineInv

LEMMA EndDeliver ==
    ASSUME EndInv, OTypeOK, OTypeOK', NEW d \in Dispatcher, NEW a \in Alert, Deliver(d, a)
    PROVE  EndInv'
<1>0. /\ work[d][a] \in Goroutine
      /\ work \in [Dispatcher -> [Alert -> Goroutine]]
      /\ \A b \in Alert : outbox[b].attempts \in Nat
  BY DEF OTypeOK, OutboxRow
<1>1. received \subseteq received' /\ \A b \in Alert : outbox'[b].attempts = outbox[b].attempts
  BY DEF Deliver, StartSend, StartTooLate, SendSucceeds, SendFails, SendUnanswered,
         finalize, FinalizeFails, OTypeOK, OutboxRow
<1>2. PICK w \in Goroutine :
          /\ Becomes(d, a, w)
          /\ w.at # "none" => w.attempts <= outbox[a].attempts
          /\ w.at = "sent" => a \in received'
          /\ w.at = "gaveup" => w.attempts >= MaxAttempts
  <2>1. work[d][a].at # "none" => work[d][a].attempts <= outbox[a].attempts
    BY DEF EndInv, GoroutineInv
  <2>2. CASE StartSend(d, a)
    <3> DEFINE w == [work[d][a] EXCEPT !.at = "sending", !.left = SendTimeout]
    <3>1. w \in Goroutine /\ w.at = "sending" /\ w.attempts = work[d][a].attempts
      BY <1>0, OutboxAssumption DEF Goroutine
    <3>2. Becomes(d, a, w) /\ work[d][a].at = "claimed"
      BY <2>2 DEF StartSend
    <3> HIDE DEF w
    <3> QED BY <2>1, <3>1, <3>2
  <2>3. CASE StartTooLate(d, a) \/ SendFails(d, a) \/ SendUnanswered(d, a)
    <3>1. Becomes(d, a, Failed(work[d][a])) /\ work[d][a].at # "none"
      BY <2>3 DEF StartTooLate, SendFails, SendUnanswered
    <3> QED BY <1>0, <2>1, <3>1, FailedKeeps, FailedType
  <2>4. CASE SendSucceeds(d, a)
    <3> DEFINE w == [work[d][a] EXCEPT !.at = "sent", !.left = 0]
    <3>1. w \in Goroutine /\ w.at = "sent" /\ w.attempts = work[d][a].attempts
      BY <1>0 DEF Goroutine
    <3>2. Becomes(d, a, w) /\ work[d][a].at = "sending" /\ a \in received'
      BY <2>4 DEF SendSucceeds
    <3> HIDE DEF w
    <3> QED BY <2>1, <3>1, <3>2
  <2>5. CASE finalize(d, a) \/ FinalizeFails(d, a)
    <3>1. Becomes(d, a, NoWork) /\ NoWork.at = "none"
      BY <2>5 DEF finalize, FinalizeFails, NoWork
    <3> QED BY <3>1, NoWorkType
  <2> QED BY <2>2, <2>3, <2>4, <2>5 DEF Deliver
<1>3. GoroutineInv'
  <2> SUFFICES ASSUME NEW e \in Dispatcher, NEW b \in Alert
               PROVE  /\ work'[e][b].at # "none" => work'[e][b].attempts <= outbox'[b].attempts
                      /\ work'[e][b].at = "sent" => b \in received'
                      /\ work'[e][b].at = "gaveup" => work'[e][b].attempts >= MaxAttempts
    BY DEF GoroutineInv
  <2>1. work'[e][b] = IF e = d /\ b = a THEN w ELSE work[e][b]
    BY <1>0, <1>2 DEF Becomes
  <2> QED BY <1>1, <1>2, <2>1 DEF EndInv, GoroutineInv
<1>4. LeavesOnlyWhenDone' /\ HistoryHonest'
  <2>1. CASE finalize(d, a) /\ outbox[a].state # "dropped"
    <3>1. \A b \in Alert : b # a => outbox'[b] = outbox[b] /\ history'[b] = history[b]
      BY <2>1 DEF finalize, OTypeOK
    <3>2. work[d][a].at = "gaveup" => outbox[a].attempts >= MaxAttempts
      BY <1>0, OutboxAssumption DEF EndInv, GoroutineInv, Goroutine
    <3>3. work[d][a].at = "sent" => a \in received
      BY DEF EndInv, GoroutineInv
    <3>4. /\ history'[a] = IF a \in Recipient THEN history[a]
                           ELSE history[a] \cup {Outcome(work[d][a])}
          /\ work[d][a].at \in {"sent", "gaveup"} /\ received' = received
      BY <2>1 DEF finalize, OTypeOK
    <3>5. LeavesOnlyWhenDone'
      BY <1>1, <3>1, <3>2, <3>3, <3>4 DEF EndInv, LeavesOnlyWhenDone
    <3>6. HistoryHonest'
      BY <1>1, <3>1, <3>2, <3>3, <3>4 DEF EndInv, HistoryHonest, Outcome
    <3> QED BY <3>5, <3>6
  <2>2. CASE ~(finalize(d, a) /\ outbox[a].state # "dropped")
    <3>1. UNCHANGED <<outbox, history>>
      BY <2>2 DEF Deliver, StartSend, StartTooLate, SendSucceeds, SendFails,
                  SendUnanswered, finalize, FinalizeFails
    <3> QED BY <1>0, <1>1, <3>1, EndMonotone
  <2> QED BY <2>1, <2>2
<1> QED BY <1>3, <1>4 DEF EndInv

LEMMA EndOther ==
    ASSUME EndInv, OTypeOK, OTypeOK',
           \/ \E a \in Alert : enqueue_monitor_alerts(a) \/ DeleteChannel(a)
           \/ \E d \in Dispatcher : Crash(d)
           \/ ProviderToggles
           \/ Tick
           \/ UNCHANGED ovars
    PROVE  EndInv'
<1>0. UNCHANGED <<received, history>>
  BY DEF enqueue_monitor_alerts, DeleteChannel, Crash, ProviderToggles, Tick, TimePasses, ovars
<1>1. \A a \in Alert : /\ outbox'[a].attempts = outbox[a].attempts
                       /\ outbox'[a].state = "gone" => outbox[a].state = "gone"
  <2>1. CASE \E a \in Alert : enqueue_monitor_alerts(a) \/ DeleteChannel(a)
    BY <2>1 DEF enqueue_monitor_alerts, DeleteChannel, OTypeOK, OutboxRow
  <2>2. CASE Tick
    <3>1. \A a \in Alert : /\ outbox[a] \in OutboxRow
                           /\ outbox'[a] = [outbox[a] EXCEPT !.wait = Less(@)]
      BY <2>2 DEF Tick, TimePasses, OTypeOK
    <3> QED BY <3>1 DEF OutboxRow
  <2>3. CASE UNCHANGED outbox
    BY <2>3
  <2> QED BY <2>1, <2>2, <2>3 DEF Crash, ProviderToggles, ovars
<1>2. \A d \in Dispatcher, a \in Alert :
          work'[d][a].at = "none" \/ /\ work'[d][a].at = work[d][a].at
                                     /\ work'[d][a].attempts = work[d][a].attempts
  <2>1. CASE \E d \in Dispatcher : Crash(d)
    BY <2>1 DEF Crash, OTypeOK, NoWork
  <2>2. CASE Tick
    <3> SUFFICES ASSUME NEW d \in Dispatcher, NEW a \in Alert
                 PROVE  /\ work'[d][a].at = work[d][a].at
                        /\ work'[d][a].attempts = work[d][a].attempts
      OBVIOUS
    <3>1. /\ work[d][a] \in Goroutine
          /\ work'[d][a] = [work[d][a] EXCEPT !.left = Less(@)]
      BY <2>2 DEF Tick, TimePasses, OTypeOK
    <3> QED BY <3>1 DEF Goroutine
  <2>3. CASE UNCHANGED work
    BY <2>3
  <2> QED BY <2>1, <2>2, <2>3 DEF enqueue_monitor_alerts, DeleteChannel, ProviderToggles, ovars
<1>3. LeavesOnlyWhenDone' /\ HistoryHonest'
  <2>1. \A a \in Alert : outbox[a].attempts <= outbox'[a].attempts
    BY <1>1 DEF OTypeOK, OutboxRow
  <2> QED BY <1>0, <1>1, <2>1, EndMonotone
<1>4. GoroutineInv'
  BY <1>0, <1>1, <1>2 DEF EndInv, GoroutineInv
<1> QED BY <1>3, <1>4 DEF EndInv

LEMMA EndStep == EndInv /\ OTypeOK /\ [ONext]_ovars => EndInv'
<1> SUFFICES ASSUME EndInv, OTypeOK, [ONext]_ovars PROVE EndInv'
  OBVIOUS
<1>1. OTypeOK'
  BY OTypeStep
<1> QED BY <1>1, EndClaim, EndDeliver, EndOther DEF ONext, Claim

\* Whatever crashes, times out or is claimed twice, a row leaves the outbox
\* only when its alert arrived or its attempts were used up.
THEOREM LeavesCorrect == OSpec => []LeavesOnlyWhenDone
<1>1. EndInv => LeavesOnlyWhenDone
  BY DEF EndInv
<1> QED BY <1>1, EndInit, EndStep, OTypeCorrect, PTL DEF OSpec

\* alert_history never misreports how a row ended.
THEOREM HistoryCorrect == OSpec => []HistoryHonest
<1>1. EndInv => HistoryHonest
  BY DEF EndInv
<1> QED BY <1>1, EndInit, EndStep, OTypeCorrect, PTL DEF OSpec

-----------------------------------------------------------------------------
(* The lease. *)

\* Dispatcher d is sending a, or may still start to.
Held(d, a) ==
    \/ work[d][a].at = "sending"
    \/ work[d][a].at = "claimed" /\ age[d] < BatchTimeout

\* The row d claimed does not come due before the lease of that claim ends.
Leased(d, a) ==
    \E n \in 0 .. MaxAttempts :
        /\ Counted(n) = work[d][a].attempts
        /\ \/ age[d] >= Backoff(n)
           \/ outbox[a].state = "queued" => outbox[a].wait + age[d] >= Backoff(n)

\* Whoever holds a row is within its lease or past it, and a row with two
\* holders is held by one that is past its own.
LeaseInv ==
    /\ \A a \in Alert : outbox[a].attempts <= MaxAttempts
    /\ \A d \in Dispatcher, a \in Alert :
           /\ outbox[a].state = "new" => work[d][a].at = "none"
           /\ Held(d, a) => Leased(d, a)
    /\ \A d, e \in Dispatcher, a \in Alert :
           Held(d, a) /\ Held(e, a) /\ d # e => PastLease(d, a) \/ PastLease(e, a)

LEMMA LeaseInit == OInit => LeaseInv
BY OutboxAssumption DEF OInit, LeaseInv, Held, NoWork

\* A step that only lets rows go, and neither makes a row due nor rejuvenates
\* a batch, keeps the leases.
LEMMA LeaseMonotone ==
    ASSUME LeaseInv, UNCHANGED age,
           \A a \in Alert :
               /\ outbox'[a].attempts = outbox[a].attempts
               /\ \/ outbox'[a] = outbox[a]
                  \/ outbox'[a].state \in {"gone", "dropped"}
                  \/ outbox'[a].state = "queued" /\ outbox[a].state = "new",
           \A d \in Dispatcher, a \in Alert :
               /\ Held(d, a)' => Held(d, a) /\ work'[d][a].attempts = work[d][a].attempts
               /\ work'[d][a].at # "none" => work[d][a].at # "none"
    PROVE  LeaseInv'
<1>1. ASSUME NEW d \in Dispatcher, NEW a \in Alert, Held(d, a)'
      PROVE  Leased(d, a)' /\ (PastLease(d, a) => PastLease(d, a)')
  <2>1. /\ Held(d, a) /\ Leased(d, a)
        /\ work'[d][a].attempts = work[d][a].attempts /\ age'[d] = age[d]
    BY <1>1 DEF LeaseInv
  <2>2. outbox'[a].state = "queued" => outbox'[a] = outbox[a]
    BY <2>1 DEF LeaseInv, Held
  <2>3. Leased(d, a)'
    BY <2>1, <2>2 DEF Leased
  <2>4. PastLease(d, a) => PastLease(d, a)'
    BY <2>1 DEF PastLease
  <2> QED BY <2>3, <2>4
<1>2. \A a \in Alert : outbox'[a].attempts <= MaxAttempts
  BY DEF LeaseInv
<1>3. \A d \in Dispatcher, a \in Alert : outbox'[a].state = "new" => work'[d][a].at = "none"
  BY DEF LeaseInv
<1>4. \A d, e \in Dispatcher, a \in Alert :
          Held(d, a)' /\ Held(e, a)' /\ d # e => PastLease(d, a)' \/ PastLease(e, a)'
  BY <1>1 DEF LeaseInv
<1> QED BY <1>1, <1>2, <1>3, <1>4 DEF LeaseInv

\* A claim takes rows whose other holders, if any, are past their leases.
LEMMA LeaseClaim ==
    ASSUME LeaseInv, OTypeOK, NEW e \in Dispatcher, NEW S \in SUBSET Alert,
           ClaimOutboxAlerts(e, S)
    PROVE  LeaseInv'
<1>1. \A a \in Alert : outbox[a] \in OutboxRow /\ outbox[a].attempts \in 0 .. MaxAttempts
  BY OutboxAssumption DEF OTypeOK, OutboxRow, LeaseInv
<1>2. \A a \in Alert :
          /\ outbox'[a].state = outbox[a].state
          /\ a \in S => /\ outbox[a].state = "queued" /\ outbox[a].wait <= 0
                        /\ outbox'[a].attempts = Counted(outbox[a].attempts)
                        /\ outbox'[a].wait = Backoff(outbox[a].attempts)
          /\ a \notin S => outbox'[a] = outbox[a]
  BY <1>1 DEF ClaimOutboxAlerts, Due, OutboxRow
<1>3. /\ age'[e] = 0
      /\ \A a \in Alert :
             /\ a \in S => /\ work'[e][a].at = "claimed"
                           /\ work'[e][a].attempts = Counted(outbox[a].attempts)
             /\ a \notin S => work'[e][a].at = "none"
      /\ \A d \in Dispatcher : d # e => age'[d] = age[d] /\ work'[d] = work[d]
  BY DEF ClaimOutboxAlerts, OTypeOK, NoWork
<1>4. \A d \in Dispatcher : age[d] \in Nat
  BY DEF OTypeOK
<1>5. \A a \in Alert : outbox'[a].attempts <= MaxAttempts
  BY <1>1, <1>2, OutboxAssumption DEF Counted
<1>6. \A d \in Dispatcher, a \in Alert : outbox'[a].state = "new" => work'[d][a].at = "none"
  <2> SUFFICES ASSUME NEW d \in Dispatcher, NEW a \in Alert, outbox'[a].state = "new"
               PROVE  work'[d][a].at = "none"
    OBVIOUS
  <2>1. a \notin S /\ outbox[a].state = "new"
    BY <1>2
  <2> QED BY <1>3, <2>1 DEF LeaseInv
<1>7. \A d \in Dispatcher, a \in Alert : Held(d, a)' => (d # e /\ Held(d, a)) \/ (d = e /\ a \in S)
  BY <1>3 DEF Held
<1>8. ASSUME NEW d \in Dispatcher, NEW a \in S, d # e, Held(d, a)
      PROVE  PastLease(d, a)
  <2>1. PICK n \in 0 .. MaxAttempts :
            /\ Counted(n) = work[d][a].attempts
            /\ \/ age[d] >= Backoff(n)
               \/ outbox[a].state = "queued" => outbox[a].wait + age[d] >= Backoff(n)
    BY <1>8 DEF LeaseInv, Leased
  <2>2. outbox[a].state = "queued" /\ outbox[a].wait <= 0 /\ outbox[a].wait \in Int
    BY <1>1, <1>2 DEF OutboxRow
  <2>3. Backoff(n) \in Int /\ age[d] \in Int
    BY <1>4, BackoffType
  <2>4. age[d] >= Backoff(n)
    BY <2>1, <2>2, <2>3
  <2> QED BY <2>1, <2>4 DEF PastLease
<1>9. \A d \in Dispatcher, a \in Alert : d # e /\ PastLease(d, a) => PastLease(d, a)'
  BY <1>3 DEF PastLease
<1>10. ASSUME NEW d \in Dispatcher, NEW a \in Alert, Held(d, a)'
       PROVE  Leased(d, a)'
  <2>1. CASE d = e
    <3>1. a \in S
      BY <1>7, <1>10, <2>1
    <3> DEFINE n == outbox[a].attempts
    <3>2. n \in 0 .. MaxAttempts /\ Backoff(n) \in Int
      BY <1>1, BackoffType, OutboxAssumption
    <3>3. /\ Counted(n) = work'[d][a].attempts
          /\ outbox'[a].wait + age'[d] >= Backoff(n)
      BY <1>2, <1>3, <2>1, <3>1, <3>2
    <3> HIDE DEF n
    <3> QED BY <3>2, <3>3 DEF Leased
  <2>2. CASE d # e
    <3>1. Held(d, a) /\ Leased(d, a)
      BY <1>7, <1>10, <2>2 DEF LeaseInv
    <3>2. CASE a \in S
      <4>1. PICK n \in 0 .. MaxAttempts :
                Counted(n) = work[d][a].attempts /\ age[d] >= Backoff(n)
        BY <1>8, <2>2, <3>1, <3>2 DEF PastLease
      <4>2. Counted(n) = work'[d][a].attempts /\ age'[d] >= Backoff(n)
        BY <1>3, <2>2, <4>1
      <4> QED BY <4>2 DEF Leased
    <3>3. CASE a \notin S
      BY <1>2, <1>3, <2>2, <3>1, <3>3 DEF Leased
    <3> QED BY <3>2, <3>3
  <2> QED BY <2>1, <2>2
<1>11. ASSUME NEW d \in Dispatcher, NEW f \in Dispatcher, NEW a \in Alert,
              Held(d, a)', Held(f, a)', d # f
       PROVE  PastLease(d, a)' \/ PastLease(f, a)'
  <2>1. CASE d = e
    BY <1>7, <1>8, <1>9, <1>11, <2>1
  <2>2. CASE f = e
    BY <1>7, <1>8, <1>9, <1>11, <2>2
  <2>3. CASE d # e /\ f # e
    BY <1>7, <1>9, <1>11, <2>3 DEF LeaseInv
  <2> QED BY <2>1, <2>2, <2>3
<1> QED BY <1>5, <1>6, <1>10, <1>11 DEF LeaseInv

LEMMA LeaseDeliver ==
    ASSUME LeaseInv, OTypeOK, NEW d \in Dispatcher, NEW a \in Alert, Deliver(d, a)
    PROVE  LeaseInv'
<1>1. UNCHANGED age
  BY DEF Deliver, StartSend, StartTooLate, SendSucceeds, SendFails, SendUnanswered,
         finalize, FinalizeFails
<1>2. \A b \in Alert :
          /\ outbox'[b].attempts = outbox[b].attempts
          /\ outbox'[b] = outbox[b] \/ outbox'[b].state \in {"gone", "dropped"}
  <2>1. CASE finalize(d, a)
    BY <2>1 DEF finalize, OTypeOK, OutboxRow
  <2>2. CASE ~finalize(d, a)
    BY <2>2 DEF Deliver, StartSend, StartTooLate, SendSucceeds, SendFails,
                SendUnanswered, FinalizeFails
  <2> QED BY <2>1, <2>2
<1>3. \E w : /\ Becomes(d, a, w)
             /\ work[d][a].at # "none"
             /\ w.at = "sending" => Held(d, a) /\ w.attempts = work[d][a].attempts
             /\ w.at # "claimed"
  <2>0. work[d][a] \in Goroutine
    BY DEF OTypeOK
  <2>1. CASE StartSend(d, a)
    <3> DEFINE w == [work[d][a] EXCEPT !.at = "sending", !.left = SendTimeout]
    <3>1. w.at = "sending" /\ w.attempts = work[d][a].attempts
      BY <2>0 DEF Goroutine
    <3>2. Becomes(d, a, w) /\ work[d][a].at = "claimed" /\ Held(d, a)
      BY <2>1 DEF StartSend, Held
    <3> HIDE DEF w
    <3> QED BY <3>1, <3>2
  <2>2. CASE StartTooLate(d, a) \/ SendFails(d, a) \/ SendUnanswered(d, a)
    <3>1. Becomes(d, a, Failed(work[d][a])) /\ work[d][a].at # "none"
      BY <2>2 DEF StartTooLate, SendFails, SendUnanswered
    <3>2. Failed(work[d][a]).at \in {"none", "gaveup"}
      BY <2>0 DEF Failed, NoWork, Goroutine
    <3> QED BY <3>1, <3>2
  <2>3. CASE SendSucceeds(d, a)
    <3> DEFINE w == [work[d][a] EXCEPT !.at = "sent", !.left = 0]
    <3>1. w.at = "sent"
      BY <2>0 DEF Goroutine
    <3>2. Becomes(d, a, w) /\ work[d][a].at = "sending"
      BY <2>3 DEF SendSucceeds
    <3> HIDE DEF w
    <3> QED BY <3>1, <3>2
  <2>4. CASE finalize(d, a) \/ FinalizeFails(d, a)
    <3>1. Becomes(d, a, NoWork) /\ NoWork.at = "none" /\ work[d][a].at # "none"
      BY <2>4 DEF finalize, FinalizeFails, NoWork
    <3> QED BY <3>1
  <2> QED BY <2>1, <2>2, <2>3, <2>4 DEF Deliver
<1>4. \A e \in Dispatcher, b \in Alert :
          /\ Held(e, b)' => Held(e, b) /\ work'[e][b].attempts = work[e][b].attempts
          /\ work'[e][b].at # "none" => work[e][b].at # "none"
  <2> SUFFICES ASSUME NEW e \in Dispatcher, NEW b \in Alert
               PROVE  /\ Held(e, b)' =>
                             Held(e, b) /\ work'[e][b].attempts = work[e][b].attempts
                      /\ work'[e][b].at # "none" => work[e][b].at # "none"
    OBVIOUS
  <2>1. PICK w : /\ Becomes(d, a, w)
                 /\ work[d][a].at # "none"
                 /\ w.at = "sending" => Held(d, a) /\ w.attempts = work[d][a].attempts
                 /\ w.at # "claimed"
    BY <1>3
  <2>2. work'[e][b] = IF e = d /\ b = a THEN w ELSE work[e][b]
    BY <2>1 DEF Becomes, OTypeOK
  <2> QED BY <1>1, <2>1, <2>2 DEF Held
<1> QED BY <1>1, <1>2, <1>4, LeaseMonotone

LEMMA LeaseTick == LeaseInv /\ OTypeOK /\ Tick => LeaseInv'
<1> SUFFICES ASSUME LeaseInv, OTypeOK, Tick PROVE LeaseInv'
  OBVIOUS
<1>1. \A d \in Dispatcher, a \in Alert : /\ work'[d][a].at = work[d][a].at
                                         /\ work'[d][a].attempts = work[d][a].attempts
  <2> SUFFICES ASSUME NEW d \in Dispatcher, NEW a \in Alert
               PROVE  /\ work'[d][a].at = work[d][a].at
                      /\ work'[d][a].attempts = work[d][a].attempts
    OBVIOUS
  <2>1. /\ work[d][a] \in Goroutine
        /\ work'[d][a] = [work[d][a] EXCEPT !.left = Less(@)]
    BY DEF Tick, TimePasses, OTypeOK
  <2> QED BY <2>1 DEF Goroutine
<1>2. \A d \in Dispatcher : age[d] \in Nat
  BY DEF OTypeOK
<1>3. \A d \in Dispatcher, a \in Alert : Held(d, a)' => Held(d, a) /\ age'[d] = age[d] + 1
  <2> SUFFICES ASSUME NEW d \in Dispatcher, NEW a \in Alert, Held(d, a)'
               PROVE  Held(d, a) /\ age'[d] = age[d] + 1
    OBVIOUS
  <2>1. ~Idle(d)
    BY <1>1 DEF Held, Idle
  <2>2. age'[d] = IF age[d] < BatchTimeout THEN age[d] + 1 ELSE age[d]
    BY <2>1 DEF Tick, TimePasses
  <2> QED BY <1>1, <1>2, <2>2, OutboxAssumption DEF Held, Tick, TimePasses
<1>4. \A a \in Alert : /\ outbox[a].wait \in Int
                       /\ outbox'[a].wait = Less(outbox[a].wait)
                       /\ outbox'[a].state = outbox[a].state
                       /\ outbox'[a].attempts = outbox[a].attempts
  <2> SUFFICES ASSUME NEW a \in Alert
               PROVE  /\ outbox[a].wait \in Int
                      /\ outbox'[a].wait = Less(outbox[a].wait)
                      /\ outbox'[a].state = outbox[a].state
                      /\ outbox'[a].attempts = outbox[a].attempts
    OBVIOUS
  <2>1. outbox[a] \in OutboxRow /\ outbox'[a] = [outbox[a] EXCEPT !.wait = Less(@)]
    BY DEF Tick, TimePasses, OTypeOK
  <2> QED BY <2>1 DEF OutboxRow
<1>5. \A n \in 0 .. MaxAttempts : Backoff(n) \in Int
  BY BackoffType, OutboxAssumption
<1>6. ASSUME NEW d \in Dispatcher, NEW a \in Alert, Held(d, a)'
      PROVE  Leased(d, a)' /\ (PastLease(d, a) => PastLease(d, a)')
  <2>1. /\ Leased(d, a) /\ age'[d] = age[d] + 1 /\ age[d] \in Nat
        /\ work'[d][a].attempts = work[d][a].attempts
    BY <1>1, <1>2, <1>3, <1>6 DEF LeaseInv
  <2>2. PastLease(d, a) => PastLease(d, a)'
    BY <1>5, <2>1 DEF PastLease
  <2>3. PICK n \in 0 .. MaxAttempts :
            /\ Counted(n) = work[d][a].attempts
            /\ \/ age[d] >= Backoff(n)
               \/ outbox[a].state = "queued" => outbox[a].wait + age[d] >= Backoff(n)
    BY <2>1 DEF Leased
  <2>4. \/ age'[d] >= Backoff(n)
        \/ outbox'[a].state = "queued" => outbox'[a].wait + age'[d] >= Backoff(n)
    BY <1>4, <1>5, <2>1, <2>3 DEF Less
  <2>5. Counted(n) = work'[d][a].attempts
    BY <2>1, <2>3
  <2> QED BY <2>2, <2>4, <2>5 DEF Leased
<1>7. \A a \in Alert : outbox'[a].attempts <= MaxAttempts
  BY <1>4 DEF LeaseInv
<1>8. \A d \in Dispatcher, a \in Alert : outbox'[a].state = "new" => work'[d][a].at = "none"
  BY <1>1, <1>4 DEF LeaseInv
<1>9. \A d, e \in Dispatcher, a \in Alert :
          Held(d, a)' /\ Held(e, a)' /\ d # e => PastLease(d, a)' \/ PastLease(e, a)'
  BY <1>3, <1>6 DEF LeaseInv
<1> QED BY <1>6, <1>7, <1>8, <1>9 DEF LeaseInv

LEMMA LeaseOther ==
    ASSUME LeaseInv, OTypeOK,
           \/ \E a \in Alert : enqueue_monitor_alerts(a) \/ DeleteChannel(a)
           \/ \E d \in Dispatcher : Crash(d)
           \/ ProviderToggles
           \/ UNCHANGED ovars
    PROVE  LeaseInv'
<1>1. UNCHANGED age
  BY DEF enqueue_monitor_alerts, DeleteChannel, Crash, ProviderToggles, ovars
<1>2. \A a \in Alert : /\ outbox'[a].attempts = outbox[a].attempts
                       /\ \/ outbox'[a] = outbox[a]
                          \/ outbox'[a].state \in {"gone", "dropped"}
                          \/ outbox'[a].state = "queued" /\ outbox[a].state = "new"
  BY DEF enqueue_monitor_alerts, DeleteChannel, Crash, ProviderToggles, ovars,
         OTypeOK, OutboxRow
<1>3. \A d \in Dispatcher, a \in Alert : work'[d][a] = work[d][a] \/ work'[d][a].at = "none"
  BY DEF enqueue_monitor_alerts, DeleteChannel, Crash, ProviderToggles, ovars,
         OTypeOK, NoWork
<1>4. \A d \in Dispatcher, a \in Alert :
          /\ Held(d, a)' => Held(d, a) /\ work'[d][a].attempts = work[d][a].attempts
          /\ work'[d][a].at # "none" => work[d][a].at # "none"
  BY <1>1, <1>3 DEF Held
<1> QED BY <1>1, <1>2, <1>4, LeaseMonotone

\* Two dispatchers send the same alert at once only when one of them has
\* outlived the lease of its own claim, however many dispatchers there are,
\* whatever the leases and deadlines, and whatever crashes or fails
\* (ClaimOutboxAlerts and dispatchBatch).  The run outbox_double_send shows
\* that with the code's own constants some do outlive it.
THEOREM LeaseCorrect == OSpec => []LeaseHolds
<1>1. LeaseInv /\ OTypeOK /\ [ONext]_ovars => LeaseInv'
  <2> SUFFICES ASSUME LeaseInv, OTypeOK, [ONext]_ovars PROVE LeaseInv'
    OBVIOUS
  <2>1. ASSUME NEW d \in Dispatcher, Claim(d) PROVE LeaseInv'
    BY <2>1, LeaseClaim DEF Claim
  <2> QED BY <2>1, LeaseDeliver, LeaseTick, LeaseOther DEF ONext
<1>2. LeaseInv => LeaseHolds
  BY DEF LeaseInv, Held, LeaseHolds
<1> QED BY <1>1, <1>2, LeaseInit, OTypeCorrect, PTL DEF OSpec
=============================================================================
