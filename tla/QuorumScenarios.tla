-------------------------- MODULE QuorumScenarios --------------------------
(***************************************************************************)
(* IncidentQuorum under stated assumptions on the platform, to ask what    *)
(* the cross-region confirmation achieves when those assumptions hold.     *)
(*                                                                         *)
(*  - HealthySpec: every pool heartbeats in time, every confirmation is    *)
(*    claimed, run and recorded within the time unit it was asked in, and  *)
(*    the owner neither pauses nor deletes the monitor.                    *)
(*  - PromptSpec: confirmations may hang or fail, pools may come and go;   *)
(*    only the polling loops keep turning (they wake every 2 seconds, a    *)
(*    time unit stands for a minute).                                      *)
(***************************************************************************)
EXTENDS IncidentQuorum

(* A healthy platform. *)

Answered == (\A r \in Region : ~request[r].asked) /\ (\A w \in Worker : pc[w] = "idle")

HealthyTick ==
    /\ Answered
    /\ heartbeat' = [r \in Region |-> 0]
    /\ TimePasses

HealthyInit == Init /\ heartbeat = [r \in Region |-> 0]

HealthyNext == HealthyTick \/ Check \/ Beat \/ Verify \/ Sweep \/ Edit
               \/ ToggleAudible \/ ToggleOutage

HealthySpec == HealthyInit /\ [][HealthyNext]_vars

\* On a healthy platform, failures that one region alone sees never open an
\* incident, however often it fails, however the monitor's region list is
\* edited meanwhile and however stale the other regions' reports get: the
\* other active regions are asked again, and count until they answer
\* (record_region_check's fan-out with evaluate_monitor_quorum's pending).
BlipNeverAlerts == incident = "none"

\* One region sees failures of its own, the target never fails, and there is
\* some other region to ask.
LoneFlaky == ~CanFail /\ \E f \in Region : Flaky = {f} /\ Region # {f}

\* Why no blip alerts: only the flaky region ever reports a failure, it is
\* never asked to confirm one, and no question outlives its time unit.
BlipInv ==
    /\ incident = "none"
    /\ monitor = "enabled" /\ ~outage
    /\ \A r \in Region : heartbeat[r] = 0
    /\ \A r \in Region \ Flaky : row[r].status \in {"none", "UP"}
    /\ \A r \in Flaky : ~request[r].asked
    /\ \A r \in Region : request[r].asked => request[r].left = RequestTTL
    /\ \A w \in Worker : pc[w] # "evaluate"
    /\ \A w \in Worker : pc[w] = "verify" => RegionOf[w] \notin Flaky

\* An incident resolves only once some region has reported the target up
\* (the incident "resolves when the monitor recovers").
ResolvesOnlyOnRecovery ==
    [][incident # "none" /\ incident' = "none" =>
           \E r \in Region : row[r].status = "UP" \/ row'[r].status = "UP"]_vars

-----------------------------------------------------------------------------
(* Polling loops that keep turning, confirmations that may not come. *)

PromptTick ==
    /\ Expired = {}
    /\ \A w \in Worker : pc[w] # "evaluate"
    /\ Tick

PromptNext == PromptTick \/ Check \/ Beat \/ Verify \/ Sweep \/ ToggleOutage
              \/ \E w \in Worker : Abandon(w)

PromptFairness ==
    /\ WF_vars(PromptTick)
    /\ \A r \in Region : WF_vars(runCheck(r))
    /\ \A w \in Worker :
           /\ WF_vars(ClaimVerificationRequests(w))
           /\ WF_vars(verify(w) \/ complete(w) \/ Abandon(w))
           /\ WF_vars(ExpireVerificationRequests(w))
           /\ WF_vars(EvaluateMonitorQuorum(w))

PromptSpec == Init /\ [][PromptNext]_vars /\ PromptFairness

\* A target that stays down is alerted on, even if no other region ever
\* manages to confirm: requests expire and the sweep decides without them
\* (sweepExpired).
Detected == <>[]outage => []<>(incident # "none")

\* A target that stays up ends with no incident open: confirmations age out
\* and a scheduled check re-evaluates (evaluate_monitor_quorum).
Recovered == <>[]~outage => <>[](incident = "none")

============================================================================
