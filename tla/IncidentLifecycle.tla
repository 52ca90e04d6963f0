-------------------------- MODULE IncidentLifecycle --------------------------
(***************************************************************************)
(* What one monitor's incidents and alerts promise to whoever is notified, *)
(* with every detail of regions, quorums and confirmation requests left    *)
(* out.  A monitor has at most one open incident.  It opens as DEGRADED or *)
(* DOWN, may only escalate, and resolves.  Each of these transitions, and  *)
(* nothing else, may put an alert in the outbox; a transition that happens *)
(* while the monitor is muted (a maintenance window, or no destination     *)
(* enabled) leaves the subscribers with what they heard last.              *)
(*                                                                         *)
(* IncidentQuorum implements this specification.                           *)
(***************************************************************************)

VARIABLES
    incident,   \* "none", or the status of the open incident
    told,       \* the status carried by the last alert enqueued
    unheard     \* the last transition enqueued no alert

lvars == <<incident, told, unheard>>

Status == {"UP", "DEGRADED", "DOWN"}
Unwell == {"DEGRADED", "DOWN"}

\* The status an alert carries for each incident state.
AlertOf(i) == IF i = "none" THEN "UP" ELSE i

LTypeOK ==
    /\ incident \in Unwell \cup {"none"}
    /\ told \in Status
    /\ unheard \in BOOLEAN

LInit ==
    /\ incident = "none"
    /\ told = "UP"
    /\ unheard = FALSE

\* The transition is announced, or silently swallowed.
Announce ==
    \/ /\ told' = AlertOf(incident')
       /\ unheard' = FALSE
    \/ /\ told' = told
       /\ unheard' = TRUE

Open ==
    /\ incident = "none"
    /\ incident' \in Unwell
    /\ Announce

Escalate ==
    /\ incident = "DEGRADED"
    /\ incident' = "DOWN"
    /\ Announce

Resolve ==
    /\ incident \in Unwell
    /\ incident' = "none"
    /\ Announce

LNext == Open \/ Escalate \/ Resolve

LSpec == LInit /\ [][LNext]_lvars
=============================================================================
