-------------------------- MODULE MCIncidentQuorum --------------------------
\* Instances of IncidentQuorum and its scenarios for TLC.
EXTENDS QuorumScenarios, TLC

CONSTANTS r1, r2, r3, w1, w2, w3

OnePool    == w2 :> r2
TwoPools   == (w1 :> r1) @@ (w2 :> r2)
ThreePools == (w1 :> r1) @@ (w2 :> r2) @@ (w3 :> r3)
=============================================================================
