----------------------------- MODULE MCWorkspace -----------------------------
EXTENDS Workspace, TLC

CONSTANTS u1, u2, u3, o1, o2, i1, i2, c1, c2, m1, m2, q1, q2

Caps == [p \in Plan |-> IF p = "FREE" THEN 1 ELSE 2]

Interchangeable ==
    UNION {Permutations(S) :
              S \in {Payer, User \ Payer, Org, Inv, Contact, Monitor, Req}}

\* Bound: either there are two organizations and two invitations but neither
\* monitors nor recipients, or one of each and monitors or recipients.
Narrow ==
    \/ usedMons = {} /\ recipients = {}
    \/ /\ Cardinality(usedOrgs) <= 1
       /\ Cardinality(usedInvs) <= 1
       /\ usedMons = {} \/ recipients = {}

MCNext == WNext /\ Narrow'

MCSpec == WInit /\ [][MCNext]_wvars
=============================================================================
