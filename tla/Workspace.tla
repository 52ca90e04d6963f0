------------------------------ MODULE Workspace ------------------------------
(***************************************************************************)
(* Organizations, their members, invitations and alert recipients, and the *)
(* monitors of personal and organization workspaces.                       *)
(*                                                                         *)
(* Requests run concurrently in the slots of Req.  A handler first checks  *)
(* (the caller's role, the plan, what already exists, how many seats are   *)
(* taken) and writes in a later step, when any of that may have changed;   *)
(* the reads a handler makes in a row are one step.  What holds at the     *)
(* time of the write is enforced by the database: a transaction that looks *)
(* again under a lock, a unique index, a foreign key, a WHERE clause.      *)
(*                                                                         *)
(* Accounts are identified with their e-mail addresses.  A subscription is *)
(* seen only through the plan it grants, which changes at any time; PRO    *)
(* has no organizations and is left out.                                   *)
(***************************************************************************)
EXTENDS Integers, FiniteSets

CONSTANTS
    User,                   \* accounts
    Payer,                  \* the accounts that ever subscribe
    Org,                    \* ids of organizations; an id is used once
    Inv,                    \* ids of invitations; an id is used once
    Contact,                \* addresses of alert recipients
    Monitor,                \* ids of monitors; an id is used once
    Req,                    \* slots for requests in progress
    Granted,                \* the roles that are given to members
    Faults,                 \* may reads of the database fail?
    Personal,               \* the workspace outside any organization
    MaxLoginSeats,          \* ENTERPRISE's cap; FREE has none
    MaxAlertRecipients,     \* ENTERPRISE's cap; FREE has none
    MaxMonitors             \* the cap of each plan

Plan == {"FREE", "ENTERPRISE"}
Role == {"OWNER", "ADMIN", "MEMBER", "VIEWER"}

ASSUME WorkspaceAssumption ==
    /\ IsFiniteSet(User) /\ IsFiniteSet(Contact) /\ IsFiniteSet(Inv)
    /\ IsFiniteSet(Monitor) /\ IsFiniteSet(Req)
    /\ Req # {} /\ Payer \subseteq User
    /\ Faults \in BOOLEAN
    /\ Personal \notin Org
    /\ Granted \subseteq Role \ {"OWNER"}
    /\ MaxLoginSeats \in Nat /\ MaxAlertRecipients \in Nat
    /\ MaxMonitors \in [Plan -> Nat]
    /\ MaxMonitors["FREE"] <= MaxMonitors["ENTERPRISE"]

VARIABLES
    plan,           \* the plan each user's subscription grants
    orgs,           \* rows of organizations
    usedOrgs,       \* ids organizations have had
    members,        \* rows of organization_members
    invitations,    \* rows of invitations
    usedInvs,       \* ids invitations have had
    recipients,     \* rows of org_alert_recipients
    monitors,       \* rows of monitors
    usedMons,       \* ids monitors have had
    req             \* the request in each slot

teams == <<orgs, usedOrgs, members>>
invites == <<invitations, usedInvs>>
pool == <<monitors, usedMons>>
wvars == <<plan, teams, invites, recipients, pool, req>>

-----------------------------------------------------------------------------
(* Rows and what is read from them. *)

Organization == [id : Org, owner : User]
Member == [org : Org, user : User, role : Role]
Invitation == [id : Inv, org : Org, email : User, role : Granted,
               status : {"PENDING", "ACCEPTED", "REVOKED", "EXPIRED"},
               lapsed : BOOLEAN]        \* expires_at has passed
Recipient == [org : Org, target : Contact]
MonitorRow == [id : Monitor, user : User, org : Org \cup {Personal}]

roleWeight == [r \in Role |-> CASE r = "VIEWER" -> 0 [] r = "MEMBER" -> 1
                                [] r = "ADMIN" -> 2 [] r = "OWNER" -> 3]
RoleAtLeast(r, min) == roleWeight[r] >= roleWeight[min]

Live(o) == \E g \in orgs : g.id = o

RequireOrgRole(o, u, min) ==
    \E m \in members : m.org = o /\ m.user = u /\ RoleAtLeast(m.role, min)

\* planForOrg and planForUser: FREE when it cannot be read.
\* (Mutant: a user's plan is taken to be ENTERPRISE.)
planForOrg(o) ==
    {plan[g.owner] : g \in {h \in orgs : h.id = o}}
        \cup (IF Faults \/ ~Live(o) THEN {"FREE"} ELSE {})
PaidForUser(u) == {"ENTERPRISE"}
planForUser(u) == {plan[u]} \cup (IF Faults THEN {"FREE"} ELSE {})

\* -1 stands for no limit.  (Mutant: FREE has no limit rather than no seats.)
SeatsUnlimited(p) == IF p = "ENTERPRISE" THEN MaxLoginSeats ELSE -1
SeatsForPlan(p) == IF p = "ENTERPRISE" THEN MaxLoginSeats ELSE 0
RecipientsForPlan(p) == IF p = "ENTERPRISE" THEN MaxAlertRecipients ELSE 0

ListOrganizations(u) == {m.org : m \in {n \in members : n.user = u}}

NonOwners(o) == {m \in members : m.org = o /\ m.role # "OWNER"}
Open(i) == i.status = "PENDING" /\ ~i.lapsed
Pending(o) == {i \in invitations : i.org = o /\ Open(i)}
RecipientsOf(o) == {r \in recipients : r.org = o}

\* Mutant: the invitations that are out are not counted.
SeatsOfMembers(o) == Cardinality(NonOwners(o))
SeatsUsed(o) == Cardinality(NonOwners(o)) + Cardinality(Pending(o))

\* billingScopeClause: the monitors billed to a user.
\* (Mutant: the organization's monitors do not count.)
PersonalPool(u) == {m \in monitors : m.org = Personal /\ m.user = u}
BillingScope(u) ==
    {m \in monitors :
        \/ m.org = Personal /\ m.user = u
        \/ \E g \in orgs : g.id = m.org /\ g.owner = u}

\* monitorAccessClause: the monitors a user may reach.
Access(u, m) ==
    \/ m.org = Personal /\ m.user = u
    \/ \E r \in members : r.org = m.org /\ r.user = u

\* requireMonitorWrite, after the access clause.
MayWrite(u, m) ==
    \/ m.org = Personal /\ m.user = u
    \/ RequireOrgRole(m.org, u, "MEMBER")

-----------------------------------------------------------------------------
(* Requests. *)

Idle == [at |-> "idle"]

\* What a handler carries from its checks to its write.
Request ==
    {Idle}
    \cup [at : {"createOrg"}, who : User]
    \cup [at : {"deleteOrg"}, org : Org]
    \cup [at : {"invite"}, org : Org, email : User, role : Granted, old : SUBSET Inv]
    \cup [at : {"insertInv"}, org : Org, email : User, role : Granted]
    \cup [at : {"revoke"}, inv : Inv]
    \cup [at : {"accept"}, inv : Inv, who : User, max : Nat]
    \cup [at : {"setRole"}, org : Org, who : User, role : Granted]
    \cup [at : {"remove"}, org : Org, who : User]
    \cup [at : {"addContact", "dropContact"}, org : Org, to : Contact]
    \cup [at : {"addMonitor"}, org : Org \cup {Personal}, who : User, owner : User, max : Nat]
    \cup [at : {"dropMonitor"}, mon : Monitor, who : User]

WTypeOK ==
    /\ plan \in [User -> Plan]
    /\ orgs \subseteq Organization
    /\ usedOrgs \subseteq Org
    /\ members \subseteq Member
    /\ invitations \subseteq Invitation
    /\ usedInvs \subseteq Inv
    /\ recipients \subseteq Recipient
    /\ monitors \subseteq MonitorRow
    /\ usedMons \subseteq Monitor
    /\ req \in [Req -> Request]

WInit ==
    /\ plan = [u \in User |-> "FREE"]
    /\ orgs = {} /\ usedOrgs = {}
    /\ members = {}
    /\ invitations = {} /\ usedInvs = {}
    /\ recipients = {}
    /\ monitors = {} /\ usedMons = {}
    /\ req = [q \in Req |-> Idle]

\* The checks of a new request pass; the ones that fail change nothing.
Begins(q, r) ==
    /\ req[q] = Idle
    /\ req' = [req EXCEPT ![q] = r]
    /\ UNCHANGED <<plan, teams, invites, recipients, pool>>

Ends(q) == req' = [req EXCEPT ![q] = Idle]

\* Any read or write may fail, and the handler answers with an error.
Fails(q) ==
    /\ req[q] # Idle
    /\ Ends(q)
    /\ UNCHANGED <<plan, teams, invites, recipients, pool>>

-----------------------------------------------------------------------------
(* Organizations. *)

\* When the list of the caller's organizations does not load, it is not checked.
InNoOrganization(u) == ListOrganizations(u) = {} \/ Faults

CreateOrg(q, u) ==
    /\ "ENTERPRISE" \in planForUser(u)
    /\ InNoOrganization(u)
    /\ Begins(q, [at |-> "createOrg", who |-> u])

\* The unique index on organization_members.user_id.
\* (Mutant: without the index.)
NoIndex(u) == TRUE
UserIdIndex(u) == \A m \in members : m.user # u

CreateOrganization(q) ==
    LET r == req[q] IN
    /\ r.at = "createOrg"
    /\ UserIdIndex(r.who)
    /\ \E o \in Org \ usedOrgs :
          /\ orgs' = orgs \cup {[id |-> o, owner |-> r.who]}
          /\ usedOrgs' = usedOrgs \cup {o}
          /\ members' = members \cup {[org |-> o, user |-> r.who, role |-> "OWNER"]}
    /\ Ends(q)
    /\ UNCHANGED <<plan, invites, recipients, pool>>

DeleteOrg(q, u, o) ==
    /\ RequireOrgRole(o, u, "OWNER")
    /\ Begins(q, [at |-> "deleteOrg", org |-> o])

\* Members, invitations and recipients go with the organization; its monitors
\* become personal ones of the users who created them.
DeleteOrganization(q) ==
    LET o == req[q].org IN
    /\ req[q].at = "deleteOrg"
    /\ orgs' = {g \in orgs : g.id # o}
    /\ members' = {m \in members : m.org # o}
    /\ invitations' = {i \in invitations : i.org # o}
    /\ recipients' = {r \in recipients : r.org # o}
    /\ monitors' = {IF m.org = o THEN [m EXCEPT !.org = Personal] ELSE m : m \in monitors}
    /\ Ends(q)
    /\ UNCHANGED <<plan, usedOrgs, usedInvs, usedMons>>

-----------------------------------------------------------------------------
(* Members. *)

\* Mutant: the owner is not spared.
AnyMember(o, u) == \E m \in members : m.org = o /\ m.user = u
NotOwner(o, u) == \E m \in members : m.org = o /\ m.user = u /\ m.role # "OWNER"

UpdateMemberRole(q, u, o, t, r) ==
    /\ RequireOrgRole(o, u, "ADMIN")
    /\ NotOwner(o, t)
    /\ Begins(q, [at |-> "setRole", org |-> o, who |-> t, role |-> r])

SaveRole(q) ==
    LET r == req[q] IN
    /\ r.at = "setRole"
    /\ members' = {IF m.org = r.org /\ m.user = r.who THEN [m EXCEPT !.role = r.role]
                                                      ELSE m : m \in members}
    /\ Ends(q)
    /\ UNCHANGED <<plan, orgs, usedOrgs, invites, recipients, pool>>

\* A member may leave, and may remove another one who is not the owner.
RemoveMember(q, u, o, t) ==
    /\ RequireOrgRole(o, u, "MEMBER")
    /\ NotOwner(o, t)
    /\ Begins(q, [at |-> "remove", org |-> o, who |-> t])

DropMember(q) ==
    LET r == req[q] IN
    /\ r.at = "remove"
    /\ members' = {m \in members : ~(m.org = r.org /\ m.user = r.who)}
    /\ Ends(q)
    /\ UNCHANGED <<plan, orgs, usedOrgs, invites, recipients, pool>>

-----------------------------------------------------------------------------
(* Invitations. *)

\* An open invitation of the same address refuses a new one; those that have
\* lapsed will be marked.  A list that does not load counts as empty.
CreateInvitation(q, u, o, e, r) ==
    LET same == {i \in invitations : i.org = o /\ i.email = e /\ i.status = "PENDING"}
    IN  /\ RequireOrgRole(o, u, "ADMIN")
        /\ \E listed \in {same} \cup (IF Faults THEN {{}} ELSE {}) :
              /\ \A i \in listed : i.lapsed
              /\ Begins(q, [at |-> "invite", org |-> o, email |-> e, role |-> r,
                            old |-> {i.id : i \in listed}])

\* The update is for a row that is still PENDING.  (Mutant: for any row.)
MarkedAnyway(id, st) ==
    {IF i.id = id THEN [i EXCEPT !.status = st] ELSE i : i \in invitations}
Marked(id, st) ==
    {IF i.id = id /\ i.status = "PENDING" THEN [i EXCEPT !.status = st] ELSE i :
        i \in invitations}

ExpireInvitation(q) ==
    /\ req[q].at = "invite"
    /\ \E i \in req[q].old :
          /\ invitations' = Marked(i, "EXPIRED")
          /\ req' = [req EXCEPT ![q].old = @ \ {i}]
    /\ UNCHANGED <<plan, teams, usedInvs, recipients, pool>>

\* The user-facing check of the seats, outside any transaction.
CheckSeats(q) ==
    LET r == req[q] IN
    /\ r.at = "invite" /\ r.old = {}
    /\ \E p \in planForOrg(r.org) : SeatsUsed(r.org) < SeatsForPlan(p)
    /\ req' = [req EXCEPT ![q] = [at |-> "insertInv", org |-> r.org,
                                  email |-> r.email, role |-> r.role]]
    /\ UNCHANGED <<plan, teams, invites, recipients, pool>>

InsertInvitation(q) ==
    LET r == req[q] IN
    /\ r.at = "insertInv"
    /\ Live(r.org)
    /\ \E i \in Inv \ usedInvs :
          /\ invitations' = invitations \cup
                {[id |-> i, org |-> r.org, email |-> r.email, role |-> r.role,
                  status |-> "PENDING", lapsed |-> FALSE]}
          /\ usedInvs' = usedInvs \cup {i}
    /\ Ends(q)
    /\ UNCHANGED <<plan, teams, recipients, pool>>

\* Seven days pass.
Lapse(i) ==
    /\ Open(i)
    /\ invitations' = (invitations \ {i}) \cup {[i EXCEPT !.lapsed = TRUE]}
    /\ UNCHANGED <<plan, teams, usedInvs, recipients, pool, req>>

RevokeInvitation(q, u, i) ==
    /\ RequireOrgRole(i.org, u, "ADMIN")
    /\ Begins(q, [at |-> "revoke", inv |-> i.id])

MarkRevoked(q) ==
    /\ req[q].at = "revoke"
    /\ invitations' = Marked(req[q].inv, "REVOKED")
    /\ Ends(q)
    /\ UNCHANGED <<plan, teams, usedInvs, recipients, pool>>

\* Only the account the invitation is addressed to.  The cap is read here.
AcceptInvitation(q, i) ==
    /\ Open(i)
    /\ InNoOrganization(i.email)
    /\ \E p \in planForOrg(i.org) :
          Begins(q, [at |-> "accept", inv |-> i.id, who |-> i.email,
                     max |-> SeatsForPlan(p)])

\* The transaction looks at the invitation again.
\* (Mutant: it trusts the check before it.)
AnyStatus(i) == TRUE
StillOpen(i) == Open(i)

\* Seats in use, under a lock on the organization, without the one converted.
\* (Mutant: no second count.)
SeatsUnchecked(i, max) == TRUE
SeatFree(i, max) ==
    Cardinality(NonOwners(i.org)) + Cardinality(Pending(i.org) \ {i}) < max

Join(q) ==
    LET r == req[q] IN
    /\ r.at = "accept"
    /\ \E i \in invitations :
          /\ i.id = r.inv
          /\ StillOpen(i)
          /\ SeatFree(i, r.max)
          /\ UserIdIndex(r.who)
          /\ members' = members \cup {[org |-> i.org, user |-> r.who, role |-> i.role]}
          /\ invitations' = (invitations \ {i}) \cup {[i EXCEPT !.status = "ACCEPTED"]}
    /\ Ends(q)
    /\ UNCHANGED <<plan, orgs, usedOrgs, usedInvs, recipients, pool>>

-----------------------------------------------------------------------------
(* Alert recipients. *)

\* Mutant: one more than the plan allows.
OneTooMany(o, p) == Cardinality(RecipientsOf(o)) <= RecipientsForPlan(p)
RecipientQuota(o, p) == Cardinality(RecipientsOf(o)) < RecipientsForPlan(p)

CreateOrgAlertRecipient(q, u, o, t) ==
    /\ RequireOrgRole(o, u, "ADMIN")
    /\ \E p \in planForOrg(o) : RecipientQuota(o, p)
    /\ Begins(q, [at |-> "addContact", org |-> o, to |-> t])

\* A recipient the organization has is refused by the unique index.
InsertRecipient(q) ==
    LET r == [org |-> req[q].org, target |-> req[q].to] IN
    /\ req[q].at = "addContact"
    /\ Live(r.org)
    /\ r \notin recipients
    /\ recipients' = recipients \cup {r}
    /\ Ends(q)
    /\ UNCHANGED <<plan, teams, invites, pool>>

DeleteOrgAlertRecipient(q, u, o, t) ==
    /\ RequireOrgRole(o, u, "ADMIN")
    /\ Begins(q, [at |-> "dropContact", org |-> o, to |-> t])

DropRecipient(q) ==
    /\ req[q].at = "dropContact"
    /\ recipients' = recipients \ {[org |-> req[q].org, target |-> req[q].to]}
    /\ Ends(q)
    /\ UNCHANGED <<plan, teams, invites, pool>>

-----------------------------------------------------------------------------
(* Monitors. *)

\* billingOwner: the caller, or the owner of the organization.
CreateMonitor(q, u, w) ==
    /\ w = Personal \/ RequireOrgRole(w, u, "MEMBER")
    /\ \E owner \in {v \in User : IF w = Personal THEN v = u
                                  ELSE [id |-> w, owner |-> v] \in orgs} :
       \E p \in planForUser(owner) :
          Begins(q, [at |-> "addMonitor", org |-> w, who |-> u, owner |-> owner,
                     max |-> MaxMonitors[p]])

\* The count and the insert are one transaction under a lock on the billing owner.
InsertMonitor(q) ==
    LET r == req[q] IN
    /\ r.at = "addMonitor"
    /\ Cardinality(BillingScope(r.owner)) < r.max
    /\ r.org = Personal \/ Live(r.org)
    /\ \E m \in Monitor \ usedMons :
          /\ monitors' = monitors \cup {[id |-> m, user |-> r.who, org |-> r.org]}
          /\ usedMons' = usedMons \cup {m}
    /\ Ends(q)
    /\ UNCHANGED <<plan, teams, invites, recipients>>

DeleteMonitor(q, u, m) ==
    /\ MayWrite(u, m)
    /\ Begins(q, [at |-> "dropMonitor", mon |-> m.id, who |-> u])

\* The access is checked again, the role is not.
DropMonitor(q) ==
    /\ req[q].at = "dropMonitor"
    /\ \E m \in monitors :
          /\ m.id = req[q].mon
          /\ Access(req[q].who, m)
          /\ monitors' = monitors \ {m}
    /\ Ends(q)
    /\ UNCHANGED <<plan, teams, invites, recipients, usedMons>>

-----------------------------------------------------------------------------
\* A subscription starts or ends.
PlanChanges(u) ==
    /\ \E p \in Plan \ {plan[u]} : plan' = [plan EXCEPT ![u] = p]
    /\ UNCHANGED <<teams, invites, recipients, pool, req>>

Checks(q) ==
    \/ \E u \in User : CreateOrg(q, u)
    \/ \E u \in User, o \in Org : DeleteOrg(q, u, o)
    \/ \E u, t \in User, o \in Org, r \in Granted : UpdateMemberRole(q, u, o, t, r)
    \/ \E u, t \in User, o \in Org : RemoveMember(q, u, o, t)
    \/ \E u, e \in User, o \in Org, r \in Granted : CreateInvitation(q, u, o, e, r)
    \/ \E u \in User, i \in invitations : RevokeInvitation(q, u, i)
    \/ \E i \in invitations : AcceptInvitation(q, i)
    \/ \E u \in User, o \in Org, t \in Contact : CreateOrgAlertRecipient(q, u, o, t)
    \/ \E u \in User, o \in Org, t \in Contact : DeleteOrgAlertRecipient(q, u, o, t)
    \/ \E u \in User, w \in Org \cup {Personal} : CreateMonitor(q, u, w)
    \/ \E u \in User, m \in monitors : DeleteMonitor(q, u, m)

Writes(q) ==
    \/ CreateOrganization(q) \/ DeleteOrganization(q)
    \/ SaveRole(q) \/ DropMember(q)
    \/ ExpireInvitation(q) \/ CheckSeats(q) \/ InsertInvitation(q)
    \/ MarkRevoked(q) \/ Join(q)
    \/ InsertRecipient(q) \/ DropRecipient(q)
    \/ InsertMonitor(q) \/ DropMonitor(q)

WNext ==
    \/ \E q \in Req : Checks(q) \/ Writes(q) \/ Fails(q)
    \/ \E u \in Payer : PlanChanges(u)
    \/ \E i \in invitations : Lapse(i)

WSpec == WInit /\ [][WNext]_wvars

-----------------------------------------------------------------------------
(* Properties. *)

\* A user belongs to at most one organization, although the check of it precedes
\* the write in CreateOrg and AcceptInvitation, and both may be under way, for
\* two organizations, at once.
OneOrganization == \A m, n \in members : m.user = n.user => m = n

\* Every organization has the account it bills to as its one OWNER, whatever is
\* done to roles and members while requests overlap, and nothing belongs to an
\* organization that is gone.
OrgsWhole ==
    /\ \A g \in orgs : [org |-> g.id, user |-> g.owner, role |-> "OWNER"] \in members
    /\ \A m \in members : \E g \in orgs :
           g.id = m.org /\ (m.role = "OWNER" => m.user = g.owner)
    /\ \A i \in invitations : Live(i.org)
    /\ \A r \in recipients : Live(r.org)
    /\ \A m \in monitors : m.org = Personal \/ Live(m.org)

\* No organization has more invited members than the plan has login seats,
\* although the check in CreateInvitation is not made under a lock: the
\* transaction of AcceptInvitation counts again.
SeatsRespected ==
    \A o \in Org :
        Cardinality({m \in members : m.org = o /\ m.role # "OWNER"}) <= MaxLoginSeats

Inviting(o) == {q \in Req : req[q].at = "insertInv" /\ req[q].org = o}
Adding(o) == {q \in Req : req[q].at = "addContact" /\ req[q].org = o}

\* The check of the seats in CreateInvitation is not made under a lock: what is
\* promised may exceed the cap, but by fewer seats than there are requests at a
\* time, so that requests that do not overlap keep to it.
SeatsPromised ==
    \A o \in Org :
        Cardinality({m \in members : m.org = o /\ m.role # "OWNER"})
            + Cardinality({i \in invitations : i.org = o /\ Open(i)})
            + Cardinality(Inviting(o)) < MaxLoginSeats + Cardinality(Req)

\* The same of the alert recipients and CreateOrgAlertRecipient.
RecipientsBounded ==
    \A o \in Org :
        Cardinality({r \in recipients : r.org = o}) + Cardinality(Adding(o))
            < MaxAlertRecipients + Cardinality(Req)

\* A user becomes a member only through an invitation to that user which is open
\* at that very moment and is used up by it, not through one that was revoked,
\* accepted, superseded or lapsed after AcceptInvitation looked at it.
JoinsByInvitation ==
    [][\A m \in members' :
          (m.role # "OWNER" /\ ~\E n \in members : n.org = m.org /\ n.user = m.user)
              => \E i \in invitations :
                    /\ i.org = m.org /\ i.email = m.user /\ i.role = m.role
                    /\ i.status = "PENDING" /\ ~i.lapsed
                    /\ [i EXCEPT !.status = "ACCEPTED"] \in invitations']_wvars

\* What became of an invitation is never rewritten: a revoke or an expiry that
\* was decided before the invitation was accepted comes too late.
SettledForGood ==
    [][\A i \in invitations :
          i.status # "PENDING" => i \in invitations' \/ i.org \notin {g.id : g \in orgs'}]_wvars

\* A creation is granted the cap of no better plan than the billed account has
\* when it is checked, and it leaves that account's own monitors and those of
\* its organization within what it was granted, whatever is created in any
\* workspace, founded, deleted or subscribed to in between.
PoolRespected ==
    [][/\ \A q \in Req :
             req[q].at # "addMonitor" /\ req'[q].at = "addMonitor"
                 => req'[q].max <= MaxMonitors[plan[req'[q].owner]]
       /\ \A m \in monitors', u \in User :
             (m.id \notin usedMons
                /\ IF m.org = Personal THEN m.user = u ELSE [id |-> m.org, owner |-> u] \in orgs')
                 => \E q \in Req :
                       /\ req[q].at = "addMonitor" /\ req[q].owner = u /\ req'[q] # req[q]
                       /\ Cardinality({n \in monitors' :
                             \/ n.org = Personal /\ n.user = u
                             \/ [id |-> n.org, owner |-> u] \in orgs'}) <= req[q].max]_wvars

=============================================================================
