--------------------------- MODULE WorkspaceProofs ---------------------------
(***************************************************************************)
(* Proofs about Workspace, for any number of accounts, organizations,      *)
(* invitations and concurrent requests.                                    *)
(***************************************************************************)
EXTENDS Workspace, FiniteSetTheorems, TLAPS

-----------------------------------------------------------------------------
(* Requests. *)

\* What each kind of request carries.
LEMMA Carried ==
    ASSUME NEW r \in Request
    PROVE  /\ r.at = "createOrg" => r.who \in User
           /\ r.at = "deleteOrg" => r.org \in Org
           /\ r.at = "invite" => /\ r.org \in Org /\ r.email \in User
                                 /\ r.role \in Granted /\ r.old \in SUBSET Inv
           /\ r.at = "insertInv" => r.org \in Org /\ r.email \in User /\ r.role \in Granted
           /\ r.at = "revoke" => r.inv \in Inv
           /\ r.at = "accept" => r.inv \in Inv /\ r.who \in User /\ r.max \in Nat
           /\ r.at = "setRole" => r.org \in Org /\ r.who \in User /\ r.role \in Granted
           /\ r.at = "remove" => r.org \in Org /\ r.who \in User
           /\ r.at \in {"addContact", "dropContact"} => r.org \in Org /\ r.to \in Contact
           /\ r.at = "addMonitor" => /\ r.org \in Org \cup {Personal} /\ r.who \in User
                                     /\ r.owner \in User /\ r.max \in Nat
           /\ r.at = "dropMonitor" => r.mon \in Monitor /\ r.who \in User
  BY DEF Request, Idle

LEMMA IdleIsRequest == Idle \in Request
  BY DEF Request

\* A plan that is read is a plan, and its caps are those of the plans.
LEMMA PlansRead ==
    ASSUME WTypeOK
    PROVE  /\ \A o \in Org : planForOrg(o) \subseteq Plan
           /\ \A u \in User : planForUser(u) \subseteq Plan
           /\ \A p \in Plan : SeatsForPlan(p) \in Nat /\ SeatsForPlan(p) <= MaxLoginSeats
  BY WorkspaceAssumption
     DEF WTypeOK, planForOrg, planForUser, Plan, SeatsForPlan, Organization

\* A check that passes puts a request into its slot and changes nothing else.
\* Roles and removals are of members who are not owners; an acceptance is of an
\* invitation that exists, for its addressee and at most the plan's seats; a
\* monitor is billed to the caller or to the owner of the organization, at most
\* up to the cap of the plan of that account; a recipient is added where some
\* plan leaves room.
Checked(r) ==
    /\ r.at # "insertInv"
    /\ r.at \in {"setRole", "remove"} => NotOwner(r.org, r.who)
    /\ r.at = "accept" =>
          /\ r.max <= MaxLoginSeats
          /\ \E i \in invitations : i.id = r.inv /\ i.email = r.who
    /\ r.at = "addMonitor" =>
          /\ r.max <= MaxMonitors[plan[r.owner]]
          /\ IF r.org = Personal THEN r.owner = r.who
                                 ELSE [id |-> r.org, owner |-> r.owner] \in orgs
    /\ r.at = "addContact" => \E p \in Plan : RecipientQuota(r.org, p)

LEMMA ChecksBegin ==
    ASSUME WTypeOK, NEW q \in Req, Checks(q)
    PROVE  \E r \in Request : Begins(q, r) /\ Checked(r)
<1> USE DEF Checked
<1>1. CASE \E u \in User : CreateOrg(q, u)
  <2>1. PICK u \in User : CreateOrg(q, u)
    BY <1>1
  <2> DEFINE r == [at |-> "createOrg", who |-> u]
  <2>2. r \in Request /\ r.at = "createOrg"
    BY DEF Request
  <2> QED BY <2>1, <2>2 DEF CreateOrg
<1>2. CASE \E u \in User, o \in Org : DeleteOrg(q, u, o)
  <2>1. PICK u \in User, o \in Org : DeleteOrg(q, u, o)
    BY <1>2
  <2> DEFINE r == [at |-> "deleteOrg", org |-> o]
  <2>2. r \in Request /\ r.at = "deleteOrg"
    BY DEF Request
  <2> QED BY <2>1, <2>2 DEF DeleteOrg
<1>3. CASE \E u, t \in User, o \in Org, g \in Granted : UpdateMemberRole(q, u, o, t, g)
  <2>1. PICK u \in User, t \in User, o \in Org, g \in Granted : UpdateMemberRole(q, u, o, t, g)
    BY <1>3
  <2> DEFINE r == [at |-> "setRole", org |-> o, who |-> t, role |-> g]
  <2>2. r \in Request /\ r.at = "setRole" /\ r.org = o /\ r.who = t
    BY DEF Request
  <2>3. Begins(q, r) /\ NotOwner(r.org, r.who)
    BY <2>1, <2>2 DEF UpdateMemberRole
  <2> HIDE DEF r
  <2> QED BY <2>2, <2>3
<1>4. CASE \E u, t \in User, o \in Org : RemoveMember(q, u, o, t)
  <2>1. PICK u \in User, t \in User, o \in Org : RemoveMember(q, u, o, t)
    BY <1>4
  <2> DEFINE r == [at |-> "remove", org |-> o, who |-> t]
  <2>2. r \in Request /\ r.at = "remove" /\ r.org = o /\ r.who = t
    BY DEF Request
  <2>3. Begins(q, r) /\ NotOwner(r.org, r.who)
    BY <2>1, <2>2 DEF RemoveMember
  <2> HIDE DEF r
  <2> QED BY <2>2, <2>3
<1>5. CASE \E u, e \in User, o \in Org, g \in Granted : CreateInvitation(q, u, o, e, g)
  <2>1. PICK u \in User, e \in User, o \in Org, g \in Granted : CreateInvitation(q, u, o, e, g)
    BY <1>5
  <2>2. PICK L \in SUBSET invitations :
            Begins(q, [at |-> "invite", org |-> o, email |-> e, role |-> g,
                       old |-> {i.id : i \in L}])
    BY <2>1 DEF CreateInvitation
  <2> DEFINE r == [at |-> "invite", org |-> o, email |-> e, role |-> g,
                   old |-> {i.id : i \in L}]
  <2>3. {i.id : i \in L} \in SUBSET Inv
    BY DEF WTypeOK, Invitation
  <2>4. r \in Request /\ r.at = "invite"
    BY <2>3 DEF Request
  <2> QED BY <2>2, <2>4
<1>6. CASE \E u \in User, i \in invitations : RevokeInvitation(q, u, i)
  <2>1. PICK u \in User, i \in invitations : RevokeInvitation(q, u, i)
    BY <1>6
  <2> DEFINE r == [at |-> "revoke", inv |-> i.id]
  <2>2. r \in Request /\ r.at = "revoke"
    BY DEF Request, WTypeOK, Invitation
  <2> QED BY <2>1, <2>2 DEF RevokeInvitation
<1>7. CASE \E i \in invitations : AcceptInvitation(q, i)
  <2>1. PICK i \in invitations : AcceptInvitation(q, i)
    BY <1>7
  <2>2. i.id \in Inv /\ i.email \in User /\ i.org \in Org
    BY DEF WTypeOK, Invitation
  <2>3. PICK p \in planForOrg(i.org) :
            Begins(q, [at |-> "accept", inv |-> i.id, who |-> i.email, max |-> SeatsForPlan(p)])
    BY <2>1 DEF AcceptInvitation
  <2>4. SeatsForPlan(p) \in Nat /\ SeatsForPlan(p) <= MaxLoginSeats
    BY <2>2, PlansRead
  <2> DEFINE r == [at |-> "accept", inv |-> i.id, who |-> i.email, max |-> SeatsForPlan(p)]
  <2>5. /\ r \in Request /\ r.at = "accept" /\ r.inv = i.id /\ r.who = i.email
        /\ r.max = SeatsForPlan(p)
    BY <2>2, <2>4 DEF Request
  <2> HIDE DEF r
  <2> QED BY <2>3, <2>4, <2>5 DEF r
<1>8. CASE \E u \in User, o \in Org, t \in Contact : CreateOrgAlertRecipient(q, u, o, t)
  <2>1. PICK u \in User, o \in Org, t \in Contact : CreateOrgAlertRecipient(q, u, o, t)
    BY <1>8
  <2> DEFINE r == [at |-> "addContact", org |-> o, to |-> t]
  <2>2. r \in Request /\ r.at = "addContact" /\ r.org = o
    BY DEF Request
  <2>3. PICK p \in planForOrg(o) : RecipientQuota(o, p)
    BY <2>1 DEF CreateOrgAlertRecipient
  <2>4. p \in Plan
    BY PlansRead
  <2>5. Begins(q, r)
    BY <2>1 DEF CreateOrgAlertRecipient
  <2> HIDE DEF r
  <2> QED BY <2>2, <2>3, <2>4, <2>5
<1>9. CASE \E u \in User, o \in Org, t \in Contact : DeleteOrgAlertRecipient(q, u, o, t)
  <2>1. PICK u \in User, o \in Org, t \in Contact : DeleteOrgAlertRecipient(q, u, o, t)
    BY <1>9
  <2> DEFINE r == [at |-> "dropContact", org |-> o, to |-> t]
  <2>2. r \in Request /\ r.at = "dropContact"
    BY DEF Request
  <2> QED BY <2>1, <2>2 DEF DeleteOrgAlertRecipient
<1>10. CASE \E u \in User, w \in Org \cup {Personal} : CreateMonitor(q, u, w)
  <2>1. PICK u \in User, w \in Org \cup {Personal} : CreateMonitor(q, u, w)
    BY <1>10
  <2>2. PICK b \in {v \in User : IF w = Personal THEN v = u
                                 ELSE [id |-> w, owner |-> v] \in orgs} :
            \E p \in planForUser(b) :
              Begins(q, [at |-> "addMonitor", org |-> w, who |-> u, owner |-> b,
                         max |-> MaxMonitors[p]])
    BY <2>1 DEF CreateMonitor
  <2>3. PICK p \in planForUser(b) :
            Begins(q, [at |-> "addMonitor", org |-> w, who |-> u, owner |-> b,
                       max |-> MaxMonitors[p]])
    BY <2>2
  <2>4. MaxMonitors[p] \in Nat /\ MaxMonitors[p] <= MaxMonitors[plan[b]]
    <3>1. plan[b] \in Plan /\ p \in {plan[b], "FREE"}
      BY DEF planForUser, WTypeOK
    <3> QED BY <3>1, WorkspaceAssumption DEF Plan
  <2> DEFINE r == [at |-> "addMonitor", org |-> w, who |-> u, owner |-> b,
                   max |-> MaxMonitors[p]]
  <2>5. /\ r \in Request /\ r.at = "addMonitor" /\ r.org = w /\ r.who = u /\ r.owner = b
        /\ r.max = MaxMonitors[p]
    BY <2>4 DEF Request
  <2>6. Begins(q, r)
    BY <2>3
  <2> HIDE DEF r
  <2>7. Checked(r)
    BY <2>2, <2>4, <2>5
  <2> QED BY <2>5, <2>6, <2>7
<1>11. CASE \E u \in User, m \in monitors : DeleteMonitor(q, u, m)
  <2>1. PICK u \in User, m \in monitors : DeleteMonitor(q, u, m)
    BY <1>11
  <2> DEFINE r == [at |-> "dropMonitor", mon |-> m.id, who |-> u]
  <2>2. r \in Request /\ r.at = "dropMonitor"
    BY DEF Request, WTypeOK, MonitorRow
  <2> QED BY <2>1, <2>2 DEF DeleteMonitor
<1> QED
  BY <1>1, <1>2, <1>3, <1>4, <1>5, <1>6, <1>7, <1>8, <1>9, <1>10, <1>11 DEF Checks

\* A slot is filled or emptied, the others stay.
LEMMA SlotSet ==
    ASSUME req \in [Req -> Request], NEW q \in Req, NEW r \in Request,
           req' = [req EXCEPT ![q] = r]
    PROVE  /\ req' \in [Req -> Request]
           /\ \A p \in Req : req'[p] = IF p = q THEN r ELSE req[p]
  OBVIOUS

LEMMA SlotEmptied ==
    ASSUME req \in [Req -> Request], NEW q \in Req, Ends(q)
    PROVE  /\ req' \in [Req -> Request]
           /\ \A p \in Req : req'[p] = IF p = q THEN Idle ELSE req[p]
  BY IdleIsRequest, SlotSet DEF Ends

LEMMA IdleCarriesNothing == Idle.at = "idle"
  BY DEF Idle

-----------------------------------------------------------------------------
(* Type correctness. *)

LEMMA TypeInit == WInit => WTypeOK
  BY IdleIsRequest DEF WInit, WTypeOK, Plan

LEMMA MarkedType ==
    ASSUME WTypeOK, NEW id, NEW st \in {"EXPIRED", "REVOKED"}
    PROVE  Marked(id, st) \subseteq Invitation
  BY DEF WTypeOK, Marked, Invitation

LEMMA TypeStep ==
    ASSUME WTypeOK, [WNext]_wvars
    PROVE  WTypeOK'
<1> USE DEF WTypeOK
<1>1. ASSUME NEW q \in Req, Checks(q)
      PROVE  WTypeOK'
  <2>1. PICK r \in Request : Begins(q, r)
    BY <1>1, ChecksBegin
  <2> QED BY <2>1, SlotSet DEF Begins, teams, invites, pool
<1>2. ASSUME NEW q \in Req, Writes(q)
      PROVE  WTypeOK'
  <2> DEFINE r == req[q]
  <2>0. r \in Request
    OBVIOUS
  <2>1. CASE CreateOrganization(q)
    <3>1. r.at = "createOrg" /\ r.who \in User
      BY <2>1, <2>0, Carried DEF CreateOrganization
    <3>2. PICK o \in Org \ usedOrgs :
             /\ orgs' = orgs \cup {[id |-> o, owner |-> r.who]}
             /\ usedOrgs' = usedOrgs \cup {o}
             /\ members' = members \cup {[org |-> o, user |-> r.who, role |-> "OWNER"]}
      BY <2>1 DEF CreateOrganization
    <3>3. orgs' \subseteq Organization /\ usedOrgs' \subseteq Org /\ members' \subseteq Member
      BY <3>1, <3>2 DEF Organization, Member, Role
    <3> QED BY <2>1, <3>3, SlotEmptied DEF CreateOrganization, invites, pool
  <2>2. CASE DeleteOrganization(q)
    <3>1. monitors' \subseteq MonitorRow
      BY <2>2 DEF DeleteOrganization, MonitorRow
    <3> QED BY <2>2, <3>1, SlotEmptied DEF DeleteOrganization
  <2>3. CASE SaveRole(q)
    <3>1. r.role \in Granted
      BY <2>3, <2>0, Carried DEF SaveRole
    <3>2. members' \subseteq Member
      BY <2>3, <3>1, WorkspaceAssumption DEF SaveRole, Member
    <3> QED BY <2>3, <3>2, SlotEmptied DEF SaveRole, invites, pool
  <2>4. CASE DropMember(q)
    BY <2>4, SlotEmptied DEF DropMember, invites, pool
  <2>5. CASE ExpireInvitation(q)
    <3>1. PICK i \in r.old : /\ invitations' = Marked(i, "EXPIRED")
                             /\ req' = [req EXCEPT ![q].old = @ \ {i}]
      BY <2>5 DEF ExpireInvitation
    <3>2. [r EXCEPT !.old = @ \ {i}] \in Request
      <4>1. r.at = "invite"
        BY <2>5 DEF ExpireInvitation
      <4>2. r \in [at : {"invite"}, org : Org, email : User, role : Granted, old : SUBSET Inv]
        BY <4>1, <2>0 DEF Request, Idle
      <4>3. [r EXCEPT !.old = @ \ {i}] \in
               [at : {"invite"}, org : Org, email : User, role : Granted, old : SUBSET Inv]
        BY <4>2
      <4> QED BY <4>3 DEF Request
    <3>3. req' \in [Req -> Request]
      BY <3>1, <3>2
    <3> QED BY <2>5, <3>1, <3>3, MarkedType DEF ExpireInvitation, teams, pool
  <2>6. CASE CheckSeats(q)
    <3>1. r.org \in Org /\ r.email \in User /\ r.role \in Granted
      BY <2>6, <2>0, Carried DEF CheckSeats
    <3>2. [at |-> "insertInv", org |-> r.org, email |-> r.email, role |-> r.role] \in Request
      BY <3>1 DEF Request
    <3> QED BY <2>6, <3>2, SlotSet DEF CheckSeats, teams, invites, pool
  <2>7. CASE InsertInvitation(q)
    <3>1. r.org \in Org /\ r.email \in User /\ r.role \in Granted
      BY <2>7, <2>0, Carried DEF InsertInvitation
    <3>2. PICK i \in Inv \ usedInvs :
             /\ invitations' = invitations \cup
                   {[id |-> i, org |-> r.org, email |-> r.email, role |-> r.role,
                     status |-> "PENDING", lapsed |-> FALSE]}
             /\ usedInvs' = usedInvs \cup {i}
      BY <2>7 DEF InsertInvitation
    <3>3. [id |-> i, org |-> r.org, email |-> r.email, role |-> r.role,
           status |-> "PENDING", lapsed |-> FALSE] \in Invitation
      BY <3>1 DEF Invitation
    <3>4. invitations' \subseteq Invitation /\ usedInvs' \subseteq Inv
      BY <3>2, <3>3
    <3> QED BY <2>7, <3>4, SlotEmptied DEF InsertInvitation, teams, pool
  <2>8. CASE MarkRevoked(q)
    BY <2>8, MarkedType, SlotEmptied DEF MarkRevoked, teams, pool
  <2>9. CASE Join(q)
    <3>1. r.who \in User
      BY <2>9, <2>0, Carried DEF Join
    <3>2. members' \subseteq Member /\ invitations' \subseteq Invitation
      BY <2>9, <3>1, WorkspaceAssumption DEF Join, Member, Invitation
    <3> QED BY <2>9, <3>2, SlotEmptied DEF Join, pool
  <2>10. CASE InsertRecipient(q)
    <3>1. r.org \in Org /\ r.to \in Contact
      BY <2>10, <2>0, Carried DEF InsertRecipient
    <3>2. recipients' \subseteq Recipient
      BY <2>10, <3>1 DEF InsertRecipient, Recipient
    <3> QED BY <2>10, <3>2, SlotEmptied DEF InsertRecipient, teams, invites, pool
  <2>11. CASE DropRecipient(q)
    BY <2>11, SlotEmptied DEF DropRecipient, teams, invites, pool
  <2>12. CASE InsertMonitor(q)
    <3>1. r.org \in Org \cup {Personal} /\ r.who \in User
      BY <2>12, <2>0, Carried DEF InsertMonitor
    <3>2. monitors' \subseteq MonitorRow /\ usedMons' \subseteq Monitor
      BY <2>12, <3>1 DEF InsertMonitor, MonitorRow
    <3> QED BY <2>12, <3>2, SlotEmptied DEF InsertMonitor, teams, invites
  <2>13. CASE DropMonitor(q)
    BY <2>13, SlotEmptied DEF DropMonitor, teams, invites
  <2> QED
    BY <1>2, <2>1, <2>2, <2>3, <2>4, <2>5, <2>6, <2>7, <2>8, <2>9, <2>10, <2>11, <2>12, <2>13
       DEF Writes
<1>3. ASSUME NEW q \in Req, Fails(q)
      PROVE  WTypeOK'
  BY <1>3, SlotEmptied DEF Fails, teams, invites, pool
<1>4. ASSUME NEW u \in Payer, PlanChanges(u)
      PROVE  WTypeOK'
  BY <1>4 DEF PlanChanges, teams, invites, pool
<1>5. ASSUME NEW i \in invitations, Lapse(i)
      PROVE  WTypeOK'
  <2>1. invitations' \subseteq Invitation
    BY <1>5 DEF Lapse, Invitation
  <2> QED BY <1>5, <2>1 DEF Lapse, teams, pool
<1>6. CASE UNCHANGED wvars
  BY <1>6 DEF wvars, teams, invites, pool
<1> QED
  BY <1>1, <1>2, <1>3, <1>4, <1>5, <1>6 DEF WNext

\* Every row and every request under way is well formed in every reachable state.
THEOREM WTypeCorrect == WSpec => []WTypeOK
<1>1. WTypeOK /\ [WNext]_wvars => WTypeOK'
  BY TypeStep
<1> QED BY TypeInit, <1>1, PTL DEF WSpec

-----------------------------------------------------------------------------
(* The inductive invariant. *)

\* Ids identify rows, and only used ones occur.
Ids ==
    /\ \A g \in orgs : g.id \in usedOrgs
    /\ \A g, h \in orgs : g.id = h.id => g = h
    /\ \A i \in invitations : i.id \in usedInvs
    /\ \A i, j \in invitations : i.id = j.id => i = j
    /\ \A m \in monitors : m.id \in usedMons
    /\ \A m, n \in monitors : m.id = n.id => m = n

\* What remains true of a request after its checks, whatever others write: ids
\* are not reused, so an owner, an addressee or a payer cannot be replaced.
Sound(r) ==
    /\ r.at \in {"setRole", "remove"} =>
          /\ r.org \in usedOrgs
          /\ \A m \in members : m.org = r.org /\ m.user = r.who => m.role # "OWNER"
    /\ r.at = "accept" =>
          /\ r.inv \in usedInvs
          /\ r.max <= MaxLoginSeats
          /\ \A i \in invitations : i.id = r.inv => i.email = r.who
    /\ r.at = "addMonitor" =>
          /\ r.org = Personal => r.owner = r.who
          /\ r.org # Personal => /\ r.org \in usedOrgs
                                 /\ \A g \in orgs : g.id = r.org => g.owner = r.owner

RequestsSound == \A q \in Req : Sound(req[q])

WInv == WTypeOK /\ Ids /\ OneOrganization /\ OrgsWhole /\ RequestsSound

\* How a step may change what requests rely on.
Frame ==
    /\ usedOrgs \subseteq usedOrgs' /\ usedInvs \subseteq usedInvs'
    /\ \A m \in members' : m.role = "OWNER" => m \in members \/ m.org \notin usedOrgs
    /\ \A g \in orgs' : g \in orgs \/ g.id \notin usedOrgs
    /\ \A i \in invitations' :
          i.id \notin usedInvs \/ \E j \in invitations : j.id = i.id /\ j.email = i.email

LEMMA SoundKept ==
    ASSUME NEW r, Sound(r), Frame
    PROVE  Sound(r)'
  BY DEF Sound, Frame

LEMMA SoundWhenChecked ==
    ASSUME WInv, NEW r \in Request, Checked(r)
    PROVE  Sound(r)
<1>1. CASE r.at \in {"setRole", "remove"}
  <2>1. r.org \in Org /\ r.who \in User
    BY <1>1, Carried
  <2>2. PICK m \in members : m.org = r.org /\ m.user = r.who /\ m.role # "OWNER"
    BY <1>1 DEF Checked, NotOwner
  <2>3. r.org \in usedOrgs
    BY <2>2 DEF WInv, OrgsWhole, Ids
  <2>4. \A n \in members : n.org = r.org /\ n.user = r.who => n.role # "OWNER"
    BY <2>2 DEF WInv, OneOrganization
  <2> QED BY <1>1, <2>3, <2>4 DEF Sound
<1>2. CASE r.at = "accept"
  BY <1>2 DEF Checked, Sound, WInv, Ids
<1>3. CASE r.at = "addMonitor"
  <2>1. r.org = Personal => r.owner = r.who
    BY <1>3 DEF Checked
  <2>2. ASSUME r.org # Personal
        PROVE  r.org \in usedOrgs /\ \A g \in orgs : g.id = r.org => g.owner = r.owner
    <3> DEFINE h == [id |-> r.org, owner |-> r.owner]
    <3>1. h \in orgs /\ h.id = r.org /\ h.owner = r.owner
      BY <1>3, <2>2 DEF Checked
    <3> HIDE DEF h
    <3> QED BY <3>1 DEF WInv, Ids
  <2> QED BY <1>3, <2>1, <2>2 DEF Sound
<1> QED BY <1>1, <1>2, <1>3 DEF Sound

LEMMA WInvInit == WInit => WInv
<1> SUFFICES ASSUME WInit PROVE WInv
  OBVIOUS
<1>1. WTypeOK
  BY TypeInit
<1>2. Ids /\ OneOrganization /\ OrgsWhole
  BY DEF WInit, Ids, OneOrganization, OrgsWhole
<1>3. RequestsSound
  BY IdleCarriesNothing DEF WInit, RequestsSound, Sound
<1> QED BY <1>1, <1>2, <1>3 DEF WInv

\* What a write does to the rows, action by action.
LEMMA RowsKept ==
    ASSUME WInv, NEW q \in Req, Writes(q)
    PROVE  Ids' /\ OneOrganization' /\ OrgsWhole' /\ Frame
<1> DEFINE r == req[q]
<1>t. /\ r \in Request
      /\ orgs \subseteq Organization /\ members \subseteq Member
      /\ invitations \subseteq Invitation /\ monitors \subseteq MonitorRow
      /\ usedOrgs \subseteq Org /\ usedInvs \subseteq Inv /\ usedMons \subseteq Monitor
  BY DEF WInv, WTypeOK
<1>i. Ids /\ OneOrganization /\ OrgsWhole /\ Sound(r)
  BY DEF WInv, RequestsSound
<1>1. CASE CreateOrganization(q)
  <2>1. r.at = "createOrg" /\ r.who \in User /\ UserIdIndex(r.who)
    BY <1>1, <1>t, Carried DEF CreateOrganization
  <2>2. PICK o \in Org \ usedOrgs :
           /\ orgs' = orgs \cup {[id |-> o, owner |-> r.who]}
           /\ usedOrgs' = usedOrgs \cup {o}
           /\ members' = members \cup {[org |-> o, user |-> r.who, role |-> "OWNER"]}
    BY <1>1 DEF CreateOrganization
  <2>3. UNCHANGED <<invitations, usedInvs, recipients, monitors, usedMons>>
    BY <1>1 DEF CreateOrganization, invites, pool
  <2>4. Ids'
    BY <2>2, <2>3, <1>i DEF Ids
  <2>5. OneOrganization'
    BY <2>1, <2>2, <1>i DEF OneOrganization, UserIdIndex
  <2> DEFINE x == [id |-> o, owner |-> r.who]
             y == [org |-> o, user |-> r.who, role |-> "OWNER"]
  <2>6. /\ x.id = o /\ x.owner = r.who /\ orgs' = orgs \cup {x}
        /\ y.org = o /\ y.user = r.who /\ members' = members \cup {y}
        /\ y = [org |-> x.id, user |-> x.owner, role |-> "OWNER"]
    BY <2>2
  <2> HIDE DEF x, y
  <2>7. OrgsWhole'
    BY <2>3, <2>6, <1>i DEF OrgsWhole, Live
  <2>8. Frame
    BY <2>2, <2>3, <1>i DEF Frame, Ids
  <2> QED BY <2>4, <2>5, <2>7, <2>8
<1>2. CASE DeleteOrganization(q)
  <2> DEFINE o == r.org
  <2>1. /\ orgs' = {g \in orgs : g.id # o}
        /\ members' = {m \in members : m.org # o}
        /\ invitations' = {i \in invitations : i.org # o}
        /\ recipients' = {c \in recipients : c.org # o}
        /\ monitors' = {IF m.org = o THEN [m EXCEPT !.org = Personal] ELSE m : m \in monitors}
        /\ UNCHANGED <<usedOrgs, usedInvs, usedMons>>
    BY <1>2 DEF DeleteOrganization
  <2> HIDE DEF o
  <2>2. Ids'
    BY <2>1, <1>i, <1>t DEF Ids, MonitorRow
  <2>3. OneOrganization'
    BY <2>1, <1>i DEF OneOrganization
  <2>4. \A m \in monitors' : m.org = Personal \/ (m \in monitors /\ m.org # o)
    BY <2>1, <1>t DEF MonitorRow
  <2>5. OrgsWhole'
    BY <2>1, <2>4, <1>i DEF OrgsWhole, Live
  <2>6. Frame
    BY <2>1, <1>i DEF Frame, Ids
  <2> QED BY <2>2, <2>3, <2>5, <2>6
<1>3. CASE SaveRole(q)
  <2>1. r.at = "setRole" /\ r.role \in Granted
    BY <1>3, <1>t, Carried DEF SaveRole
  <2>2. /\ members' = {IF m.org = r.org /\ m.user = r.who THEN [m EXCEPT !.role = r.role]
                                                          ELSE m : m \in members}
        /\ UNCHANGED <<orgs, usedOrgs, invitations, usedInvs, recipients, monitors, usedMons>>
    BY <1>3 DEF SaveRole, invites, pool
  <2>3. /\ r.role # "OWNER"
        /\ \A m \in members : m.org = r.org /\ m.user = r.who => m.role # "OWNER"
    BY <2>1, <1>i, WorkspaceAssumption DEF Sound
  <2>4. /\ \A m \in members' : \E n \in members :
              /\ m.org = n.org /\ m.user = n.user
              /\ m = n \/ m.role # "OWNER"
        /\ \A n \in members : n.role = "OWNER" => n \in members'
    BY <2>2, <2>3, <1>t DEF Member
  <2>5. Ids'
    BY <2>2, <1>i DEF Ids
  <2>6. OneOrganization'
    BY <2>2, <1>i, <1>t DEF OneOrganization, Member
  <2>7. OrgsWhole'
    BY <2>2, <2>4, <1>i DEF OrgsWhole, Live
  <2>8. Frame
    BY <2>2, <2>4, <1>i DEF Frame, Ids
  <2> QED BY <2>5, <2>6, <2>7, <2>8
<1>4. CASE DropMember(q)
  <2>1. r.at = "remove"
    BY <1>4 DEF DropMember
  <2>2. /\ members' = {m \in members : ~(m.org = r.org /\ m.user = r.who)}
        /\ UNCHANGED <<orgs, usedOrgs, invitations, usedInvs, recipients, monitors, usedMons>>
    BY <1>4 DEF DropMember, invites, pool
  <2>3. \A m \in members : m.role = "OWNER" => m \in members'
    BY <2>1, <2>2, <1>i DEF Sound
  <2>4. Ids' /\ OneOrganization'
    BY <2>2, <1>i DEF Ids, OneOrganization
  <2>5. OrgsWhole'
    BY <2>2, <2>3, <1>i DEF OrgsWhole, Live
  <2>6. Frame
    BY <2>2, <1>i DEF Frame, Ids
  <2> QED BY <2>4, <2>5, <2>6
<1>5. ASSUME NEW id, NEW st \in {"EXPIRED", "REVOKED"},
             invitations' = Marked(id, st),
             UNCHANGED <<teams, usedInvs, recipients, pool>>
      PROVE  Ids' /\ OneOrganization' /\ OrgsWhole' /\ Frame
  <2>1. UNCHANGED <<orgs, usedOrgs, members, usedInvs, recipients, monitors, usedMons>>
    BY <1>5 DEF teams, pool
  <2>2. \A i \in invitations' : \E j \in invitations :
            i.id = j.id /\ i.org = j.org /\ i.email = j.email
    BY <1>5, <1>t DEF Marked, Invitation
  <2>3. Ids'
    BY <1>5, <2>1, <1>i, <1>t DEF Ids, Marked, Invitation
  <2>4. OneOrganization'
    BY <2>1, <1>i DEF OneOrganization
  <2>5. OrgsWhole'
    BY <2>1, <2>2, <1>i DEF OrgsWhole, Live
  <2>6. Frame
    BY <2>1, <2>2, <1>i DEF Frame, Ids
  <2> QED BY <2>3, <2>4, <2>5, <2>6
<1>6. CASE ExpireInvitation(q)
  BY <1>5, <1>6 DEF ExpireInvitation
<1>7. CASE CheckSeats(q)
  <2>1. UNCHANGED <<orgs, usedOrgs, members, invitations, usedInvs, recipients, monitors, usedMons>>
    BY <1>7 DEF CheckSeats, teams, invites, pool
  <2> QED BY <2>1, <1>i DEF Ids, OneOrganization, OrgsWhole, Live, Frame
<1>8. CASE InsertInvitation(q)
  <2>1. r.org \in Org /\ r.email \in User /\ r.role \in Granted /\ Live(r.org)
    BY <1>8, <1>t, Carried DEF InsertInvitation
  <2>2. PICK i \in Inv \ usedInvs :
           /\ invitations' = invitations \cup
                 {[id |-> i, org |-> r.org, email |-> r.email, role |-> r.role,
                   status |-> "PENDING", lapsed |-> FALSE]}
           /\ usedInvs' = usedInvs \cup {i}
    BY <1>8 DEF InsertInvitation
  <2>3. UNCHANGED <<orgs, usedOrgs, members, recipients, monitors, usedMons>>
    BY <1>8 DEF InsertInvitation, teams, pool
  <2> DEFINE x == [id |-> i, org |-> r.org, email |-> r.email, role |-> r.role,
                   status |-> "PENDING", lapsed |-> FALSE]
  <2>4. x.id = i /\ x.org = r.org /\ invitations' = invitations \cup {x}
    BY <2>2
  <2> HIDE DEF x
  <2>5. Ids'
    BY <2>2, <2>3, <2>4, <1>i DEF Ids
  <2>6. OneOrganization'
    BY <2>3, <1>i DEF OneOrganization
  <2>7. OrgsWhole'
    BY <2>1, <2>3, <2>4, <1>i DEF OrgsWhole, Live
  <2>8. Frame
    BY <2>2, <2>3, <2>4, <1>i DEF Frame, Ids
  <2> QED BY <2>5, <2>6, <2>7, <2>8
<1>9. CASE MarkRevoked(q)
  BY <1>5, <1>9 DEF MarkRevoked
<1>10. CASE Join(q)
  <2>1. r.who \in User
    BY <1>10, <1>t, Carried DEF Join
  <2>2. PICK i \in invitations :
           /\ UserIdIndex(r.who)
           /\ members' = members \cup {[org |-> i.org, user |-> r.who, role |-> i.role]}
           /\ invitations' = (invitations \ {i}) \cup {[i EXCEPT !.status = "ACCEPTED"]}
    BY <1>10 DEF Join
  <2>3. UNCHANGED <<orgs, usedOrgs, usedInvs, recipients, monitors, usedMons>>
    BY <1>10 DEF Join, pool
  <2> DEFINE x == [org |-> i.org, user |-> r.who, role |-> i.role]
             j == [i EXCEPT !.status = "ACCEPTED"]
  <2>4. /\ x.org = i.org /\ x.user = r.who /\ x.role = i.role /\ x.role # "OWNER"
        /\ members' = members \cup {x}
    BY <2>2, <1>t, WorkspaceAssumption DEF Invitation
  <2>5. /\ j.id = i.id /\ j.org = i.org /\ j.email = i.email
        /\ invitations' = (invitations \ {i}) \cup {j}
    BY <2>2, <1>t DEF Invitation
  <2> HIDE DEF x, j
  <2>6. Ids'
    BY <2>3, <2>5, <1>i DEF Ids
  <2>7. OneOrganization'
    BY <2>2, <2>4, <1>i DEF OneOrganization, UserIdIndex
  <2>8. OrgsWhole'
    BY <2>3, <2>4, <2>5, <1>i DEF OrgsWhole, Live
  <2>9. Frame
    BY <2>3, <2>4, <2>5, <1>i DEF Frame, Ids
  <2> QED BY <2>6, <2>7, <2>8, <2>9
<1>11. CASE InsertRecipient(q)
  <2>1. UNCHANGED <<orgs, usedOrgs, members, invitations, usedInvs, monitors, usedMons>>
    BY <1>11 DEF InsertRecipient, teams, invites, pool
  <2>2. \A c \in recipients' : c \in recipients \/ Live(c.org)
    BY <1>11 DEF InsertRecipient
  <2>3. OrgsWhole'
    BY <2>1, <2>2, <1>i DEF OrgsWhole, Live
  <2> QED BY <2>1, <2>3, <1>i DEF Ids, OneOrganization, Frame
<1>12. CASE DropRecipient(q)
  <2>1. UNCHANGED <<orgs, usedOrgs, members, invitations, usedInvs, monitors, usedMons>>
    BY <1>12 DEF DropRecipient, teams, invites, pool
  <2>2. \A c \in recipients' : c \in recipients
    BY <1>12 DEF DropRecipient
  <2>3. OrgsWhole'
    BY <2>1, <2>2, <1>i DEF OrgsWhole, Live
  <2> QED BY <2>1, <2>3, <1>i DEF Ids, OneOrganization, Frame
<1>13. CASE InsertMonitor(q)
  <2>1. r.org = Personal \/ Live(r.org)
    BY <1>13 DEF InsertMonitor
  <2>2. PICK m \in Monitor \ usedMons :
           /\ monitors' = monitors \cup {[id |-> m, user |-> r.who, org |-> r.org]}
           /\ usedMons' = usedMons \cup {m}
    BY <1>13 DEF InsertMonitor
  <2>3. UNCHANGED <<orgs, usedOrgs, members, invitations, usedInvs, recipients>>
    BY <1>13 DEF InsertMonitor, teams, invites
  <2>4. Ids'
    BY <2>2, <2>3, <1>i DEF Ids
  <2>5. OrgsWhole'
    BY <2>1, <2>2, <2>3, <1>i DEF OrgsWhole, Live
  <2> QED BY <2>3, <2>4, <2>5, <1>i DEF OneOrganization, Frame
<1>14. CASE DropMonitor(q)
  <2>1. monitors' \subseteq monitors
    BY <1>14 DEF DropMonitor
  <2>2. UNCHANGED <<orgs, usedOrgs, members, invitations, usedInvs, recipients, usedMons>>
    BY <1>14 DEF DropMonitor, teams, invites
  <2>3. OrgsWhole'
    BY <2>1, <2>2, <1>i DEF OrgsWhole, Live
  <2> QED BY <2>1, <2>2, <2>3, <1>i DEF Ids, OneOrganization, Frame
<1> QED
  BY <1>1, <1>2, <1>3, <1>4, <1>6, <1>7, <1>8, <1>9, <1>10, <1>11, <1>12, <1>13, <1>14
     DEF Writes

\* What becomes of the slots: a write ends its request or moves it to a later
\* part of CreateInvitation.
LEMMA SlotsKept ==
    ASSUME WTypeOK, NEW q \in Req, Writes(q), NEW p \in Req
    PROVE  req'[p] = req[p] \/ req'[p].at \in {"idle", "invite", "insertInv"}
<1>t. req \in [Req -> Request]
  BY DEF WTypeOK
<1>1. CASE Ends(q)
  BY <1>1, <1>t, SlotEmptied, IdleCarriesNothing
<1>2. CASE ExpireInvitation(q)
  <2>1. req[q].at = "invite"
    BY <1>2 DEF ExpireInvitation
  <2>2. PICK i : req' = [req EXCEPT ![q].old = @ \ {i}]
    BY <1>2 DEF ExpireInvitation
  <2>3. req[q] \in [at : {"invite"}, org : Org, email : User, role : Granted, old : SUBSET Inv]
    BY <2>1, <1>t DEF Request, Idle
  <2> QED BY <2>1, <2>2, <2>3, <1>t
<1>3. CASE CheckSeats(q)
  BY <1>3, <1>t DEF CheckSeats
<1> QED
  BY <1>1, <1>2, <1>3
     DEF Writes, CreateOrganization, DeleteOrganization, SaveRole, DropMember, InsertInvitation,
         MarkRevoked, Join, InsertRecipient, DropRecipient, InsertMonitor, DropMonitor

LEMMA WInvStep ==
    ASSUME WInv, [WNext]_wvars
    PROVE  WInv'
<1>t. WTypeOK /\ WTypeOK'
  BY TypeStep DEF WInv
<1>i. Ids /\ OneOrganization /\ OrgsWhole /\ RequestsSound
  BY DEF WInv
<1>1. ASSUME NEW q \in Req, Checks(q)
      PROVE  Ids' /\ OneOrganization' /\ OrgsWhole' /\ RequestsSound'
  <2>1. PICK r \in Request : Begins(q, r) /\ Checked(r)
    BY <1>1, <1>t, ChecksBegin
  <2>2. UNCHANGED <<orgs, usedOrgs, members, invitations, usedInvs, recipients, monitors, usedMons>>
    BY <2>1 DEF Begins, teams, invites, pool
  <2>3. \A p \in Req : req'[p] = req[p] \/ req'[p] = r
    BY <2>1, <1>t DEF Begins, WTypeOK
  <2>4. Sound(r)
    BY <2>1, SoundWhenChecked
  <2>5. RequestsSound'
    BY <2>2, <2>3, <2>4, <1>i DEF RequestsSound, Sound
  <2> QED BY <2>2, <2>5, <1>i DEF Ids, OneOrganization, OrgsWhole, Live
<1>2. ASSUME NEW q \in Req, Writes(q)
      PROVE  Ids' /\ OneOrganization' /\ OrgsWhole' /\ RequestsSound'
  <2>1. Ids' /\ OneOrganization' /\ OrgsWhole' /\ Frame
    BY <1>2, RowsKept
  <2>2. ASSUME NEW p \in Req
        PROVE  Sound(req[p])'
    <3>1. CASE req'[p] = req[p]
      <4>1. Sound(req[p])
        BY <1>i DEF RequestsSound
      <4> QED BY <3>1, <4>1, <2>1 DEF Sound, Frame
    <3>2. CASE req'[p].at \in {"idle", "invite", "insertInv"}
      BY <3>2 DEF Sound
    <3> QED BY <3>1, <3>2, <1>2, <1>t, SlotsKept
  <2> QED BY <2>1, <2>2 DEF RequestsSound
<1>3. ASSUME NEW q \in Req, Fails(q)
      PROVE  Ids' /\ OneOrganization' /\ OrgsWhole' /\ RequestsSound'
  <2>1. UNCHANGED <<orgs, usedOrgs, members, invitations, usedInvs, recipients, monitors, usedMons>>
    BY <1>3 DEF Fails, teams, invites, pool
  <2>2. \A p \in Req : req'[p] = req[p] \/ req'[p].at = "idle"
    BY <1>3, <1>t, SlotEmptied, IdleCarriesNothing DEF Fails, WTypeOK
  <2>3. RequestsSound'
    BY <2>1, <2>2, <1>i DEF RequestsSound, Sound
  <2> QED BY <2>1, <2>3, <1>i DEF Ids, OneOrganization, OrgsWhole, Live
<1>4. ASSUME NEW i \in invitations, Lapse(i)
      PROVE  Ids' /\ OneOrganization' /\ OrgsWhole' /\ RequestsSound'
  <2>1. UNCHANGED <<orgs, usedOrgs, members, usedInvs, recipients, monitors, usedMons, req>>
    BY <1>4 DEF Lapse, teams, pool
  <2> DEFINE j == [i EXCEPT !.lapsed = TRUE]
  <2>2. /\ j.id = i.id /\ j.org = i.org /\ j.email = i.email
        /\ invitations' = (invitations \ {i}) \cup {j}
    BY <1>4, <1>t DEF Lapse, WTypeOK, Invitation
  <2> HIDE DEF j
  <2>3. Ids' /\ OneOrganization'
    BY <2>1, <2>2, <1>i DEF Ids, OneOrganization
  <2>4. OrgsWhole'
    BY <2>1, <2>2, <1>i DEF OrgsWhole, Live
  <2>5. RequestsSound'
    BY <2>1, <2>2, <1>i DEF RequestsSound, Sound
  <2> QED BY <2>3, <2>4, <2>5
<1>5. CASE UNCHANGED <<teams, invites, recipients, pool, req>>
  <2>1. UNCHANGED <<orgs, usedOrgs, members, invitations, usedInvs, recipients, monitors, usedMons, req>>
    BY <1>5 DEF teams, invites, pool
  <2>2. RequestsSound'
    BY <2>1, <1>i DEF RequestsSound, Sound
  <2>3. Ids' /\ OneOrganization' /\ OrgsWhole'
    BY <2>1, <1>i DEF Ids, OneOrganization, OrgsWhole, Live
  <2> QED BY <2>2, <2>3, <1>t DEF WInv
<1> QED
  BY <1>t, <1>1, <1>2, <1>3, <1>4, <1>5 DEF WInv, WNext, PlanChanges, wvars

LEMMA WInvCorrect == WSpec => []WInv
<1>1. WInv /\ [WNext]_wvars => WInv'
  BY WInvStep
<1> QED BY WInvInit, <1>1, PTL DEF WSpec

\* Nobody ever belongs to two organizations: UserIdIndex refuses what the check
\* in CreateOrg and AcceptInvitation missed.
THEOREM OneOrgCorrect == WSpec => []OneOrganization
  BY WInvCorrect, PTL DEF WInv

\* The billed account stays the one owner of its organization, and no row
\* outlives the organization it belongs to: NotOwner is checked before the write
\* of UpdateMemberRole and RemoveMember, and stays true until it.
THEOREM OrgsWholeCorrect == WSpec => []OrgsWhole
  BY WInvCorrect, PTL DEF WInv

-----------------------------------------------------------------------------
(* How invitations are used. *)

\* Only Join adds a row that is not an owner's.
LEMMA JoinsStep ==
    ASSUME WInv, [WNext]_wvars, NEW m \in members', m.role # "OWNER",
           ~\E n \in members : n.org = m.org /\ n.user = m.user
    PROVE  \E i \in invitations :
              /\ i.org = m.org /\ i.email = m.user /\ i.role = m.role
              /\ i.status = "PENDING" /\ ~i.lapsed
              /\ [i EXCEPT !.status = "ACCEPTED"] \in invitations'
<1>t. WTypeOK /\ RequestsSound /\ m \notin members
  BY DEF WInv
<1>1. CASE UNCHANGED members
  BY <1>1, <1>t
<1>2. ASSUME NEW q \in Req, Join(q)
      PROVE  \E i \in invitations :
                /\ i.org = m.org /\ i.email = m.user /\ i.role = m.role
                /\ i.status = "PENDING" /\ ~i.lapsed
                /\ [i EXCEPT !.status = "ACCEPTED"] \in invitations'
  <2>1. PICK i \in invitations :
           /\ i.id = req[q].inv /\ StillOpen(i)
           /\ members' = members \cup {[org |-> i.org, user |-> req[q].who, role |-> i.role]}
           /\ invitations' = (invitations \ {i}) \cup {[i EXCEPT !.status = "ACCEPTED"]}
    BY <1>2 DEF Join
  <2>2. i.email = req[q].who
    BY <1>2, <1>t, <2>1 DEF Join, RequestsSound, Sound
  <2>3. m = [org |-> i.org, user |-> req[q].who, role |-> i.role]
    BY <2>1, <1>t
  <2> QED BY <2>1, <2>2, <2>3 DEF StillOpen, Open
<1>3. ASSUME NEW q \in Req,
             CreateOrganization(q) \/ DeleteOrganization(q) \/ DropMember(q)
      PROVE  FALSE
  BY <1>3, <1>t DEF CreateOrganization, DeleteOrganization, DropMember
<1>4. ASSUME NEW q \in Req, SaveRole(q)
      PROVE  FALSE
  <2>1. PICK n \in members :
           m = IF n.org = req[q].org /\ n.user = req[q].who
                 THEN [n EXCEPT !.role = req[q].role] ELSE n
    BY <1>4 DEF SaveRole
  <2>2. n.org = m.org /\ n.user = m.user
    BY <2>1, <1>t DEF WTypeOK, Member
  <2> QED BY <2>2
<1>5. ASSUME NEW q \in Req, Checks(q)
      PROVE  UNCHANGED members
  BY <1>5, <1>t, ChecksBegin DEF Begins, teams
<1> QED
  BY <1>1, <1>2, <1>3, <1>4, <1>5
     DEF WNext, Writes, Fails, PlanChanges, Lapse, ExpireInvitation, CheckSeats, InsertInvitation,
         MarkRevoked, InsertRecipient, DropRecipient, InsertMonitor, DropMonitor, wvars, teams

\* Only an open invitation admits its addressee, and it is spent by that: what
\* AcceptInvitation saw before its transaction does not matter.
THEOREM JoinsCorrect == WSpec => JoinsByInvitation
<1>1. WInv /\ [WNext]_wvars =>
        [\A m \in members' :
            (m.role # "OWNER" /\ ~\E n \in members : n.org = m.org /\ n.user = m.user)
              => \E i \in invitations :
                    /\ i.org = m.org /\ i.email = m.user /\ i.role = m.role
                    /\ i.status = "PENDING" /\ ~i.lapsed
                    /\ [i EXCEPT !.status = "ACCEPTED"] \in invitations']_wvars
  BY JoinsStep
<1> QED BY <1>1, WInvCorrect, PTL DEF WSpec, JoinsByInvitation

\* Rows that are settled stay, but for DeleteOrganization.
LEMMA SettledStep ==
    ASSUME WInv, [WNext]_wvars, NEW i \in invitations, i.status # "PENDING"
    PROVE  i \in invitations' \/ i.org \notin {g.id : g \in orgs'}
<1>1. CASE UNCHANGED invitations
  BY <1>1
<1>2. ASSUME NEW id, NEW st, invitations' = Marked(id, st)
      PROVE  i \in invitations'
  BY <1>2 DEF Marked
<1>3. ASSUME NEW q \in Req, ExpireInvitation(q) \/ MarkRevoked(q)
      PROVE  i \in invitations'
  BY <1>2, <1>3 DEF ExpireInvitation, MarkRevoked
<1>4. ASSUME NEW q \in Req, Join(q) \/ InsertInvitation(q)
      PROVE  i \in invitations'
  BY <1>4 DEF Join, InsertInvitation, StillOpen, Open
<1>5. ASSUME NEW j \in invitations, Lapse(j)
      PROVE  i \in invitations'
  BY <1>5 DEF Lapse, Open
<1>6. ASSUME NEW q \in Req, DeleteOrganization(q)
      PROVE  i \in invitations' \/ i.org \notin {g.id : g \in orgs'}
  BY <1>6 DEF DeleteOrganization
<1>7. ASSUME NEW q \in Req, Checks(q)
      PROVE  UNCHANGED invitations
  BY <1>7, ChecksBegin DEF Begins, invites, WInv
<1> QED
  BY <1>1, <1>3, <1>4, <1>5, <1>6, <1>7
     DEF WNext, Writes, Fails, PlanChanges, CreateOrganization, SaveRole, DropMember, CheckSeats,
         InsertRecipient, DropRecipient, InsertMonitor, DropMonitor, wvars, invites

\* An accepted, revoked or expired invitation stays what it is, although
\* revocations and expiries are decided in an earlier step than they are written.
THEOREM SettledCorrect == WSpec => SettledForGood
<1>1. WInv /\ [WNext]_wvars =>
        [\A i \in invitations :
            i.status # "PENDING" => i \in invitations' \/ i.org \notin {g.id : g \in orgs'}]_wvars
  BY SettledStep
<1> QED BY <1>1, WInvCorrect, PTL DEF WSpec, SettledForGood

-----------------------------------------------------------------------------
(* Counting. *)

LEMMA FewerRows ==
    ASSUME NEW S, IsFiniteSet(S), NEW T, T \subseteq S
    PROVE  /\ IsFiniteSet(T) /\ Cardinality(T) <= Cardinality(S)
           /\ Cardinality(S) \in Nat /\ Cardinality(T) \in Nat
<1>1. IsFiniteSet(T) /\ Cardinality(T) <= Cardinality(S)
  BY FS_Subset
<1> QED BY <1>1, FS_CardinalityType

LEMMA OneRowMore ==
    ASSUME NEW S, IsFiniteSet(S), NEW x, NEW T, T \subseteq S \cup {x}
    PROVE  Cardinality(T) <= Cardinality(S) + 1
<1>1. /\ IsFiniteSet(S \cup {x})
      /\ Cardinality(S \cup {x}) = IF x \in S THEN Cardinality(S) ELSE Cardinality(S) + 1
  BY FS_AddElement
<1>2. Cardinality(S) \in Nat
  BY FS_CardinalityType
<1>3. Cardinality(T) <= Cardinality(S \cup {x}) /\ Cardinality(T) \in Nat
  BY <1>1, FewerRows
<1> QED BY <1>1, <1>2, <1>3

LEMMA OneRowLess ==
    ASSUME NEW S, IsFiniteSet(S), NEW x \in S, NEW T, T \subseteq S \ {x}
    PROVE  Cardinality(T) <= Cardinality(S) - 1
<1>1. IsFiniteSet(S \ {x}) /\ Cardinality(S \ {x}) = Cardinality(S) - 1
  BY FS_RemoveElement
<1>2. Cardinality(T) <= Cardinality(S \ {x})
  BY <1>1, FewerRows
<1> QED BY <1>1, <1>2

\* A row has its user or its id to itself, and there are finitely many of those.
LEMMA RowsFinite ==
    ASSUME WInv
    PROVE  IsFiniteSet(members) /\ IsFiniteSet(invitations) /\ IsFiniteSet(monitors)
<1>t. /\ members \subseteq Member /\ invitations \subseteq Invitation
      /\ monitors \subseteq MonitorRow /\ Ids /\ OneOrganization
  BY DEF WInv, WTypeOK
<1>1. IsFiniteSet(members)
  <2> DEFINE f == [m \in members |-> m.user]
  <2>1. f \in Injection(members, User)
    BY <1>t DEF Injection, IsInjective, Member, OneOrganization
  <2> QED BY <2>1, FS_Injection, WorkspaceAssumption
<1>2. IsFiniteSet(invitations)
  <2> DEFINE f == [i \in invitations |-> i.id]
  <2>1. f \in Injection(invitations, Inv)
    BY <1>t DEF Injection, IsInjective, Invitation, Ids
  <2> QED BY <2>1, FS_Injection, WorkspaceAssumption
<1>3. IsFiniteSet(monitors)
  <2> DEFINE f == [m \in monitors |-> m.id]
  <2>1. f \in Injection(monitors, Monitor)
    BY <1>t DEF Injection, IsInjective, MonitorRow, Ids
  <2> QED BY <2>1, FS_Injection, WorkspaceAssumption
<1> QED BY <1>1, <1>2, <1>3

-----------------------------------------------------------------------------
(* Seats. *)

Taken(o) == Cardinality(NonOwners(o))
Promised(o) == Cardinality(Pending(o))
Promising(o) == Cardinality(Inviting(o))

LEMMA SeatNumbers ==
    ASSUME WInv, NEW o \in Org
    PROVE  /\ Taken(o) \in Nat /\ Promised(o) \in Nat /\ Promising(o) \in Nat
           /\ IsFiniteSet(NonOwners(o)) /\ IsFiniteSet(Pending(o)) /\ IsFiniteSet(Inviting(o))
           /\ Promising(o) <= Cardinality(Req)
           /\ Cardinality(Req) \in Nat /\ Cardinality(Req) >= 1
<1>1. IsFiniteSet(NonOwners(o)) /\ Taken(o) \in Nat
  <2>1. NonOwners(o) \subseteq members
    BY DEF NonOwners
  <2> QED BY <2>1, RowsFinite, FewerRows DEF Taken
<1>2. IsFiniteSet(Pending(o)) /\ Promised(o) \in Nat
  <2>1. Pending(o) \subseteq invitations
    BY DEF Pending
  <2> QED BY <2>1, RowsFinite, FewerRows DEF Promised
<1>3. /\ IsFiniteSet(Inviting(o)) /\ Promising(o) \in Nat
      /\ Promising(o) <= Cardinality(Req) /\ Cardinality(Req) \in Nat
  <2>1. Inviting(o) \subseteq Req
    BY DEF Inviting
  <2> QED BY <2>1, WorkspaceAssumption, FewerRows DEF Promising
<1>4. Cardinality(Req) >= 1
  BY <1>3, FS_EmptySet, WorkspaceAssumption
<1> QED BY <1>1, <1>2, <1>3, <1>4

\* The seats of an organization move in one of four ways: none is added; one is
\* being promised, which was free; it is promised; it is taken, and was free.
Moves(o) ==
    \/ Taken(o)' <= Taken(o) /\ Promised(o)' <= Promised(o) /\ Promising(o)' <= Promising(o)
    \/ /\ Taken(o)' <= Taken(o) /\ Promised(o)' <= Promised(o)
       /\ Taken(o) + Promised(o) < MaxLoginSeats
    \/ /\ Taken(o)' <= Taken(o) /\ Promised(o)' <= Promised(o) + 1
       /\ Promising(o)' <= Promising(o) - 1
    \/ /\ Taken(o)' <= Taken(o) + 1 /\ Taken(o) < MaxLoginSeats
       /\ Promised(o)' <= Promised(o) - 1 /\ Promising(o)' <= Promising(o)

LEMMA NothingAdded ==
    ASSUME WInv, NEW o \in Org,
           NonOwners(o)' \subseteq NonOwners(o), Pending(o)' \subseteq Pending(o),
           Inviting(o)' \subseteq Inviting(o)
    PROVE  Moves(o)
<1>1. Taken(o)' <= Taken(o)
  BY SeatNumbers, FewerRows DEF Taken
<1>2. Promised(o)' <= Promised(o)
  BY SeatNumbers, FewerRows DEF Promised
<1>3. Promising(o)' <= Promising(o)
  BY SeatNumbers, FewerRows DEF Promising
<1> QED BY <1>1, <1>2, <1>3 DEF Moves

\* A request that ends is not promising a seat any more.
LEMMA EndsPromisesLess ==
    ASSUME WInv, NEW q \in Req, Ends(q), NEW o \in Org
    PROVE  Inviting(o)' = Inviting(o) \ {q}
<1>1. \A p \in Req : req'[p] = IF p = q THEN Idle ELSE req[p]
  BY SlotEmptied DEF WInv, WTypeOK
<1> QED BY <1>1, IdleCarriesNothing DEF Inviting

LEMMA SeatsMove ==
    ASSUME WInv, [WNext]_wvars, NEW o \in Org
    PROVE  Moves(o)
<1>t. /\ req \in [Req -> Request] /\ members \subseteq Member
      /\ invitations \subseteq Invitation /\ RequestsSound
  BY DEF WInv, WTypeOK
<1>n. /\ Taken(o) \in Nat /\ Promised(o) \in Nat /\ Promising(o) \in Nat
      /\ IsFiniteSet(NonOwners(o)) /\ IsFiniteSet(Pending(o)) /\ IsFiniteSet(Inviting(o))
  BY SeatNumbers
<1>1. ASSUME NEW q \in Req, Ends(q), members' \subseteq members,
             invitations' \subseteq invitations
      PROVE  Moves(o)
  <2>1. NonOwners(o)' \subseteq NonOwners(o) /\ Pending(o)' \subseteq Pending(o)
    BY <1>1 DEF NonOwners, Pending, Open
  <2> QED BY <1>1, <2>1, EndsPromisesLess, NothingAdded
<1>2. ASSUME NEW q \in Req, CreateOrganization(q)
      PROVE  Moves(o)
  <2>1. NonOwners(o)' \subseteq NonOwners(o)
    BY <1>2 DEF CreateOrganization, NonOwners
  <2>2. Pending(o)' = Pending(o)
    BY <1>2 DEF CreateOrganization, Pending, Open, invites
  <2> QED BY <1>2, <2>1, <2>2, EndsPromisesLess, NothingAdded DEF CreateOrganization
<1>3. ASSUME NEW q \in Req, SaveRole(q)
      PROVE  Moves(o)
  <2> DEFINE r == req[q]
             f == [m \in NonOwners(o) |-> IF m.org = r.org /\ m.user = r.who
                                            THEN [m EXCEPT !.role = r.role] ELSE m]
  <2>1. /\ r.role # "OWNER"
        /\ \A m \in members : m.org = r.org /\ m.user = r.who => m.role # "OWNER"
    <3>1. r.role \in Granted
      BY <1>3, <1>t, Carried DEF SaveRole
    <3> QED BY <3>1, <1>3, <1>t, WorkspaceAssumption DEF SaveRole, RequestsSound, Sound
  <2>2. members' = {IF m.org = r.org /\ m.user = r.who THEN [m EXCEPT !.role = r.role]
                                                       ELSE m : m \in members}
    BY <1>3 DEF SaveRole
  <2> HIDE DEF r
  <2>3. \A x \in NonOwners(o)' : \E m \in NonOwners(o) : f[m] = x
    BY <2>1, <2>2, <1>t DEF NonOwners, Member
  <2>4. \A m \in NonOwners(o) : f[m] \in NonOwners(o)'
    BY <2>1, <2>2, <1>t DEF NonOwners, Member
  <2>5. f \in Surjection(NonOwners(o), NonOwners(o)')
    BY <2>3, <2>4 DEF Surjection
  <2>6. Taken(o)' <= Taken(o)
    BY <2>5, <1>n, FS_Surjection DEF Taken
  <2>7. Pending(o)' = Pending(o)
    BY <1>3 DEF SaveRole, Pending, Open, invites
  <2>8. Inviting(o)' \subseteq Inviting(o)
    BY <1>3, EndsPromisesLess DEF SaveRole
  <2>9. Promised(o)' <= Promised(o) /\ Promising(o)' <= Promising(o)
    BY <2>7, <2>8, <1>n, FewerRows DEF Promised, Promising
  <2> QED BY <2>6, <2>9 DEF Moves
<1>4. ASSUME NEW id, NEW st \in {"EXPIRED", "REVOKED"}, invitations' = Marked(id, st)
      PROVE  Pending(o)' \subseteq Pending(o)
  BY <1>4, <1>t DEF Marked, Pending, Open, Invitation
<1>5. ASSUME NEW q \in Req, ExpireInvitation(q)
      PROVE  Moves(o)
  <2>1. Pending(o)' \subseteq Pending(o)
    BY <1>4, <1>5 DEF ExpireInvitation
  <2>2. NonOwners(o)' = NonOwners(o)
    BY <1>5 DEF ExpireInvitation, NonOwners, teams
  <2>3. req[q].at = "invite"
    BY <1>5 DEF ExpireInvitation
  <2>4. PICK i : req' = [req EXCEPT ![q].old = @ \ {i}]
    BY <1>5 DEF ExpireInvitation
  <2>5. req[q] \in [at : {"invite"}, org : Org, email : User, role : Granted, old : SUBSET Inv]
    BY <2>3, <1>t DEF Request, Idle
  <2>6. Inviting(o)' \subseteq Inviting(o)
    BY <2>3, <2>4, <2>5, <1>t DEF Inviting
  <2> QED BY <2>1, <2>2, <2>6, NothingAdded
<1>6. ASSUME NEW q \in Req, MarkRevoked(q)
      PROVE  Moves(o)
  <2>1. Pending(o)' \subseteq Pending(o)
    BY <1>4, <1>6 DEF MarkRevoked
  <2>2. NonOwners(o)' = NonOwners(o)
    BY <1>6 DEF MarkRevoked, NonOwners, teams
  <2> QED BY <1>6, <2>1, <2>2, EndsPromisesLess, NothingAdded DEF MarkRevoked
<1>7. ASSUME NEW q \in Req, CheckSeats(q)
      PROVE  Moves(o)
  <2> DEFINE r == req[q]
             s == [at |-> "insertInv", org |-> r.org, email |-> r.email, role |-> r.role]
  <2>1. NonOwners(o)' = NonOwners(o) /\ Pending(o)' = Pending(o)
    BY <1>7 DEF CheckSeats, NonOwners, Pending, Open, teams, invites
  <2>2. Taken(o)' <= Taken(o) /\ Promised(o)' <= Promised(o)
    BY <2>1, <1>n DEF Taken, Promised
  <2>3. \A p \in Req : req'[p] = IF p = q THEN s ELSE req[p]
    BY <1>7, <1>t DEF CheckSeats
  <2>4. CASE r.org = o
    <3>1. PICK p \in planForOrg(o) : SeatsUsed(o) < SeatsForPlan(p)
      BY <1>7, <2>4 DEF CheckSeats
    <3>2. SeatsForPlan(p) \in Nat /\ SeatsForPlan(p) <= MaxLoginSeats /\ MaxLoginSeats \in Nat
      BY <3>1, PlansRead, WorkspaceAssumption DEF WInv
    <3>3. Taken(o) + Promised(o) < MaxLoginSeats
      BY <3>1, <3>2, <1>n DEF SeatsUsed, Taken, Promised
    <3> QED BY <2>2, <3>3 DEF Moves
  <2>5. CASE r.org # o
    <3>1. s.org = r.org
      OBVIOUS
    <3> HIDE DEF s
    <3>2. Inviting(o)' \subseteq Inviting(o)
      BY <2>3, <2>5, <3>1 DEF Inviting
    <3> QED BY <2>1, <3>2, NothingAdded
  <2> QED BY <2>4, <2>5
<1>8. ASSUME NEW q \in Req, InsertInvitation(q)
      PROVE  Moves(o)
  <2> DEFINE r == req[q]
  <2>1. PICK i \in Inv \ usedInvs :
           invitations' = invitations \cup
                 {[id |-> i, org |-> r.org, email |-> r.email, role |-> r.role,
                   status |-> "PENDING", lapsed |-> FALSE]}
    BY <1>8 DEF InsertInvitation
  <2> DEFINE x == [id |-> i, org |-> r.org, email |-> r.email, role |-> r.role,
                   status |-> "PENDING", lapsed |-> FALSE]
  <2>2. x.org = r.org /\ invitations' = invitations \cup {x}
    BY <2>1
  <2> HIDE DEF x
  <2>3. NonOwners(o)' = NonOwners(o)
    BY <1>8 DEF InsertInvitation, NonOwners, teams
  <2>4. Taken(o)' <= Taken(o)
    BY <2>3, <1>n DEF Taken
  <2>5. Inviting(o)' = Inviting(o) \ {q}
    BY <1>8, EndsPromisesLess DEF InsertInvitation
  <2>6. CASE r.org = o
    <3>1. q \in Inviting(o)
      BY <1>8, <2>6 DEF InsertInvitation, Inviting
    <3>2. Promising(o)' <= Promising(o) - 1
      BY <3>1, <2>5, <1>n, OneRowLess DEF Promising
    <3>3. Pending(o)' \subseteq Pending(o) \cup {x}
      BY <2>2 DEF Pending, Open
    <3>4. Promised(o)' <= Promised(o) + 1
      BY <3>3, <1>n, OneRowMore DEF Promised
    <3> QED BY <2>4, <3>2, <3>4 DEF Moves
  <2>7. CASE r.org # o
    <3>1. Pending(o)' \subseteq Pending(o)
      BY <2>2, <2>7 DEF Pending, Open
    <3> QED BY <2>3, <2>5, <3>1, NothingAdded
  <2> QED BY <2>6, <2>7
<1>9. ASSUME NEW q \in Req, Join(q)
      PROVE  Moves(o)
  <2> DEFINE r == req[q]
  <2>1. PICK i \in invitations :
           /\ StillOpen(i) /\ SeatFree(i, r.max)
           /\ members' = members \cup {[org |-> i.org, user |-> r.who, role |-> i.role]}
           /\ invitations' = (invitations \ {i}) \cup {[i EXCEPT !.status = "ACCEPTED"]}
    BY <1>9 DEF Join
  <2> DEFINE x == [org |-> i.org, user |-> r.who, role |-> i.role]
             j == [i EXCEPT !.status = "ACCEPTED"]
  <2>2. x.org = i.org /\ members' = members \cup {x}
    BY <2>1
  <2>3. j.status = "ACCEPTED" /\ invitations' = (invitations \ {i}) \cup {j}
    BY <2>1, <1>t DEF Invitation
  <2>4. r.max \in Nat /\ r.max <= MaxLoginSeats /\ MaxLoginSeats \in Nat
    BY <1>9, <1>t, Carried, WorkspaceAssumption DEF Join, RequestsSound, Sound
  <2> HIDE DEF x, j
  <2>5. Pending(o)' \subseteq Pending(o) \ {i}
    BY <2>3 DEF Pending, Open
  <2>6. Inviting(o)' \subseteq Inviting(o)
    BY <1>9, EndsPromisesLess DEF Join
  <2>7. CASE i.org = o
    <3>1. i \in Pending(o)
      BY <2>1, <2>7 DEF StillOpen, Open, Pending
    <3>2. Promised(o)' <= Promised(o) - 1
      BY <2>5, <3>1, <1>n, OneRowLess DEF Promised
    <3>3. Cardinality(Pending(o) \ {i}) \in Nat
      BY <1>n, FewerRows
    <3>4. Taken(o) < MaxLoginSeats
      BY <2>1, <2>4, <2>7, <3>3, <1>n DEF SeatFree, Taken
    <3>5. NonOwners(o)' \subseteq NonOwners(o) \cup {x}
      BY <2>2 DEF NonOwners
    <3>6. Taken(o)' <= Taken(o) + 1
      BY <3>5, <1>n, OneRowMore DEF Taken
    <3>7. Promising(o)' <= Promising(o)
      BY <2>6, <1>n, FewerRows DEF Promising
    <3> QED BY <3>2, <3>4, <3>6, <3>7 DEF Moves
  <2>8. CASE i.org # o
    <3>1. NonOwners(o)' \subseteq NonOwners(o)
      BY <2>2, <2>8 DEF NonOwners
    <3> QED BY <2>5, <2>6, <3>1, NothingAdded
  <2> QED BY <2>7, <2>8
<1>10. ASSUME NEW i \in invitations, Lapse(i)
       PROVE  Moves(o)
  <2>1. Pending(o)' \subseteq Pending(o)
    BY <1>10, <1>t DEF Lapse, Pending, Open, Invitation
  <2>2. NonOwners(o)' = NonOwners(o) /\ Inviting(o)' = Inviting(o)
    BY <1>10 DEF Lapse, NonOwners, Inviting, teams
  <2> QED BY <2>1, <2>2, NothingAdded
<1>11. ASSUME NEW q \in Req, Checks(q)
       PROVE  Moves(o)
  <2>1. PICK r \in Request : Begins(q, r) /\ r.at # "insertInv"
    BY <1>11, ChecksBegin DEF WInv, Checked
  <2>2. NonOwners(o)' = NonOwners(o) /\ Pending(o)' = Pending(o)
    BY <2>1 DEF Begins, NonOwners, Pending, Open, teams, invites
  <2>3. Inviting(o)' \subseteq Inviting(o)
    BY <2>1, <1>t DEF Begins, Inviting
  <2> QED BY <2>2, <2>3, NothingAdded
<1>12. CASE UNCHANGED <<teams, invites, req>>
  <2>1. NonOwners(o)' = NonOwners(o) /\ Pending(o)' = Pending(o) /\ Inviting(o)' = Inviting(o)
    BY <1>12 DEF NonOwners, Pending, Open, Inviting, teams, invites
  <2> QED BY <2>1, NothingAdded
<1>13. ASSUME NEW q \in Req,
              \/ DeleteOrganization(q) \/ DropMember(q) \/ InsertRecipient(q) \/ DropRecipient(q)
              \/ InsertMonitor(q) \/ DropMonitor(q) \/ Fails(q)
       PROVE  Moves(o)
  <2>1. Ends(q) /\ members' \subseteq members /\ invitations' \subseteq invitations
    BY <1>13 DEF DeleteOrganization, DropMember, InsertRecipient, DropRecipient, InsertMonitor,
                 DropMonitor, Fails, teams, invites
  <2> QED BY <2>1, <1>1
<1>14. ASSUME NEW u \in Payer, PlanChanges(u)
       PROVE  Moves(o)
  BY <1>14, <1>12 DEF PlanChanges
<1>15. CASE UNCHANGED wvars
  BY <1>15, <1>12 DEF wvars
<1> QED
  BY <1>2, <1>3, <1>5, <1>6, <1>7, <1>8, <1>9, <1>10, <1>11, <1>13, <1>14, <1>15
     DEF WNext, Writes

SeatsInv ==
    \A o \in Org :
        /\ Taken(o) <= MaxLoginSeats
        /\ Taken(o) + Promised(o) + Promising(o) < MaxLoginSeats + Cardinality(Req)

LEMMA SeatsInit == WInit => SeatsInv
<1> SUFFICES ASSUME WInit, NEW o \in Org
             PROVE  /\ Taken(o) <= MaxLoginSeats
                    /\ Taken(o) + Promised(o) + Promising(o) < MaxLoginSeats + Cardinality(Req)
  BY DEF SeatsInv
<1>1. NonOwners(o) = {} /\ Pending(o) = {} /\ Inviting(o) = {}
  BY IdleCarriesNothing DEF WInit, NonOwners, Pending, Inviting
<1>2. Taken(o) = 0 /\ Promised(o) = 0 /\ Promising(o) = 0
  BY <1>1, FS_EmptySet DEF Taken, Promised, Promising
<1>3. Cardinality(Req) \in Nat /\ Cardinality(Req) >= 1
  BY SeatNumbers, WInvInit
<1> QED BY <1>2, <1>3, WorkspaceAssumption

SeatsCountable ==
    \A o \in Org : /\ Taken(o) \in Nat /\ Promised(o) \in Nat /\ Promising(o) \in Nat
                   /\ Promising(o) <= Cardinality(Req)

LEMMA SeatsStep ==
    ASSUME WInv, SeatsCountable', SeatsInv, [WNext]_wvars
    PROVE  SeatsInv'
<1> SUFFICES ASSUME NEW o \in Org
             PROVE  /\ Taken(o)' <= MaxLoginSeats
                    /\ Taken(o)' + Promised(o)' + Promising(o)' < MaxLoginSeats + Cardinality(Req)
  BY DEF SeatsInv
<1>1. /\ Taken(o) \in Nat /\ Promised(o) \in Nat /\ Promising(o) \in Nat
      /\ Cardinality(Req) \in Nat /\ MaxLoginSeats \in Nat
  BY SeatNumbers, WorkspaceAssumption
<1>2. /\ Taken(o)' \in Nat /\ Promised(o)' \in Nat /\ Promising(o)' \in Nat
      /\ Promising(o)' <= Cardinality(Req)
  BY DEF SeatsCountable
<1>3. /\ Taken(o) <= MaxLoginSeats
      /\ Taken(o) + Promised(o) + Promising(o) < MaxLoginSeats + Cardinality(Req)
  BY DEF SeatsInv
<1>4. Moves(o)
  BY SeatsMove
<1> QED BY <1>1, <1>2, <1>3, <1>4 DEF Moves

LEMMA SeatsInvCorrect == WSpec => []SeatsInv
<1>1. WInv /\ SeatsCountable' /\ SeatsInv /\ [WNext]_wvars => SeatsInv'
  BY SeatsStep
<1>2. WInv => SeatsCountable
  BY SeatNumbers DEF SeatsCountable
<1> QED BY SeatsInit, <1>1, <1>2, WInvCorrect, PTL DEF WSpec

\* No organization ever has more invited members than login seats, for any
\* number of requests at a time: Join counts again.
THEOREM SeatsCorrect == WSpec => []SeatsRespected
<1>1. SeatsInv => SeatsRespected
  BY DEF SeatsInv, SeatsRespected, Taken, NonOwners
<1> QED BY <1>1, SeatsInvCorrect, PTL

\* What CreateInvitation promises exceeds the login seats by fewer than there
\* are requests at a time, and by none when there is one.
THEOREM PromisesCorrect == WSpec => []SeatsPromised
<1>1. SeatsInv => SeatsPromised
  BY DEF SeatsInv, SeatsPromised, Taken, Promised, Promising, NonOwners, Pending
<1> QED BY <1>1, SeatsInvCorrect, PTL

-----------------------------------------------------------------------------
(* Alert recipients. *)

Listed(o) == Cardinality(RecipientsOf(o))
Announced(o) == Cardinality(Adding(o))

LEMMA RecipientNumbers ==
    ASSUME WTypeOK, NEW o \in Org
    PROVE  /\ IsFiniteSet(RecipientsOf(o)) /\ Listed(o) \in Nat
           /\ IsFiniteSet(Adding(o)) /\ Announced(o) \in Nat
           /\ Announced(o) <= Cardinality(Req)
           /\ Cardinality(Req) \in Nat /\ Cardinality(Req) >= 1
<1>1. IsFiniteSet(RecipientsOf(o)) /\ Listed(o) \in Nat
  <2> DEFINE f == [r \in RecipientsOf(o) |-> r.target]
  <2>1. f \in Injection(RecipientsOf(o), Contact)
    BY DEF Injection, IsInjective, Recipient, RecipientsOf, WTypeOK
  <2> QED BY <2>1, FS_Injection, FS_CardinalityType, WorkspaceAssumption DEF Listed
<1>2. /\ IsFiniteSet(Adding(o)) /\ Announced(o) \in Nat
      /\ Announced(o) <= Cardinality(Req) /\ Cardinality(Req) \in Nat
  <2>1. Adding(o) \subseteq Req
    BY DEF Adding
  <2> QED BY <2>1, WorkspaceAssumption, FewerRows DEF Announced
<1>3. Cardinality(Req) >= 1
  BY <1>2, FS_EmptySet, WorkspaceAssumption
<1> QED BY <1>1, <1>2, <1>3

\* The recipients of an organization move in one of three ways: none is added;
\* one is about to be, for which there was room; it is.
RecipientMoves(o) ==
    \/ Listed(o)' <= Listed(o) /\ Announced(o)' <= Announced(o)
    \/ Listed(o)' <= Listed(o) /\ Listed(o) < MaxAlertRecipients
    \/ Listed(o)' <= Listed(o) + 1 /\ Announced(o)' <= Announced(o) - 1

LEMMA NoRecipientAdded ==
    ASSUME WTypeOK, NEW o \in Org,
           recipients' \subseteq recipients, Adding(o)' \subseteq Adding(o)
    PROVE  RecipientMoves(o)
<1>1. RecipientsOf(o)' \subseteq RecipientsOf(o)
  BY DEF RecipientsOf
<1>2. Listed(o)' <= Listed(o) /\ Announced(o)' <= Announced(o)
  BY <1>1, RecipientNumbers, FewerRows DEF Listed, Announced
<1> QED BY <1>2 DEF RecipientMoves

LEMMA RecipientsMove ==
    ASSUME WTypeOK, [WNext]_wvars, NEW o \in Org
    PROVE  RecipientMoves(o)
<1>t. req \in [Req -> Request]
  BY DEF WTypeOK
<1>n. /\ Listed(o) \in Nat /\ IsFiniteSet(RecipientsOf(o))
      /\ Announced(o) \in Nat /\ IsFiniteSet(Adding(o))
  BY RecipientNumbers
<1>1. ASSUME NEW q \in Req, InsertRecipient(q) PROVE RecipientMoves(o)
  <2> DEFINE x == [org |-> req[q].org, target |-> req[q].to]
  <2>1. Adding(o)' = Adding(o) \ {q}
    <3>1. \A p \in Req : req'[p] = IF p = q THEN Idle ELSE req[p]
      BY <1>1, <1>t, SlotEmptied DEF InsertRecipient
    <3> QED BY <3>1, IdleCarriesNothing DEF Adding
  <2>2. recipients' = recipients \cup {x} /\ x.org = req[q].org
    BY <1>1 DEF InsertRecipient
  <2> HIDE DEF x
  <2>3. CASE req[q].org = o
    <3>1. q \in Adding(o)
      BY <1>1, <2>3 DEF InsertRecipient, Adding
    <3>2. Announced(o)' <= Announced(o) - 1
      BY <1>n, <2>1, <3>1, OneRowLess DEF Announced
    <3>3. RecipientsOf(o)' \subseteq RecipientsOf(o) \cup {x}
      BY <2>2 DEF RecipientsOf
    <3>4. Listed(o)' <= Listed(o) + 1
      BY <1>n, <3>3, OneRowMore DEF Listed
    <3> QED BY <3>2, <3>4 DEF RecipientMoves
  <2>4. CASE req[q].org # o
    <3>1. RecipientsOf(o)' = RecipientsOf(o)
      BY <2>2, <2>4 DEF RecipientsOf
    <3>2. Listed(o)' <= Listed(o) /\ Announced(o)' <= Announced(o)
      BY <1>n, <2>1, <3>1, FewerRows DEF Listed, Announced
    <3> QED BY <3>2 DEF RecipientMoves
  <2> QED BY <2>3, <2>4
<1>2. ASSUME NEW q \in Req, Checks(q) PROVE RecipientMoves(o)
  <2>1. PICK r \in Request : Begins(q, r) /\ Checked(r)
    BY <1>2, ChecksBegin
  <2>2. /\ recipients' = recipients
        /\ \A p \in Req : req'[p] = IF p = q THEN r ELSE req[p]
    BY <2>1, <1>t, SlotSet DEF Begins
  <2>3. CASE r.at = "addContact" /\ r.org = o
    <3>1. PICK p \in Plan : RecipientQuota(o, p)
      BY <2>1, <2>3 DEF Checked
    <3>2. Listed(o) < MaxAlertRecipients
      BY <1>n, <3>1, WorkspaceAssumption DEF RecipientQuota, RecipientsForPlan, Listed
    <3>3. RecipientsOf(o)' = RecipientsOf(o)
      BY <2>2 DEF RecipientsOf
    <3> QED BY <1>n, <3>2, <3>3 DEF RecipientMoves, Listed
  <2>4. CASE ~(r.at = "addContact" /\ r.org = o)
    <3>1. Adding(o)' \subseteq Adding(o)
      BY <2>2, <2>4 DEF Adding
    <3> QED BY <2>2, <3>1, NoRecipientAdded
  <2> QED BY <2>3, <2>4
<1>3. ASSUME NEW q \in Req, Writes(q), ~InsertRecipient(q) PROVE RecipientMoves(o)
  <2>1. Adding(o)' \subseteq Adding(o)
    BY <1>3, SlotsKept DEF Adding
  <2>2. recipients' \subseteq recipients
    BY <1>3 DEF Writes, CreateOrganization, DeleteOrganization, SaveRole, DropMember,
       ExpireInvitation, CheckSeats, InsertInvitation, MarkRevoked, Join, DropRecipient,
       InsertMonitor, DropMonitor
  <2> QED BY <2>1, <2>2, NoRecipientAdded
<1>4. ASSUME NEW q \in Req, Fails(q) PROVE RecipientMoves(o)
  <2>1. \A p \in Req : req'[p] = IF p = q THEN Idle ELSE req[p]
    BY <1>4, <1>t, SlotEmptied DEF Fails
  <2>2. Adding(o)' \subseteq Adding(o)
    BY <2>1, IdleCarriesNothing DEF Adding
  <2> QED BY <1>4, <2>2, NoRecipientAdded DEF Fails
<1>5. CASE UNCHANGED <<recipients, req>>
  <2>1. Adding(o)' = Adding(o)
    BY <1>5 DEF Adding
  <2> QED BY <1>5, <2>1, NoRecipientAdded
<1> QED
  BY <1>1, <1>2, <1>3, <1>4, <1>5 DEF WNext, PlanChanges, Lapse, wvars

RecipientsCountable ==
    \A o \in Org : /\ Listed(o) \in Nat /\ Announced(o) \in Nat
                  /\ Announced(o) <= Cardinality(Req)

LEMMA RecipientsStep ==
    ASSUME WTypeOK, RecipientsCountable', RecipientsBounded, [WNext]_wvars
    PROVE  RecipientsBounded'
<1> SUFFICES ASSUME NEW o \in Org
             PROVE  Listed(o)' + Announced(o)' < MaxAlertRecipients + Cardinality(Req)
  BY DEF RecipientsBounded, Listed, Announced, RecipientsOf
<1>1. /\ Listed(o) \in Nat /\ Announced(o) \in Nat
      /\ Cardinality(Req) \in Nat /\ MaxAlertRecipients \in Nat
  BY RecipientNumbers, WorkspaceAssumption
<1>2. /\ Listed(o)' \in Nat /\ Announced(o)' \in Nat
      /\ Announced(o)' <= Cardinality(Req)
  BY DEF RecipientsCountable
<1>3. Listed(o) + Announced(o) < MaxAlertRecipients + Cardinality(Req)
  BY DEF RecipientsBounded, Listed, Announced, RecipientsOf
<1> QED BY <1>1, <1>2, <1>3, RecipientsMove DEF RecipientMoves

\* An organization has fewer alert recipients, together with those about to be
\* added, than the plan allows and requests there are at a time: by one request
\* at a time the cap is kept (CreateOrgAlertRecipient).
THEOREM RecipientsCorrect == WSpec => []RecipientsBounded
<1>1. WInit => RecipientsBounded
  <2> SUFFICES ASSUME WInit, NEW o \in Org
               PROVE  Listed(o) + Announced(o) < MaxAlertRecipients + Cardinality(Req)
    BY DEF RecipientsBounded, Listed, Announced, RecipientsOf
  <2>1. RecipientsOf(o) = {} /\ Adding(o) = {}
    BY IdleCarriesNothing DEF WInit, RecipientsOf, Adding
  <2>2. Listed(o) = 0 /\ Announced(o) = 0
    BY <2>1, FS_EmptySet DEF Listed, Announced
  <2>3. Cardinality(Req) \in Nat /\ Cardinality(Req) >= 1
    BY TypeInit, RecipientNumbers
  <2> QED BY <2>2, <2>3, WorkspaceAssumption
<1>2. WTypeOK /\ RecipientsCountable' /\ RecipientsBounded /\ [WNext]_wvars
        => RecipientsBounded'
  BY RecipientsStep
<1>3. WTypeOK => RecipientsCountable
  BY RecipientNumbers DEF RecipientsCountable
<1> QED BY <1>1, <1>2, <1>3, WTypeCorrect, PTL DEF WSpec

-----------------------------------------------------------------------------
(* The pool of monitors. *)

\* Only InsertMonitor uses a new id.
LEMMA NewMonitor ==
    ASSUME WInv, [WNext]_wvars, NEW m \in monitors', m.id \notin usedMons
    PROVE  \E q \in Req : InsertMonitor(q)
<1>t. WTypeOK /\ Ids
  BY DEF WInv
<1>1. ~(monitors' \subseteq monitors)
  BY <1>t DEF Ids
<1>2. ASSUME NEW q \in Req, DeleteOrganization(q)
      PROVE  FALSE
  <2>1. PICK n \in monitors :
           m = IF n.org = req[q].org THEN [n EXCEPT !.org = Personal] ELSE n
    BY <1>2 DEF DeleteOrganization
  <2>2. m.id = n.id
    BY <2>1, <1>t DEF WTypeOK, MonitorRow
  <2> QED BY <2>2, <1>t DEF Ids
<1>3. ASSUME NEW q \in Req, Checks(q)
      PROVE  UNCHANGED monitors
  BY <1>3, <1>t, ChecksBegin DEF Begins, pool
<1> QED
  BY <1>1, <1>2, <1>3
     DEF WNext, Writes, Fails, PlanChanges, Lapse, CreateOrganization, SaveRole, DropMember,
         ExpireInvitation, CheckSeats, InsertInvitation, MarkRevoked, Join, InsertRecipient,
         DropRecipient, DropMonitor, wvars, pool

LEMMA PoolStep ==
    ASSUME WInv, [WNext]_wvars, NEW m \in monitors', NEW u \in User, m.id \notin usedMons,
           IF m.org = Personal THEN m.user = u ELSE [id |-> m.org, owner |-> u] \in orgs'
    PROVE  \E q \in Req :
              /\ req[q].at = "addMonitor" /\ req[q].owner = u /\ req'[q] # req[q]
              /\ Cardinality({n \in monitors' :
                    \/ n.org = Personal /\ n.user = u
                    \/ [id |-> n.org, owner |-> u] \in orgs'}) <= req[q].max
<1>t. WTypeOK /\ Ids /\ RequestsSound
  BY DEF WInv
<1>1. PICK q \in Req : InsertMonitor(q)
  BY NewMonitor
<1> DEFINE r == req[q]
           T == {n \in monitors' : \/ n.org = Personal /\ n.user = u
                                   \/ [id |-> n.org, owner |-> u] \in orgs'}
<1>2. /\ r.at = "addMonitor" /\ Cardinality(BillingScope(r.owner)) < r.max
      /\ orgs' = orgs
  BY <1>1 DEF InsertMonitor, teams
<1>3. PICK k \in Monitor \ usedMons :
         monitors' = monitors \cup {[id |-> k, user |-> r.who, org |-> r.org]}
  BY <1>1 DEF InsertMonitor
<1> DEFINE x == [id |-> k, user |-> r.who, org |-> r.org]
<1>4. x.user = r.who /\ x.org = r.org /\ monitors' = monitors \cup {x}
  BY <1>3
<1> HIDE DEF x
<1>5. m = x
  BY <1>4, <1>t DEF Ids
<1>6. Sound(r) /\ r.max \in Nat
  BY <1>2, <1>t, Carried DEF RequestsSound, WTypeOK
<1>7. u = r.owner
  <2>1. CASE r.org = Personal
    BY <2>1, <1>2, <1>4, <1>5, <1>6 DEF Sound
  <2>2. CASE r.org # Personal
    <3> DEFINE g == [id |-> r.org, owner |-> u]
    <3>1. g \in orgs /\ g.id = r.org /\ g.owner = u
      BY <2>2, <1>2, <1>4, <1>5
    <3> HIDE DEF g
    <3> QED BY <3>1, <2>2, <1>2, <1>6 DEF Sound
  <2> QED BY <2>1, <2>2
<1>8. T \subseteq BillingScope(r.owner) \cup {x}
  <2> SUFFICES ASSUME NEW n \in T, n # x
               PROVE  n \in BillingScope(u)
    BY <1>7
  <2>1. CASE n.org = Personal /\ n.user = u
    BY <2>1, <1>4 DEF BillingScope
  <2>2. CASE [id |-> n.org, owner |-> u] \in orgs
    <3> DEFINE g == [id |-> n.org, owner |-> u]
    <3>1. g \in orgs /\ g.id = n.org /\ g.owner = u
      BY <2>2
    <3> HIDE DEF g
    <3> QED BY <3>1, <1>4 DEF BillingScope
  <2> QED BY <2>1, <2>2, <1>2
<1>9. IsFiniteSet(BillingScope(r.owner)) /\ Cardinality(BillingScope(r.owner)) \in Nat
  <2>1. BillingScope(r.owner) \subseteq monitors
    BY DEF BillingScope
  <2> QED BY <2>1, RowsFinite, FewerRows
<1>10. Cardinality(T) <= Cardinality(BillingScope(r.owner)) + 1
  BY <1>8, <1>9, OneRowMore
<1>11. Cardinality(T) \in Nat
  <2>1. IsFiniteSet(BillingScope(r.owner) \cup {x})
    BY <1>9, FS_AddElement
  <2> QED BY <2>1, <1>8, FewerRows
<1>12. req'[q] # req[q]
  <2>1. req'[q] = Idle
    BY <1>1, <1>t, SlotEmptied DEF InsertMonitor, WTypeOK
  <2> QED BY <2>1, <1>2, IdleCarriesNothing
<1> HIDE DEF T
<1>13. Cardinality(T) <= r.max
  BY <1>2, <1>6, <1>9, <1>10, <1>11
<1> QED BY <1>2, <1>7, <1>12, <1>13 DEF T

\* A request to add a monitor comes from CreateMonitor alone.
LEMMA GrantStep ==
    ASSUME WInv, [WNext]_wvars, NEW q \in Req,
           req[q].at # "addMonitor", req'[q].at = "addMonitor"
    PROVE  req'[q].max <= MaxMonitors[plan[req'[q].owner]]
<1>t. WTypeOK /\ req \in [Req -> Request]
  BY DEF WInv, WTypeOK
<1>1. ASSUME NEW p \in Req, Checks(p)
      PROVE  req'[q].max <= MaxMonitors[plan[req'[q].owner]]
  <2>1. PICK r \in Request : Begins(p, r) /\ Checked(r)
    BY <1>1, <1>t, ChecksBegin
  <2>2. p = q /\ req'[q] = r
    BY <2>1, <1>t, SlotSet DEF Begins
  <2> QED BY <2>1, <2>2 DEF Checked
<1>2. ASSUME NEW p \in Req, Ends(p)
      PROVE  FALSE
  BY <1>2, <1>t, SlotEmptied, IdleCarriesNothing
<1>3. ASSUME NEW p \in Req, CheckSeats(p) \/ ExpireInvitation(p)
      PROVE  FALSE
  <2>1. CASE CheckSeats(p)
    <3>1. PICK r : r.at = "insertInv" /\ req' = [req EXCEPT ![p] = r]
      BY <2>1 DEF CheckSeats
    <3> QED BY <3>1, <1>t
  <2>2. CASE ExpireInvitation(p)
    <3>1. PICK i : req' = [req EXCEPT ![p].old = @ \ {i}]
      BY <2>2 DEF ExpireInvitation
    <3>2. req'[q].at = req[q].at
      BY <3>1, <1>t
    <3> QED BY <3>2
  <2> QED BY <1>3, <2>1, <2>2
<1>4. ~UNCHANGED req
  OBVIOUS
<1> QED
  BY <1>1, <1>2, <1>3, <1>4
     DEF WNext, Writes, Fails, PlanChanges, Lapse, CreateOrganization, DeleteOrganization,
         SaveRole, DropMember, InsertInvitation, MarkRevoked, Join, InsertRecipient,
         DropRecipient, InsertMonitor, DropMonitor, wvars

\* A creation is granted at most the cap of the plan the billed account has at
\* its check, and never overfills that account's pool beyond what it was granted,
\* in whatever workspace the other members create monitors at the same time:
\* InsertMonitor counts the pool of the billing owner, who is the same as when it
\* was looked up.
THEOREM PoolCorrect == WSpec => PoolRespected
<1> DEFINE Granting == \A q \in Req :
              req[q].at # "addMonitor" /\ req'[q].at = "addMonitor"
                  => req'[q].max <= MaxMonitors[plan[req'[q].owner]]
           Filling == \A m \in monitors', u \in User :
              (m.id \notin usedMons
                 /\ IF m.org = Personal THEN m.user = u
                                        ELSE [id |-> m.org, owner |-> u] \in orgs')
                  => \E q \in Req :
                        /\ req[q].at = "addMonitor" /\ req[q].owner = u /\ req'[q] # req[q]
                        /\ Cardinality({n \in monitors' :
                              \/ n.org = Personal /\ n.user = u
                              \/ [id |-> n.org, owner |-> u] \in orgs'}) <= req[q].max
<1>1. WInv /\ [WNext]_wvars => Granting
  BY GrantStep
<1>2. WInv /\ [WNext]_wvars => Filling
  BY PoolStep
<1>3. WInv /\ [WNext]_wvars => [Granting /\ Filling]_wvars
  BY <1>1, <1>2
<1> QED BY <1>3, WInvCorrect, PTL DEF WSpec, PoolRespected
=============================================================================
