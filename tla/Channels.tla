------------------------------ MODULE Channels ------------------------------
(***************************************************************************)
(* The notification channels of one account, the per-monitor settings that *)
(* override them, the alert recipients of the account's organization, and  *)
(* the destinations an alert of a monitor is fanned out to.                *)
(*                                                                         *)
(* Adding and editing a channel read the channels that exist, check, and   *)
(* write in a statement of their own, so requests in the slots of Req      *)
(* overlap; what stands behind the checks is the unique index on (user,    *)
(* channel, target).  The other requests make one effective statement each *)
(* and are one step.  The plan may change between any two of its reads.    *)
(***************************************************************************)
EXTENDS Integers, FiniteSets

CONSTANTS
    Channel,    \* identifiers of channels
    Monitor,    \* the monitors that alert through the account's channels
    OrgMonitor, \* those that belong to the account's organization
    Address,    \* e-mail addresses
    Email,      \* the account's own
    Phone,      \* phone numbers
    Chat,       \* Telegram chats
    Hook,       \* webhook URLs
    Asked,      \* the types of channel the user asks for
    Contact,    \* the alert recipients the organization may add
    Req,        \* slots for requests that add or edit a channel
    None        \* a field that is not given

Type == {"EMAIL", "SMS", "DISCORD", "SLACK", "TELEGRAM"}
Target == Address \cup Phone \cup Chat \cup Hook

ASSUME ChannelsAssumption ==
    /\ OrgMonitor \subseteq Monitor
    /\ Email \in Address
    /\ Asked \subseteq Type
    /\ Contact \subseteq [type : {"EMAIL", "SMS"}, target : Target]
    /\ None \notin Type \cup Target \cup Channel
    /\ IsFiniteSet(Channel) /\ IsFiniteSet(Req)

VARIABLES
    channels,   \* per identifier, its row of notification_channels
    settings,   \* per monitor and channel, the override
    recipients, \* the rows of org_alert_recipients
    req,        \* the request in each slot
    mixed       \* history: channels written by an edit of part of a row that
                \* was no longer the row the edit was checked against

cvars == <<channels, settings, recipients, req, mixed>>

-----------------------------------------------------------------------------
(* Plans. *)

Plan == {"FREE", "PRO", "ENTERPRISE"}
Unlimited == -1

\* How many channels of a type a plan includes; 0 for a type it does not have.
MaxChannelsOfType ==
    [p \in Plan |-> [t \in Type |->
        IF t \in {"EMAIL", "SMS"} THEN 1
        ELSE CASE p = "ENTERPRISE" -> Unlimited
               [] p = "PRO"        -> 5
               [] p = "FREE"       -> IF t = "DISCORD" THEN 2 ELSE 0]]

-----------------------------------------------------------------------------
(* Rows and requests. *)

Row == [type : Type \cup {"none"}, target : Target \cup {None}, enabled : BOOLEAN]
NoChannel == [type |-> "none", target |-> None, enabled |-> FALSE]

\* type and target are what the request gives, seen the row that an edit of
\* part of a row was checked against.
Request == [at : {"idle", "insert", "update"}, id : Channel \cup {None},
            type : Type \cup {None}, target : Target \cup {None},
            seen : (Type \cup {None}) \X (Target \cup {None})]
Idle == [at |-> "idle", id |-> None, type |-> None, target |-> None, seen |-> <<None, None>>]

ChTypeOK ==
    /\ channels \in [Channel -> Row]
    /\ settings \in [Monitor -> [Channel -> {"inherit", "on", "off"}]]
    /\ recipients \subseteq Contact
    /\ req \in [Req -> Request]
    /\ mixed \subseteq Channel
    /\ \A c \in Channel : channels[c].type = "none" <=> channels[c].target = None

ChInit ==
    /\ channels = [c \in Channel |-> NoChannel]
    /\ settings = [m \in Monitor |-> [c \in Channel |-> "inherit"]]
    /\ recipients = {}
    /\ req = [q \in Req |-> Idle]
    /\ mixed = {}

Exists(c) == channels[c].type # "none"

OfType(t) == {c \in Channel : channels[c].type = t}

Free(q) == req[q].at = "idle"

Ends(q) == req' = [req EXCEPT ![q] = Idle]

\* Mutant: the account's address is only the default.
PinDefault(t, g) == IF t = "EMAIL" /\ g = None THEN Email ELSE g

\* An e-mail channel is pinned to the account's address.
Pinned(t, g) == IF t = "EMAIL" THEN Email ELSE g

\* EMAIL accepts anything: it is pinned.
validateAlertTarget(t, g) ==
    CASE t = "EMAIL"    -> TRUE
      [] t = "SMS"      -> g \in Phone
      [] t = "TELEGRAM" -> g \in Chat
      [] OTHER          -> g \in Hook

\* Mutant: there is no cap.
RoomWithoutCap(p, t, g, skip) ==
    /\ MaxChannelsOfType[p][t] # 0
    /\ \A c \in OfType(t) \ {skip} : channels[c].target # g

\* Room for one more channel beside those other than skip.
checkChannelRoom(p, t, g, skip) ==
    /\ MaxChannelsOfType[p][t] # 0
    /\ \A c \in OfType(t) \ {skip} : channels[c].target # g
    /\ \/ MaxChannelsOfType[p][t] = Unlimited
       \/ Cardinality(OfType(t) \ {skip}) < MaxChannelsOfType[p][t]

\* Mutant: the table has no unique index.
NoIndex(c, t, g) == TRUE

\* The unique index: no row other than c's has this type and target.
Unique(c, t, g) == \A d \in OfType(t) \ {c} : channels[d].target # g

-----------------------------------------------------------------------------
(* Who may do what. *)

Person == {"owner", "member", "viewer"}

requireOwnChannels(u) == u = "owner"

\* A personal monitor is found by its owner only.
requireMonitorWrite(m, u) == IF m \in OrgMonitor THEN u # "viewer" ELSE u = "owner"

-----------------------------------------------------------------------------
(* Adding a channel. *)

CreateNotificationChannel(q, u, t, g) ==
    /\ Free(q)
    /\ requireOwnChannels(u)
    /\ LET target == Pinned(t, g)
       IN  /\ validateAlertTarget(t, target)
           /\ \E p \in Plan : checkChannelRoom(p, t, target, None)
           /\ req' = [req EXCEPT ![q] = [Idle EXCEPT !.at = "insert", !.type = t,
                                                     !.target = target]]
    /\ UNCHANGED <<channels, settings, recipients, mixed>>

\* A new identifier is one that no request knows.
Unused == {c \in Channel : ~Exists(c) /\ \A q \in Req : req[q].id # c}

\* The insert, refused by the index when the destination is there by now.
InsertChannel(q) ==
    /\ req[q].at = "insert"
    /\ LET t == req[q].type
           g == req[q].target
       IN  \/ /\ ~Unique(None, t, g)
              /\ UNCHANGED <<channels, mixed>>
           \/ \E c \in Unused, b \in BOOLEAN :
                  /\ Unique(c, t, g)
                  /\ channels' = [channels EXCEPT ![c] =
                                     [type |-> t, target |-> g, enabled |-> b]]
                  /\ mixed' = mixed \ {c}
    /\ Ends(q)
    /\ UNCHANGED <<settings, recipients>>

-----------------------------------------------------------------------------
(* Editing a channel.  An edit that gives the enabled flag too is the same *)
(* as this edit followed by a SetEnabled.                                  *)

UpdateNotificationChannel(q, u, c, t, g) ==
    /\ Free(q)
    /\ requireOwnChannels(u)
    /\ t # None \/ g # None
    /\ Exists(c)
    /\ LET type   == IF t = None THEN channels[c].type ELSE t
           given  == Pinned(type, g)
           target == IF given = None THEN channels[c].target ELSE given
       IN  /\ type # channels[c].type => \E p \in Plan : MaxChannelsOfType[p][type] # 0
           /\ validateAlertTarget(type, target)
           /\ \E p \in Plan : checkChannelRoom(p, type, target, c)
           /\ req' = [req EXCEPT ![q] =
                 [at |-> "update", id |-> c, type |-> t, target |-> given,
                  seen |-> IF t # None /\ given # None THEN <<None, None>>
                           ELSE <<channels[c].type, channels[c].target>>]]
    /\ UNCHANGED <<channels, settings, recipients, mixed>>

\* What the UPDATE makes of a row: fields that are not given stay.
Edited(row, x) ==
    [row EXCEPT !.type = IF x.type = None THEN @ ELSE x.type,
                !.target = IF x.target = None THEN @ ELSE x.target]

\* The edit was checked against another row and sets only part of it.
Mixes(row, x) ==
    (x.type = None \/ x.target = None) /\ x.seen # <<row.type, row.target>>

\* Mutant: a row that is gone is brought back.
WriteResurrects(q) ==
    /\ req[q].at = "update"
    /\ LET c   == req[q].id
           new == Edited(channels[c], req[q])
       IN  IF Unique(c, new.type, new.target)
           THEN /\ channels' = [channels EXCEPT ![c] = new]
                /\ mixed' = IF Mixes(channels[c], req[q]) THEN mixed \cup {c} ELSE mixed
           ELSE UNCHANGED <<channels, mixed>>
    /\ Ends(q)
    /\ UNCHANGED <<settings, recipients>>

\* The write, refused by the index, or to no effect on a row that is gone.
WriteChannel(q) ==
    /\ req[q].at = "update"
    /\ LET c   == req[q].id
           new == Edited(channels[c], req[q])
       IN  IF Exists(c) /\ Unique(c, new.type, new.target)
           THEN /\ channels' = [channels EXCEPT ![c] = new]
                /\ mixed' = IF Mixes(channels[c], req[q]) THEN mixed \cup {c} ELSE mixed
           ELSE UNCHANGED <<channels, mixed>>
    /\ Ends(q)
    /\ UNCHANGED <<settings, recipients>>

\* The database fails: nothing is written.
Fails(q) ==
    /\ ~Free(q)
    /\ Ends(q)
    /\ UNCHANGED <<channels, settings, recipients, mixed>>

\* An edit of the enabled flag alone is not checked.
SetEnabled(u, c, b) ==
    /\ requireOwnChannels(u)
    /\ Exists(c)
    /\ channels' = [channels EXCEPT ![c].enabled = b]
    /\ UNCHANGED <<settings, recipients, req, mixed>>

\* The settings of all monitors for the channel cascade.
DeleteNotificationChannel(u, c) ==
    /\ requireOwnChannels(u)
    /\ Exists(c)
    /\ channels' = [channels EXCEPT ![c] = NoChannel]
    /\ settings' = [m \in Monitor |-> [settings[m] EXCEPT ![c] = "inherit"]]
    /\ mixed' = mixed \ {c}
    /\ UNCHANGED <<recipients, req>>

-----------------------------------------------------------------------------
(* One monitor's view of the channels, and the recipients. *)

SetMonitorChannel(u, m, c, b) ==
    /\ requireMonitorWrite(m, u)
    /\ Exists(c)
    /\ settings' = [settings EXCEPT ![m][c] = IF b THEN "on" ELSE "off"]
    /\ UNCHANGED <<channels, recipients, req, mixed>>

DeleteMonitorChannel(u, m, c) ==
    /\ requireMonitorWrite(m, u)
    /\ settings' = [settings EXCEPT ![m][c] = "inherit"]
    /\ UNCHANGED <<channels, recipients, req, mixed>>

\* Unique per organization, type and target.  (Their number is Workspace's.)
CreateOrgAlertRecipient(r) ==
    /\ recipients' = recipients \cup {r}
    /\ UNCHANGED <<channels, settings, req, mixed>>

DeleteOrgAlertRecipient(r) ==
    /\ r \in recipients
    /\ recipients' = recipients \ {r}
    /\ UNCHANGED <<channels, settings, req, mixed>>

-----------------------------------------------------------------------------
(* The fan-out of an alert. *)

\* COALESCE of the override and the channel's own flag.
Enabled(m, c) ==
    /\ Exists(c)
    /\ IF settings[m][c] = "inherit" THEN channels[c].enabled ELSE settings[m][c] = "on"

\* The recipient's destination is an enabled channel's too.
Covered(m, r) ==
    \E c \in OfType(r.type) : channels[c].target = r.target /\ Enabled(m, c)

\* The rows enqueue_monitor_alerts adds, each with its source.
FanOut(m) ==
    {[source |-> c, type |-> channels[c].type, target |-> channels[c].target] :
         c \in {d \in Channel : Enabled(m, d)}}
    \cup
    {[source |-> None, type |-> r.type, target |-> r.target] :
         r \in {x \in recipients : m \in OrgMonitor /\ ~Covered(m, x)}}

-----------------------------------------------------------------------------
User(u) ==
    \/ \E q \in Req, t \in Asked, g \in Target \cup {None} :
           CreateNotificationChannel(q, u, t, g)
    \/ \E q \in Req, c \in Channel, t \in Asked \cup {None}, g \in Target \cup {None} :
           UpdateNotificationChannel(q, u, c, t, g)
    \/ \E c \in Channel :
           \/ DeleteNotificationChannel(u, c)
           \/ \E b \in BOOLEAN : SetEnabled(u, c, b)
           \/ \E m \in Monitor : \/ DeleteMonitorChannel(u, m, c)
                                 \/ \E b \in BOOLEAN : SetMonitorChannel(u, m, c, b)

Handler(q) == InsertChannel(q) \/ WriteChannel(q) \/ Fails(q)

ChNext ==
    \/ \E u \in Person : User(u)
    \/ \E q \in Req : Handler(q)
    \/ \E r \in Contact : CreateOrgAlertRecipient(r) \/ DeleteOrgAlertRecipient(r)

ChSpec == ChInit /\ [][ChNext]_cvars

-----------------------------------------------------------------------------
\* One alert reaches a destination once: no two rows of a fan-out have the same
\* type and target, whatever adds and edits raced past the duplicate check and
\* whoever is a recipient as well ("two integrations pointing at the same
\* destination deliver the same alert twice", checkChannelRoom).
OnceEach ==
    \A m \in Monitor : \A x, y \in FanOut(m) :
        x.type = y.type /\ x.target = y.target => x = y

\* What a channel of each type may point at.
Fits(t, g) == IF t = "EMAIL" THEN g = Email ELSE validateAlertTarget(t, g)

\* An e-mail channel points at the account's address and any other channel at
\* a destination valid for its type, unless an edit of part of the row landed
\* on a row that another edit had changed meanwhile (UpdateNotificationChannel:
\* "EMAIL channels stay pinned to the account email").
TargetsFit ==
    \A c \in Channel \ mixed :
        Exists(c) => Fits(channels[c].type, channels[c].target)

\* Channels that would be of type t if every write under way went through, and
\* the new ones.
WouldBe(t) ==
    OfType(t) \cup {c \in Channel : Exists(c) /\ \E q \in Req :
                        req[q].at = "update" /\ req[q].id = c /\ req[q].type = t}
WouldAdd(t) == {q \in Req : req[q].at = "insert" /\ req[q].type = t}

\* The cap of one e-mail and one phone channel is a check before the write;
\* requests that overlap exceed it, by fewer than the requests in progress and
\* never more with time (checkChannelRoom).
CapsBounded ==
    \A t \in {"EMAIL", "SMS"} :
        Cardinality(WouldBe(t)) + Cardinality(WouldAdd(t)) <= Cardinality(Req)
=============================================================================
