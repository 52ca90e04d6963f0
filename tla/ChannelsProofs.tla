--------------------------- MODULE ChannelsProofs ---------------------------
(***************************************************************************)
(* Proofs about Channels, for any number of channels, monitors, recipients *)
(* and overlapping requests.                                               *)
(***************************************************************************)
EXTENDS Channels, FiniteSetTheorems, TLAPS

-----------------------------------------------------------------------------
(* Type correctness. *)

\* What a pending write carries: an insert has a type and a target, and an edit
\* gives at least one of them and names a channel.
Carries ==
    \A q \in Req :
        /\ req[q].at = "insert" => req[q].type \in Type /\ req[q].target \in Target
        /\ req[q].at = "update" => req[q].id \in Channel

ChInv == ChTypeOK /\ Carries

LEMMA IdleType == Idle \in Request
BY DEF Idle, Request

LEMMA ValidTargets ==
    ASSUME NEW t \in Type, NEW g \in Target \cup {None},
           validateAlertTarget(t, Pinned(t, g))
    PROVE  Pinned(t, g) \in Target
BY ChannelsAssumption DEF validateAlertTarget, Pinned, Target

LEMMA ChInvInit == ChInit => ChInv
<1> SUFFICES ASSUME ChInit PROVE ChInv
  OBVIOUS
<1>1. NoChannel \in Row
  BY DEF NoChannel, Row
<1>2. channels \in [Channel -> Row] /\ req \in [Req -> Request]
  BY <1>1, IdleType DEF ChInit
<1>3. /\ settings \in [Monitor -> [Channel -> {"inherit", "on", "off"}]]
      /\ recipients \subseteq Contact /\ mixed \subseteq Channel
  BY DEF ChInit
<1>4. \A c \in Channel : channels[c].type = "none" <=> channels[c].target = None
  BY DEF ChInit, NoChannel
<1>5. Carries
  BY DEF ChInit, Carries, Idle
<1> QED BY <1>2, <1>3, <1>4, <1>5 DEF ChInv, ChTypeOK

\* A request that ends leaves the others as they are.
LEMMA EndsStep ==
    ASSUME ChInv, NEW q \in Req, Ends(q)
    PROVE  /\ req' \in [Req -> Request] /\ req'[q] = Idle
           /\ \A p \in Req \ {q} : req'[p] = req[p]
           /\ Carries'
<1>1. req \in [Req -> Request]
  BY DEF ChInv, ChTypeOK
<1>2. req' \in [Req -> Request] /\ req'[q] = Idle /\ \A p \in Req \ {q} : req'[p] = req[p]
  BY <1>1, IdleType DEF Ends
<1>3. Carries'
  BY <1>2 DEF ChInv, Carries, Idle
<1> QED BY <1>2, <1>3

\* A request that starts a write leaves the others as they are.
LEMMA CreateStep ==
    ASSUME ChInv, NEW q \in Req, NEW u, NEW t \in Type, NEW g \in Target \cup {None},
           CreateNotificationChannel(q, u, t, g)
    PROVE  /\ req' \in [Req -> Request] /\ Carries'
           /\ req'[q].at = "insert" /\ req'[q].id = None
           /\ req'[q].type = t /\ req'[q].target = Pinned(t, g)
           /\ \A p \in Req \ {q} : req'[p] = req[p]
           /\ UNCHANGED <<channels, settings, recipients, mixed>>
<1> DEFINE target == Pinned(t, g)
           x == [Idle EXCEPT !.at = "insert", !.type = t, !.target = target]
<1>1. req \in [Req -> Request]
  BY DEF ChInv, ChTypeOK
<1>2. target \in Target
  BY ValidTargets DEF CreateNotificationChannel
<1> HIDE DEF target
<1>3. x \in Request /\ x.at = "insert" /\ x.id = None /\ x.type = t /\ x.target = target
  BY <1>2, IdleType DEF Idle, Request
<1>4. req' = [req EXCEPT ![q] = x] /\ UNCHANGED <<channels, settings, recipients, mixed>>
  BY DEF CreateNotificationChannel, target
<1> HIDE DEF x
<1>5. req' \in [Req -> Request] /\ req'[q] = x /\ \A p \in Req \ {q} : req'[p] = req[p]
  BY <1>1, <1>3, <1>4
<1>6. Carries'
  BY <1>2, <1>3, <1>5 DEF ChInv, Carries
<1> QED BY <1>3, <1>4, <1>5, <1>6 DEF target

\* What an edit leaves in its slot.
EditedType(c, t) == IF t = None THEN channels[c].type ELSE t
EditedTarget(c, t, g) ==
    LET given == Pinned(EditedType(c, t), g)
    IN  IF given = None THEN channels[c].target ELSE given

UpdateMade(q, c, t, g) ==
    /\ req' \in [Req -> Request] /\ Carries'
    /\ req'[q].at = "update" /\ req'[q].id = c /\ req'[q].type = t
    /\ req'[q].target = Pinned(EditedType(c, t), g)
    /\ req'[q].type = None \/ req'[q].target = None =>
           req'[q].seen[1] = channels[c].type /\ req'[q].seen[2] = channels[c].target
    /\ \A p \in Req \ {q} : req'[p] = req[p]
    /\ Exists(c) /\ EditedType(c, t) \in Type
    /\ validateAlertTarget(EditedType(c, t), EditedTarget(c, t, g))
    /\ \E p \in Plan : checkChannelRoom(p, EditedType(c, t), EditedTarget(c, t, g), c)
    /\ UNCHANGED <<channels, settings, recipients, mixed>>

LEMMA UpdateStep ==
    ASSUME ChInv, NEW q \in Req, NEW u, NEW c \in Channel, NEW t \in Type \cup {None},
           NEW g \in Target \cup {None}, UpdateNotificationChannel(q, u, c, t, g)
    PROVE  UpdateMade(q, c, t, g) /\ Free(q)
<1> DEFINE given == Pinned(EditedType(c, t), g)
           seen == IF t # None /\ given # None THEN <<None, None>>
                   ELSE <<channels[c].type, channels[c].target>>
           x == [at |-> "update", id |-> c, type |-> t, target |-> given, seen |-> seen]
<1>1. req \in [Req -> Request] /\ channels[c] \in Row
  BY DEF ChInv, ChTypeOK
<1>2. /\ Exists(c) /\ req' = [req EXCEPT ![q] = x]
      /\ validateAlertTarget(EditedType(c, t), EditedTarget(c, t, g))
      /\ \E p \in Plan : checkChannelRoom(p, EditedType(c, t), EditedTarget(c, t, g), c)
      /\ UNCHANGED <<channels, settings, recipients, mixed>>
  BY DEF UpdateNotificationChannel, EditedType, EditedTarget
<1>3. channels[c].type \in Type /\ EditedType(c, t) \in Type
  BY <1>1, <1>2 DEF Exists, Row, EditedType
<1>4. given \in Target \cup {None}
  BY ChannelsAssumption DEF Pinned, Target
<1>5. seen \in (Type \cup {None}) \X (Target \cup {None})
  BY <1>1, <1>3 DEF Row
<1>6. /\ x \in Request /\ x.at = "update" /\ x.id = c /\ x.type = t /\ x.target = given
      /\ x.seen = seen
  <2> HIDE DEF given, seen
  <2> QED BY <1>4, <1>5 DEF Request
<1>7. t = None \/ given = None => seen[1] = channels[c].type /\ seen[2] = channels[c].target
  OBVIOUS
<1> HIDE DEF x, seen, given
<1>8. req' \in [Req -> Request] /\ req'[q] = x /\ \A p \in Req \ {q} : req'[p] = req[p]
  BY <1>1, <1>2, <1>6
<1>9. Carries'
  BY <1>6, <1>8 DEF ChInv, Carries
<1>10. Free(q)
  BY DEF UpdateNotificationChannel
<1> QED BY <1>2, <1>3, <1>6, <1>7, <1>8, <1>9, <1>10 DEF given, UpdateMade

\* The two writes, as changes of one row.
LEMMA InsertStep ==
    ASSUME ChInv, NEW q \in Req, InsertChannel(q)
    PROVE  \/ UNCHANGED <<channels, mixed>>
           \/ \E c \in Channel, b \in BOOLEAN :
                  /\ c \in Unused
                  /\ Unique(c, req[q].type, req[q].target)
                  /\ channels' = [channels EXCEPT ![c] =
                         [type |-> req[q].type, target |-> req[q].target, enabled |-> b]]
                  /\ mixed' = mixed \ {c}
BY DEF InsertChannel, Unused, Unique, OfType

LEMMA WriteStep ==
    ASSUME ChInv, NEW q \in Req, WriteChannel(q)
    PROVE  /\ req[q].id \in Channel
           /\ \/ UNCHANGED <<channels, mixed>>
              \/ LET c   == req[q].id
                     new == Edited(channels[c], req[q])
                 IN  /\ Exists(c)
                     /\ Unique(c, new.type, new.target)
                     /\ channels' = [channels EXCEPT ![c] = new]
                     /\ mixed' = IF Mixes(channels[c], req[q]) THEN mixed \cup {c} ELSE mixed
                     /\ new.type = IF req[q].type = None THEN channels[c].type ELSE req[q].type
                     /\ new.target =
                            IF req[q].target = None THEN channels[c].target ELSE req[q].target
                     /\ new \in Row /\ new.type \in Type /\ new.target \in Target
<1>1. req[q].id \in Channel /\ req[q] \in Request /\ channels \in [Channel -> Row]
  BY DEF WriteChannel, ChInv, Carries, ChTypeOK
<1> DEFINE c == req[q].id
           new == Edited(channels[c], req[q])
<1>2. CASE ~(Exists(c) /\ Unique(c, new.type, new.target))
  BY <1>1, <1>2 DEF WriteChannel
<1>3. CASE Exists(c) /\ Unique(c, new.type, new.target)
  <2>1. channels[c] \in Row /\ channels[c].type \in Type /\ channels[c].target \in Target
    BY <1>1, <1>3 DEF Exists, Row, ChInv, ChTypeOK
  <2>2. /\ new.type = IF req[q].type = None THEN channels[c].type ELSE req[q].type
        /\ new.target = IF req[q].target = None THEN channels[c].target ELSE req[q].target
        /\ new \in Row /\ new.type \in Type /\ new.target \in Target
    BY <1>1, <2>1 DEF Edited, Row, Request
  <2> QED BY <1>1, <1>3, <2>2 DEF WriteChannel
<1> QED BY <1>2, <1>3

\* The other operations leave the requests alone.
Plain(u) ==
    \E c \in Channel :
        \/ DeleteNotificationChannel(u, c)
        \/ \E b \in BOOLEAN : SetEnabled(u, c, b)
        \/ \E m \in Monitor : \/ DeleteMonitorChannel(u, m, c)
                              \/ \E b \in BOOLEAN : SetMonitorChannel(u, m, c, b)

LEMMA PlainTypes ==
    ASSUME ChInv, NEW u, Plain(u)
    PROVE  ChInv'
<1>1. /\ channels \in [Channel -> Row] /\ mixed \subseteq Channel
      /\ settings \in [Monitor -> [Channel -> {"inherit", "on", "off"}]]
      /\ \A c \in Channel : channels[c].type = "none" <=> channels[c].target = None
  BY DEF ChInv, ChTypeOK
<1>2. PICK c \in Channel :
        \/ DeleteNotificationChannel(u, c)
        \/ \E b \in BOOLEAN : SetEnabled(u, c, b)
        \/ \E m \in Monitor : \/ DeleteMonitorChannel(u, m, c)
                              \/ \E b \in BOOLEAN : SetMonitorChannel(u, m, c, b)
  BY DEF Plain
<1>3. UNCHANGED <<req, recipients>> /\ mixed' \subseteq Channel
  BY <1>1, <1>2 DEF DeleteNotificationChannel, SetEnabled, DeleteMonitorChannel, SetMonitorChannel
<1>4. Carries'
  BY <1>3 DEF ChInv, Carries
<1>5. /\ channels' \in [Channel -> Row]
      /\ \A d \in Channel : channels'[d].type = "none" <=> channels'[d].target = None
  <2>1. CASE DeleteNotificationChannel(u, c)
    <3>1. NoChannel \in Row /\ NoChannel.type = "none" /\ NoChannel.target = None
      BY DEF NoChannel, Row
    <3> QED BY <1>1, <2>1, <3>1 DEF DeleteNotificationChannel
  <2>2. CASE \E b \in BOOLEAN : SetEnabled(u, c, b)
    <3>1. PICK b \in BOOLEAN : SetEnabled(u, c, b)
      BY <2>2
    <3> DEFINE x == [channels[c] EXCEPT !.enabled = b]
    <3>2. x \in Row /\ x.type = channels[c].type /\ x.target = channels[c].target
      BY <1>1 DEF Row
    <3>3. channels' = [channels EXCEPT ![c] = x]
      BY <3>1 DEF SetEnabled
    <3> HIDE DEF x
    <3> QED BY <1>1, <3>2, <3>3
  <2> QED BY <1>1, <1>2, <2>1, <2>2 DEF DeleteMonitorChannel, SetMonitorChannel
<1>6. settings' \in [Monitor -> [Channel -> {"inherit", "on", "off"}]]
  <2>1. CASE DeleteNotificationChannel(u, c)
    BY <1>1, <2>1 DEF DeleteNotificationChannel
  <2>2. CASE \E m \in Monitor : \/ DeleteMonitorChannel(u, m, c)
                                \/ \E b \in BOOLEAN : SetMonitorChannel(u, m, c, b)
    <3>1. PICK m \in Monitor : \/ DeleteMonitorChannel(u, m, c)
                               \/ \E b \in BOOLEAN : SetMonitorChannel(u, m, c, b)
      BY <2>2
    <3>2. PICK v \in {"inherit", "on", "off"} : settings' = [settings EXCEPT ![m][c] = v]
      BY <3>1 DEF DeleteMonitorChannel, SetMonitorChannel
    <3> QED BY <1>1, <3>2
  <2> QED BY <1>1, <1>2, <2>1, <2>2 DEF SetEnabled
<1> QED BY <1>3, <1>4, <1>5, <1>6 DEF ChInv, ChTypeOK

\* A step of the specification, with the parameters of its action.
LEMMA StepCases ==
    ASSUME [ChNext]_cvars
    PROVE  \/ \E u \in Person : Plain(u)
           \/ \E u \in Person, q \in Req, t \in Type, g \in Target \cup {None} :
                  CreateNotificationChannel(q, u, t, g)
           \/ \E u \in Person, q \in Req, c \in Channel, t \in Type \cup {None},
                 g \in Target \cup {None} : UpdateNotificationChannel(q, u, c, t, g)
           \/ \E q \in Req : Handler(q)
           \/ \E r \in Contact : CreateOrgAlertRecipient(r) \/ DeleteOrgAlertRecipient(r)
           \/ UNCHANGED cvars
BY ChannelsAssumption DEF ChNext, User, Plain

LEMMA ChInvStep == ChInv /\ [ChNext]_cvars => ChInv'
<1> SUFFICES ASSUME ChInv, [ChNext]_cvars PROVE ChInv'
  OBVIOUS
<1>1. /\ channels \in [Channel -> Row] /\ mixed \subseteq Channel
      /\ \A c \in Channel : channels[c].type = "none" <=> channels[c].target = None
  BY DEF ChInv, ChTypeOK
<1>2. ASSUME NEW q \in Req, Handler(q) PROVE ChInv'
  <2>1. Ends(q) /\ UNCHANGED <<settings, recipients>>
    BY <1>2 DEF Handler, InsertChannel, WriteChannel, Fails
  <2>2. CASE UNCHANGED <<channels, mixed>>
    BY <2>1, <2>2, EndsStep DEF ChInv, ChTypeOK
  <2>3. ASSUME NEW c \in Channel, NEW x \in Row, x.type \in Type, x.target \in Target,
               channels' = [channels EXCEPT ![c] = x], mixed' \subseteq Channel
        PROVE  ChInv'
    <3>1. x.type # "none" /\ x.target # None
      BY <2>3, ChannelsAssumption DEF Type
    <3>2. /\ channels' \in [Channel -> Row]
          /\ \A d \in Channel : channels'[d].type = "none" <=> channels'[d].target = None
      BY <1>1, <2>3, <3>1
    <3> QED BY <2>1, <2>3, <3>2, EndsStep DEF ChInv, ChTypeOK
  <2>4. CASE InsertChannel(q) /\ ~UNCHANGED <<channels, mixed>>
    <3>1. req[q].type \in Type /\ req[q].target \in Target
      BY <2>4 DEF InsertChannel, ChInv, Carries
    <3>2. PICK c \in Channel, b \in BOOLEAN :
              /\ channels' = [channels EXCEPT ![c] =
                     [type |-> req[q].type, target |-> req[q].target, enabled |-> b]]
              /\ mixed' = mixed \ {c}
      BY <2>4, InsertStep
    <3> DEFINE x == [type |-> req[q].type, target |-> req[q].target, enabled |-> b]
    <3>3. x \in Row /\ x.type \in Type /\ x.target \in Target
      BY <3>1 DEF Row
    <3>4. channels' = [channels EXCEPT ![c] = x]
      BY <3>2
    <3> HIDE DEF x
    <3> QED BY <1>1, <2>3, <3>2, <3>3, <3>4
  <2>5. CASE WriteChannel(q) /\ ~UNCHANGED <<channels, mixed>>
    <3> DEFINE c == req[q].id
               new == Edited(channels[c], req[q])
    <3>1. /\ c \in Channel /\ channels' = [channels EXCEPT ![c] = new]
          /\ mixed' \subseteq mixed \cup {c}
          /\ new \in Row /\ new.type \in Type /\ new.target \in Target
      BY <2>5, WriteStep
    <3> HIDE DEF c, new
    <3> QED BY <1>1, <2>3, <3>1
  <2> QED BY <1>2, <2>2, <2>4, <2>5 DEF Handler, Fails
<1>3. ASSUME NEW u \in Person, NEW q \in Req, NEW t \in Type, NEW g \in Target \cup {None},
             CreateNotificationChannel(q, u, t, g) PROVE ChInv'
  BY <1>3, CreateStep DEF ChInv, ChTypeOK
<1>4. ASSUME NEW u \in Person, NEW q \in Req, NEW c \in Channel, NEW t \in Type \cup {None},
             NEW g \in Target \cup {None}, UpdateNotificationChannel(q, u, c, t, g)
      PROVE  ChInv'
  <2>1. /\ req' \in [Req -> Request] /\ Carries'
        /\ UNCHANGED <<channels, settings, recipients, mixed>>
    BY <1>4, UpdateStep DEF UpdateMade
  <2> QED BY <2>1 DEF ChInv, ChTypeOK
<1>5. ASSUME NEW r \in Contact, CreateOrgAlertRecipient(r) \/ DeleteOrgAlertRecipient(r)
      PROVE  ChInv'
  BY <1>5 DEF CreateOrgAlertRecipient, DeleteOrgAlertRecipient, ChInv, ChTypeOK, Carries
<1>6. CASE UNCHANGED cvars
  BY <1>6 DEF cvars, ChInv, ChTypeOK, Carries
<1> QED BY <1>2, <1>3, <1>4, <1>5, <1>6, StepCases, PlainTypes

LEMMA ChInvCorrect == ChSpec => []ChInv
BY ChInvInit, ChInvStep, PTL DEF ChSpec

\* Rows and requests keep their types, and a channel has a type exactly when
\* it has a target, for any number of overlapping requests
\* (CreateNotificationChannel, UpdateNotificationChannel).
THEOREM ChTypeCorrect == ChSpec => []ChTypeOK
<1>1. ChInv => ChTypeOK
  BY DEF ChInv
<1> QED BY <1>1, ChInvCorrect, PTL

-----------------------------------------------------------------------------
(* One alert, one message per destination. *)

\* What the unique index keeps.
UniqueRows ==
    \A c, d \in Channel :
        /\ Exists(c)
        /\ channels[c].type = channels[d].type
        /\ channels[c].target = channels[d].target
        => c = d

\* A row written where the index allows it.
LEMMA RowWritten ==
    ASSUME ChInv, UniqueRows, NEW c \in Channel, NEW x, Unique(c, x.type, x.target),
           channels' = [channels EXCEPT ![c] = x]
    PROVE  UniqueRows'
<1>1. channels \in [Channel -> Row]
  BY DEF ChInv, ChTypeOK
<1>2. channels'[c] = x /\ \A d \in Channel \ {c} : channels'[d] = channels[d]
  BY <1>1
<1>3. \A d \in Channel \ {c} : ~(channels[d].type = x.type /\ channels[d].target = x.target)
  BY DEF Unique, OfType
<1> QED BY <1>2, <1>3 DEF UniqueRows, Exists

LEMMA UniqueRowsStep == ChInv /\ UniqueRows /\ [ChNext]_cvars => UniqueRows'
<1> SUFFICES ASSUME ChInv, UniqueRows, [ChNext]_cvars PROVE UniqueRows'
  OBVIOUS
<1>1. channels \in [Channel -> Row]
  BY DEF ChInv, ChTypeOK
<1>2. CASE UNCHANGED channels
  BY <1>2 DEF UniqueRows, Exists
<1>3. ASSUME NEW q \in Req, InsertChannel(q), ~UNCHANGED channels PROVE UniqueRows'
  <2>1. PICK c \in Channel, b \in BOOLEAN :
            /\ Unique(c, req[q].type, req[q].target)
            /\ channels' = [channels EXCEPT ![c] =
                   [type |-> req[q].type, target |-> req[q].target, enabled |-> b]]
    BY <1>3, InsertStep
  <2> DEFINE x == [type |-> req[q].type, target |-> req[q].target, enabled |-> b]
  <2>2. x.type = req[q].type /\ x.target = req[q].target
    OBVIOUS
  <2>3. Unique(c, x.type, x.target) /\ channels' = [channels EXCEPT ![c] = x]
    BY <2>1
  <2> HIDE DEF x
  <2> QED BY <2>3, RowWritten
<1>4. ASSUME NEW q \in Req, WriteChannel(q), ~UNCHANGED channels PROVE UniqueRows'
  BY <1>4, WriteStep, RowWritten
<1>5. ASSUME NEW u \in Person, Plain(u) PROVE UniqueRows'
  <2>1. PICK c \in Channel :
          \/ DeleteNotificationChannel(u, c)
          \/ \E b \in BOOLEAN : SetEnabled(u, c, b)
          \/ UNCHANGED channels
    BY <1>5 DEF Plain, DeleteMonitorChannel, SetMonitorChannel
  <2>2. CASE DeleteNotificationChannel(u, c)
    BY <1>1, <2>2 DEF DeleteNotificationChannel, NoChannel, UniqueRows, Exists
  <2>3. CASE \E b \in BOOLEAN : SetEnabled(u, c, b)
    <3>1. PICK b \in BOOLEAN : SetEnabled(u, c, b)
      BY <2>3
    <3>2. \A d \in Channel : /\ channels'[d].type = channels[d].type
                            /\ channels'[d].target = channels[d].target
      BY <1>1, <3>1 DEF SetEnabled, Row
    <3> QED BY <3>2 DEF UniqueRows, Exists
  <2> QED BY <1>2, <2>1, <2>2, <2>3
<1>6. ASSUME NEW q \in Req, Handler(q) PROVE UniqueRows'
  BY <1>2, <1>3, <1>4, <1>6 DEF Handler, Fails
<1>7. ASSUME NEW u \in Person, NEW q \in Req, NEW t \in Type, NEW g \in Target \cup {None},
             CreateNotificationChannel(q, u, t, g) PROVE UniqueRows'
  BY <1>2, <1>7 DEF CreateNotificationChannel
<1>8. ASSUME NEW u \in Person, NEW q \in Req, NEW c \in Channel, NEW t \in Type \cup {None},
             NEW g \in Target \cup {None}, UpdateNotificationChannel(q, u, c, t, g)
      PROVE  UniqueRows'
  BY <1>2, <1>8 DEF UpdateNotificationChannel
<1>9. ASSUME NEW r \in Contact, CreateOrgAlertRecipient(r) \/ DeleteOrgAlertRecipient(r)
      PROVE  UniqueRows'
  BY <1>2, <1>9 DEF CreateOrgAlertRecipient, DeleteOrgAlertRecipient
<1> QED BY <1>2, <1>5, <1>6, <1>7, <1>8, <1>9, StepCases DEF cvars

\* Two rows of one fan-out: both of channels, one of each, both of recipients.
LEMMA FanOutOnce ==
    ASSUME ChInv, UniqueRows
    PROVE  OnceEach
<1> SUFFICES ASSUME NEW m \in Monitor, NEW x \in FanOut(m), NEW y \in FanOut(m),
                    x.type = y.type, x.target = y.target
             PROVE  x = y
  BY DEF OnceEach
<1> DEFINE Ch(c) == [source |-> c, type |-> channels[c].type, target |-> channels[c].target]
           Rc(r) == [source |-> None, type |-> r.type, target |-> r.target]
<1>1. ASSUME NEW z \in FanOut(m)
      PROVE  \/ \E c \in Channel : Enabled(m, c) /\ z = Ch(c)
             \/ \E r \in recipients : ~Covered(m, r) /\ z = Rc(r)
  BY DEF FanOut
<1>2. ASSUME NEW c \in Channel, Enabled(m, c), NEW r, ~Covered(m, r),
             channels[c].type = r.type, channels[c].target = r.target
      PROVE  FALSE
  BY <1>2 DEF Covered, OfType
<1>3. CASE \E c \in Channel : Enabled(m, c) /\ x = Ch(c)
  <2>1. PICK c \in Channel : Enabled(m, c) /\ x = Ch(c)
    BY <1>3
  <2>2. x.type = channels[c].type /\ x.target = channels[c].target
    BY <2>1
  <2>3. CASE \E d \in Channel : Enabled(m, d) /\ y = Ch(d)
    <3>1. PICK d \in Channel : Enabled(m, d) /\ y = Ch(d)
      BY <2>3
    <3>2. y.type = channels[d].type /\ y.target = channels[d].target
      BY <3>1
    <3>3. c = d
      BY <2>1, <2>2, <3>2 DEF UniqueRows, Enabled
    <3> QED BY <2>1, <3>1, <3>3
  <2>4. CASE \E r \in recipients : ~Covered(m, r) /\ y = Rc(r)
    <3>1. PICK r \in recipients : ~Covered(m, r) /\ y = Rc(r)
      BY <2>4
    <3>2. y.type = r.type /\ y.target = r.target
      BY <3>1
    <3> QED BY <1>2, <2>1, <2>2, <3>1, <3>2
  <2> QED BY <1>1, <2>3, <2>4
<1>4. CASE \E r \in recipients : ~Covered(m, r) /\ x = Rc(r)
  <2>1. PICK r \in recipients : ~Covered(m, r) /\ x = Rc(r)
    BY <1>4
  <2>2. x.type = r.type /\ x.target = r.target
    BY <2>1
  <2>3. CASE \E d \in Channel : Enabled(m, d) /\ y = Ch(d)
    <3>1. PICK d \in Channel : Enabled(m, d) /\ y = Ch(d)
      BY <2>3
    <3>2. y.type = channels[d].type /\ y.target = channels[d].target
      BY <3>1
    <3> QED BY <1>2, <2>1, <2>2, <3>1, <3>2
  <2>4. CASE \E s \in recipients : ~Covered(m, s) /\ y = Rc(s)
    <3>1. PICK s \in recipients : ~Covered(m, s) /\ y = Rc(s)
      BY <2>4
    <3>2. y.type = s.type /\ y.target = s.target
      BY <3>1
    <3> QED BY <2>1, <2>2, <3>1, <3>2
  <2> QED BY <1>1, <2>3, <2>4
<1> QED BY <1>1, <1>3, <1>4

\* However many adds and edits race past the duplicate check, and whoever is a
\* recipient as well as a channel, an alert is queued once per destination
\* (the unique index on notification_channels; enqueue_monitor_alerts).
THEOREM OnceEachCorrect == ChSpec => []OnceEach
<1>1. ChInit => UniqueRows
  BY DEF ChInit, NoChannel, UniqueRows, Exists
<1>2. ChSpec => []UniqueRows
  BY <1>1, UniqueRowsStep, ChInvCorrect, PTL DEF ChSpec
<1>3. ChInv /\ UniqueRows => OnceEach
  BY FanOutOnce
<1> QED BY <1>2, <1>3, ChInvCorrect, PTL

-----------------------------------------------------------------------------
(* What a channel points at. *)

\* A pending insert fits, and so does a pending edit laid over the row it was
\* checked against.
PendingFit ==
    \A q \in Req :
        /\ req[q].at = "insert" => Fits(req[q].type, req[q].target)
        /\ req[q].at = "update" =>
               Fits(IF req[q].type = None THEN req[q].seen[1] ELSE req[q].type,
                    IF req[q].target = None THEN req[q].seen[2] ELSE req[q].target)

FitInv == PendingFit /\ TargetsFit

LEMMA PinnedFits ==
    ASSUME NEW t, NEW g, validateAlertTarget(t, Pinned(t, g))
    PROVE  Fits(t, Pinned(t, g))
BY DEF Fits, Pinned

LEMMA EditFits ==
    ASSUME ChInv, NEW c \in Channel, NEW t \in Type \cup {None}, NEW g \in Target \cup {None},
           validateAlertTarget(EditedType(c, t), EditedTarget(c, t, g))
    PROVE  Fits(EditedType(c, t), EditedTarget(c, t, g))
<1>1. CASE EditedType(c, t) = "EMAIL"
  <2>1. Pinned(EditedType(c, t), g) = Email /\ Email # None
    BY <1>1, ChannelsAssumption DEF Pinned, Target
  <2> QED BY <1>1, <2>1 DEF EditedTarget, Fits
<1>2. CASE EditedType(c, t) # "EMAIL"
  BY <1>2 DEF Fits
<1> QED BY <1>1, <1>2

\* A row written that fits, or whose channel is mixed.
LEMMA FitWritten ==
    ASSUME ChInv, TargetsFit, NEW c \in Channel, NEW x,
           channels' = [channels EXCEPT ![c] = x],
           mixed \ {c} \subseteq mixed',
           c \in mixed' \/ x.type = "none" \/ Fits(x.type, x.target)
    PROVE  TargetsFit'
<1>1. channels \in [Channel -> Row]
  BY DEF ChInv, ChTypeOK
<1>2. channels'[c] = x /\ \A d \in Channel \ {c} : channels'[d] = channels[d]
  BY <1>1
<1> SUFFICES ASSUME NEW d \in Channel, d \notin mixed', channels'[d].type # "none"
             PROVE  Fits(channels'[d].type, channels'[d].target)
  BY DEF TargetsFit, Exists, Fits, validateAlertTarget
<1>3. CASE d = c
  BY <1>2, <1>3
<1>4. CASE d # c
  BY <1>2, <1>4 DEF TargetsFit, Exists
<1> QED BY <1>3, <1>4

LEMMA FitInvStep == ChInv /\ FitInv /\ [ChNext]_cvars => FitInv'
<1> SUFFICES ASSUME ChInv, FitInv, [ChNext]_cvars PROVE FitInv'
  OBVIOUS
<1>1. channels \in [Channel -> Row] /\ PendingFit /\ TargetsFit
  BY DEF ChInv, ChTypeOK, FitInv
<1>2. UNCHANGED <<channels, mixed>> => TargetsFit'
  BY <1>1 DEF TargetsFit, Exists, Fits, validateAlertTarget
<1>3. UNCHANGED req => PendingFit'
  BY <1>1 DEF PendingFit, Fits, validateAlertTarget
<1>4. ASSUME NEW q \in Req, Handler(q) PROVE FitInv'
  <2>1. Ends(q)
    BY <1>4 DEF Handler, InsertChannel, WriteChannel, Fails
  <2>2. PendingFit'
    BY <1>1, <2>1, EndsStep DEF PendingFit, Fits, validateAlertTarget, Idle
  <2>3. CASE InsertChannel(q) /\ ~UNCHANGED <<channels, mixed>>
    <3>1. Fits(req[q].type, req[q].target)
      BY <1>1, <2>3 DEF InsertChannel, PendingFit
    <3>2. PICK c \in Channel, b \in BOOLEAN :
              /\ channels' = [channels EXCEPT ![c] =
                     [type |-> req[q].type, target |-> req[q].target, enabled |-> b]]
              /\ mixed' = mixed \ {c}
      BY <2>3, InsertStep
    <3> DEFINE x == [type |-> req[q].type, target |-> req[q].target, enabled |-> b]
    <3>3. x.type = req[q].type /\ x.target = req[q].target
      OBVIOUS
    <3>4. channels' = [channels EXCEPT ![c] = x]
      BY <3>2
    <3> HIDE DEF x
    <3>5. TargetsFit'
      BY <1>1, <3>1, <3>2, <3>3, <3>4, FitWritten
    <3> QED BY <2>2, <3>5 DEF FitInv
  <2>4. CASE WriteChannel(q) /\ ~UNCHANGED <<channels, mixed>>
    <3> DEFINE c == req[q].id
               new == Edited(channels[c], req[q])
    <3>1. /\ c \in Channel /\ channels' = [channels EXCEPT ![c] = new]
          /\ mixed' = IF Mixes(channels[c], req[q]) THEN mixed \cup {c} ELSE mixed
          /\ new.type = IF req[q].type = None THEN channels[c].type ELSE req[q].type
          /\ new.target = IF req[q].target = None THEN channels[c].target ELSE req[q].target
      BY <2>4, WriteStep
    <3>2. Fits(IF req[q].type = None THEN req[q].seen[1] ELSE req[q].type,
               IF req[q].target = None THEN req[q].seen[2] ELSE req[q].target)
      BY <1>1, <2>4 DEF WriteChannel, PendingFit
    <3>3. Mixes(channels[c], req[q]) \/ Fits(new.type, new.target)
      <4> SUFFICES ASSUME ~Mixes(channels[c], req[q]) PROVE Fits(new.type, new.target)
        OBVIOUS
      <4>1. CASE req[q].type # None /\ req[q].target # None
        BY <3>1, <3>2, <4>1
      <4>2. CASE req[q].type = None \/ req[q].target = None
        <5>1. req[q].seen[1] = channels[c].type /\ req[q].seen[2] = channels[c].target
          BY <4>2 DEF Mixes
        <5> HIDE DEF new
        <5> QED BY <3>1, <3>2, <5>1
      <4> QED BY <4>1, <4>2
    <3> HIDE DEF c, new
    <3>4. TargetsFit'
      BY <1>1, <3>1, <3>3, FitWritten
    <3> QED BY <2>2, <3>4 DEF FitInv
  <2> QED BY <1>2, <1>4, <2>2, <2>3, <2>4 DEF FitInv, Handler, Fails
<1>5. ASSUME NEW u \in Person, Plain(u) PROVE FitInv'
  <2>1. PICK c \in Channel :
          \/ DeleteNotificationChannel(u, c)
          \/ \E b \in BOOLEAN : SetEnabled(u, c, b)
          \/ UNCHANGED <<channels, mixed>>
    BY <1>5 DEF Plain, DeleteMonitorChannel, SetMonitorChannel
  <2>2. UNCHANGED req
    BY <1>5 DEF Plain, DeleteNotificationChannel, SetEnabled, DeleteMonitorChannel,
                SetMonitorChannel
  <2>3. CASE DeleteNotificationChannel(u, c)
    <3>1. channels' = [channels EXCEPT ![c] = NoChannel] /\ mixed' = mixed \ {c}
      BY <2>3 DEF DeleteNotificationChannel
    <3>2. NoChannel.type = "none"
      BY DEF NoChannel
    <3>3. TargetsFit'
      BY <1>1, <3>1, <3>2, FitWritten
    <3> QED BY <1>3, <2>2, <3>3 DEF FitInv
  <2>4. CASE \E b \in BOOLEAN : SetEnabled(u, c, b)
    <3>1. PICK b \in BOOLEAN : SetEnabled(u, c, b)
      BY <2>4
    <3>2. mixed' = mixed /\ \A d \in Channel : /\ channels'[d].type = channels[d].type
                                              /\ channels'[d].target = channels[d].target
      BY <1>1, <3>1 DEF SetEnabled, Row
    <3>3. TargetsFit'
      BY <1>1, <3>2 DEF TargetsFit, Exists, Fits, validateAlertTarget
    <3> QED BY <1>3, <2>2, <3>3 DEF FitInv
  <2> QED BY <1>2, <1>3, <2>1, <2>2, <2>3, <2>4 DEF FitInv
<1>6. ASSUME NEW u \in Person, NEW q \in Req, NEW t \in Type, NEW g \in Target \cup {None},
             CreateNotificationChannel(q, u, t, g) PROVE FitInv'
  <2>1. Fits(t, Pinned(t, g))
    BY <1>6, PinnedFits DEF CreateNotificationChannel
  <2>2. /\ req'[q].at = "insert" /\ req'[q].type = t /\ req'[q].target = Pinned(t, g)
        /\ \A p \in Req \ {q} : req'[p] = req[p]
        /\ UNCHANGED <<channels, mixed>>
    BY <1>6, CreateStep
  <2>3. Fits(req'[q].type, req'[q].target)
    BY <2>1, <2>2
  <2>4. PendingFit'
    BY <1>1, <2>2, <2>3 DEF PendingFit, Fits, validateAlertTarget
  <2> QED BY <1>2, <2>2, <2>4 DEF FitInv
<1>7. ASSUME NEW u \in Person, NEW q \in Req, NEW c \in Channel, NEW t \in Type \cup {None},
             NEW g \in Target \cup {None}, UpdateNotificationChannel(q, u, c, t, g)
      PROVE  FitInv'
  <2>1. UpdateMade(q, c, t, g)
    BY <1>7, UpdateStep
  <2>2. Fits(EditedType(c, t), EditedTarget(c, t, g))
    BY <2>1, EditFits DEF UpdateMade
  <2>3. /\ EditedType(c, t) = IF req'[q].type = None THEN req'[q].seen[1] ELSE req'[q].type
        /\ EditedTarget(c, t, g) = IF req'[q].target = None THEN req'[q].seen[2]
                                   ELSE req'[q].target
    BY <2>1 DEF EditedType, EditedTarget, UpdateMade
  <2>4. PendingFit'
    <3> SUFFICES ASSUME NEW p \in Req
                 PROVE  /\ req'[p].at = "insert" => Fits(req'[p].type, req'[p].target)
                        /\ req'[p].at = "update" =>
                             Fits(IF req'[p].type = None THEN req'[p].seen[1] ELSE req'[p].type,
                                  IF req'[p].target = None THEN req'[p].seen[2] ELSE req'[p].target)
      BY DEF PendingFit, Fits, validateAlertTarget
    <3>1. CASE p = q
      BY <2>1, <2>2, <2>3, <3>1 DEF UpdateMade
    <3>2. CASE p # q
      BY <1>1, <2>1, <3>2 DEF PendingFit, UpdateMade
    <3> QED BY <3>1, <3>2
  <2> QED BY <1>2, <2>1, <2>4 DEF FitInv, UpdateMade
<1>8. ASSUME NEW r \in Contact, CreateOrgAlertRecipient(r) \/ DeleteOrgAlertRecipient(r)
      PROVE  FitInv'
  BY <1>2, <1>3, <1>8 DEF CreateOrgAlertRecipient, DeleteOrgAlertRecipient, FitInv
<1> QED BY <1>2, <1>3, <1>4, <1>5, <1>6, <1>7, <1>8, StepCases DEF cvars, FitInv

\* Whatever edits overlap, a channel that no partial edit of a changed row has
\* touched points where its type allows, an e-mail channel at the account's
\* address (UpdateNotificationChannel).
THEOREM TargetsFitCorrect == ChSpec => []TargetsFit
<1>1. ChInit => FitInv
  BY DEF ChInit, NoChannel, Idle, FitInv, PendingFit, TargetsFit, Exists
<1>2. FitInv => TargetsFit
  BY DEF FitInv
<1> QED BY <1>1, <1>2, FitInvStep, ChInvCorrect, PTL DEF ChSpec

-----------------------------------------------------------------------------
(* The caps. *)

\* Rows that each come from a request of A of their own, and requests of B.
LEMMA OneRequestEach ==
    ASSUME NEW S, NEW A, A \subseteq Req, NEW B, B \subseteq Req, A \cap B = {}, NEW f,
           \A s \in S : \E q \in A : f[q] = s
    PROVE  Cardinality(S) + Cardinality(B) <= Cardinality(Req)
<1>1. IsFiniteSet(Req)
  BY ChannelsAssumption
<1>2. IsFiniteSet(A) /\ IsFiniteSet(B)
  BY <1>1, FS_Subset
<1> DEFINE g == [s \in S |-> CHOOSE q \in A : f[q] = s]
<1>3. \A s \in S : g[s] \in A /\ f[g[s]] = s
  OBVIOUS
<1>4. g \in Injection(S, A)
  <2>1. g \in [S -> A]
    BY <1>3
  <2> HIDE DEF g
  <2> QED BY <1>3, <2>1 DEF Injection, IsInjective
<1>5. IsFiniteSet(S) /\ Cardinality(S) <= Cardinality(A)
  BY <1>2, <1>4, FS_Injection
<1>6. /\ IsFiniteSet(A \cup B)
      /\ Cardinality(A \cup B) = Cardinality(A) + Cardinality(B) - Cardinality(A \cap B)
  BY <1>2, FS_Union
<1>7. Cardinality(A \cap B) = 0
  BY FS_EmptySet
<1>8. Cardinality(A \cup B) <= Cardinality(Req)
  BY <1>1, FS_Subset
<1>9. /\ Cardinality(S) \in Nat /\ Cardinality(A) \in Nat /\ Cardinality(B) \in Nat
      /\ Cardinality(Req) \in Nat
  BY <1>1, <1>2, <1>5, FS_CardinalityType
<1> QED BY <1>5, <1>6, <1>7, <1>8, <1>9

LEMMA NoMore ==
    ASSUME NEW S, IsFiniteSet(S), NEW T, T \subseteq S
    PROVE  /\ IsFiniteSet(T) /\ Cardinality(T) \in Nat /\ Cardinality(S) \in Nat
           /\ Cardinality(T) <= Cardinality(S)
<1>1. IsFiniteSet(T) /\ Cardinality(T) <= Cardinality(S)
  BY FS_Subset
<1> QED BY <1>1, FS_CardinalityType

LEMMA Finite ==
    ASSUME NEW t
    PROVE  IsFiniteSet(WouldBe(t)) /\ IsFiniteSet(WouldAdd(t))
<1>1. WouldBe(t) \subseteq Channel /\ WouldAdd(t) \subseteq Req
  BY DEF WouldBe, WouldAdd, OfType
<1> QED BY <1>1, NoMore, ChannelsAssumption

Bounded(t) == Cardinality(WouldBe(t)) + Cardinality(WouldAdd(t)) <= Cardinality(Req)

\* Nothing more would be of the type.
LEMMA BoundedStays ==
    ASSUME NEW t, Bounded(t), WouldBe(t)' \subseteq WouldBe(t),
           WouldAdd(t)' \subseteq WouldAdd(t)
    PROVE  Bounded(t)'
<1>1. IsFiniteSet(WouldBe(t)) /\ IsFiniteSet(WouldAdd(t))
  BY Finite
<1> DEFINE S == WouldBe(t)
           T == WouldAdd(t)
<1>2. /\ Cardinality(S') <= Cardinality(S) /\ Cardinality(S') \in Nat /\ Cardinality(S) \in Nat
  BY <1>1, NoMore
<1>3. /\ Cardinality(T') <= Cardinality(T) /\ Cardinality(T') \in Nat /\ Cardinality(T) \in Nat
  BY <1>1, NoMore
<1>4. Cardinality(Req) \in Nat
  BY ChannelsAssumption, FS_CardinalityType
<1> QED BY <1>2, <1>3, <1>4 DEF Bounded

\* Requests that write a channel of the type.
Edits(t) == {q \in Req : req[q].at = "update" /\ req[q].type = t}

\* A request passes the cap of one only when no other channel is of the type.
LEMMA RoomMeansNone ==
    ASSUME NEW t \in {"EMAIL", "SMS"}, NEW p \in Plan, NEW g, NEW skip,
           checkChannelRoom(p, t, g, skip)
    PROVE  OfType(t) \subseteq {skip}
<1>1. MaxChannelsOfType[p][t] = 1
  BY DEF MaxChannelsOfType, Type
<1>2. Cardinality(OfType(t) \ {skip}) < 1
  BY <1>1 DEF checkChannelRoom, Unlimited
<1>3. OfType(t) \ {skip} \subseteq Channel
  BY DEF OfType
<1>4. IsFiniteSet(OfType(t) \ {skip}) /\ Cardinality(OfType(t) \ {skip}) \in Nat
  BY <1>3, NoMore, ChannelsAssumption
<1>5. Cardinality(OfType(t) \ {skip}) = 0
  BY <1>2, <1>4
<1>6. OfType(t) \ {skip} = {}
  BY <1>4, <1>5, FS_EmptySet
<1> QED BY <1>6

\* After a check that found room, every channel that would be of the type has a
\* request of its own.
LEMMA BoundedAnew ==
    ASSUME NEW t,
           \A c \in OfType(t)' : \E q \in Req :
               req'[q].at = "update" /\ req'[q].id = c /\ req'[q].type = t
    PROVE  Bounded(t)'
<1> DEFINE f == [q \in Req |-> req'[q].id]
           A == Edits(t)'
           B == WouldAdd(t)'
           S == WouldBe(t)'
<1>1. A \subseteq Req /\ B \subseteq Req /\ A \cap B = {}
  BY DEF Edits, WouldAdd
<1>2. \A s \in S : \E q \in A : f[q] = s
  BY DEF WouldBe, Edits
<1> HIDE DEF f, A, B, S
<1>3. Cardinality(S) + Cardinality(B) <= Cardinality(Req)
  BY <1>1, <1>2, OneRequestEach
<1> QED BY <1>3 DEF S, B, Bounded

\* The new row takes the place of its request.
LEMMA BoundedInsert ==
    ASSUME ChInv, NEW t, Bounded(t), NEW q \in Req, InsertChannel(q), NEW c \in Unused,
           NEW b, channels' = [channels EXCEPT ![c] =
                      [type |-> req[q].type, target |-> req[q].target, enabled |-> b]]
    PROVE  Bounded(t)'
<1>1. /\ channels \in [Channel -> Row] /\ c \in Channel
      /\ req'[q] = Idle /\ \A p \in Req \ {q} : req'[p] = req[p]
  BY EndsStep DEF ChInv, ChTypeOK, Unused, InsertChannel
<1>2. channels'[c].type = req[q].type /\ \A d \in Channel \ {c} : channels'[d] = channels[d]
  BY <1>1
<1>3. req[q].at = "insert" /\ Idle.at = "idle"
  BY DEF InsertChannel, Idle
<1>4. \A p \in Req : req[p].id # c
  BY DEF Unused
<1>5. CASE req[q].type # t
  <2>1. WouldBe(t)' \subseteq WouldBe(t)
    BY <1>1, <1>2, <1>3, <1>4, <1>5 DEF WouldBe, OfType, Exists
  <2>2. WouldAdd(t)' \subseteq WouldAdd(t)
    BY <1>1, <1>3 DEF WouldAdd
  <2> QED BY <2>1, <2>2, BoundedStays
<1>6. CASE req[q].type = t
  <2> DEFINE S == WouldBe(t)
             B == WouldAdd(t)
  <2>1. S' \subseteq S \cup {c}
    BY <1>1, <1>2, <1>3, <1>4, <1>6 DEF WouldBe, OfType, Exists
  <2>2. B' \subseteq B \ {q} /\ q \in B
    BY <1>1, <1>3, <1>6 DEF WouldAdd
  <2>3. IsFiniteSet(S) /\ IsFiniteSet(B)
    BY Finite
  <2>4. Cardinality(S) + Cardinality(B) <= Cardinality(Req)
    BY DEF Bounded
  <2>5. Cardinality(Req) \in Nat
    BY ChannelsAssumption, FS_CardinalityType
  <2>6. IsFiniteSet(S \cup {c}) /\ Cardinality(S \cup {c}) <= Cardinality(S) + 1
    <3> HIDE DEF S
    <3>1. /\ IsFiniteSet(S \cup {c})
          /\ Cardinality(S \cup {c}) = IF c \in S THEN Cardinality(S) ELSE Cardinality(S) + 1
      BY <2>3, FS_AddElement
    <3>2. Cardinality(S) \in Nat
      BY <2>3, FS_CardinalityType
    <3> QED BY <3>1, <3>2
  <2>7. IsFiniteSet(B \ {q}) /\ Cardinality(B \ {q}) = Cardinality(B) - 1
    <3> HIDE DEF B
    <3> QED BY <2>2, <2>3, FS_RemoveElement
  <2>8. Cardinality(S') <= Cardinality(S \cup {c}) /\ Cardinality(S') \in Nat
        /\ Cardinality(S \cup {c}) \in Nat
    BY <2>1, <2>6, NoMore
  <2>9. Cardinality(B') <= Cardinality(B \ {q}) /\ Cardinality(B') \in Nat
        /\ Cardinality(B \ {q}) \in Nat
    BY <2>2, <2>7, NoMore
  <2>10. Cardinality(S) \in Nat /\ Cardinality(B) \in Nat
    BY <2>3, FS_CardinalityType
  <2>11. Cardinality(S') + Cardinality(B') <= Cardinality(Req)
    <3> HIDE DEF S, B
    <3> QED BY <2>4, <2>5, <2>6, <2>7, <2>8, <2>9, <2>10
  <2> QED BY <2>11 DEF Bounded
<1> QED BY <1>5, <1>6

\* What would be of a type grows only where a request finds room for it.
LEMMA BoundedStep ==
    ASSUME ChInv, NEW t \in {"EMAIL", "SMS"}, Bounded(t), [ChNext]_cvars
    PROVE  Bounded(t)'
<1>1. channels \in [Channel -> Row]
  BY DEF ChInv, ChTypeOK
<1>2. ASSUME NEW q \in Req, Handler(q) PROVE Bounded(t)'
  <2>1. Ends(q)
    BY <1>2 DEF Handler, InsertChannel, WriteChannel, Fails
  <2>2. req'[q] = Idle /\ Idle.at = "idle" /\ \A p \in Req \ {q} : req'[p] = req[p]
    BY <2>1, EndsStep DEF Idle
  <2>3. WouldAdd(t)' \subseteq WouldAdd(t)
    BY <2>2 DEF WouldAdd
  <2>4. CASE UNCHANGED channels
    <3>1. WouldBe(t)' \subseteq WouldBe(t)
      BY <2>2, <2>4 DEF WouldBe, OfType, Exists
    <3> QED BY <2>3, <3>1, BoundedStays
  <2>5. CASE InsertChannel(q) /\ ~UNCHANGED channels
    <3>1. PICK c \in Channel, b \in BOOLEAN :
              /\ c \in Unused
              /\ channels' = [channels EXCEPT ![c] =
                     [type |-> req[q].type, target |-> req[q].target, enabled |-> b]]
      BY <2>5, InsertStep
    <3> QED BY <2>5, <3>1, BoundedInsert
  <2>6. CASE WriteChannel(q) /\ ~UNCHANGED channels
    <3> DEFINE c == req[q].id
               new == Edited(channels[c], req[q])
    <3>1. /\ c \in Channel /\ channels' = [channels EXCEPT ![c] = new] /\ Exists(c)
          /\ new.type = IF req[q].type = None THEN channels[c].type ELSE req[q].type
      BY <2>6, WriteStep
    <3>2. req[q].at = "update"
      BY <2>6 DEF WriteChannel
    <3> HIDE DEF new
    <3>3. channels'[c] = new /\ \A d \in Channel \ {c} : channels'[d] = channels[d]
      BY <1>1, <3>1
    <3>4. OfType(t)' \subseteq WouldBe(t)
      BY <3>1, <3>2, <3>3 DEF WouldBe, OfType
    <3>5. \A d \in Channel : channels'[d].type # "none" => Exists(d)
      BY <3>1, <3>3 DEF Exists
    <3>6. WouldBe(t)' \subseteq WouldBe(t)
      BY <2>2, <3>4, <3>5 DEF WouldBe, Exists
    <3> QED BY <2>3, <3>6, BoundedStays
  <2> QED BY <1>2, <2>4, <2>5, <2>6 DEF Handler, Fails
<1>3. ASSUME NEW u \in Person, Plain(u) PROVE Bounded(t)'
  <2>1. UNCHANGED req
    BY <1>3 DEF Plain, DeleteNotificationChannel, SetEnabled, DeleteMonitorChannel,
                SetMonitorChannel
  <2>2. PICK c \in Channel :
          \/ DeleteNotificationChannel(u, c)
          \/ \E b \in BOOLEAN : SetEnabled(u, c, b)
          \/ UNCHANGED channels
    BY <1>3 DEF Plain, DeleteMonitorChannel, SetMonitorChannel
  <2>3. \A d \in Channel : channels'[d].type \in {channels[d].type, "none"}
    BY <1>1, <2>2 DEF DeleteNotificationChannel, SetEnabled, NoChannel, Row
  <2>4. t # "none"
    OBVIOUS
  <2>5. WouldBe(t)' \subseteq WouldBe(t) /\ WouldAdd(t)' \subseteq WouldAdd(t)
    BY <2>1, <2>3, <2>4 DEF WouldBe, WouldAdd, OfType, Exists
  <2> QED BY <2>5, BoundedStays
<1>4. ASSUME NEW u \in Person, NEW q \in Req, NEW s \in Type, NEW g \in Target \cup {None},
             CreateNotificationChannel(q, u, s, g) PROVE Bounded(t)'
  <2>1. /\ req'[q].at = "insert" /\ req'[q].type = s
        /\ \A p \in Req \ {q} : req'[p] = req[p]
        /\ UNCHANGED <<channels, settings, recipients, mixed>>
    BY <1>4, CreateStep
  <2>2. req[q].at = "idle"
    BY <1>4 DEF CreateNotificationChannel, Free
  <2>3. CASE s # t
    <3>1. WouldBe(t)' \subseteq WouldBe(t) /\ WouldAdd(t)' \subseteq WouldAdd(t)
      BY <2>1, <2>3 DEF WouldBe, WouldAdd, OfType, Exists
    <3> QED BY <3>1, BoundedStays
  <2>4. CASE s = t
    <3>1. PICK p \in Plan : checkChannelRoom(p, t, Pinned(t, g), None)
      BY <1>4, <2>4 DEF CreateNotificationChannel
    <3>2. OfType(t) \subseteq {None}
      BY <3>1, RoomMeansNone
    <3>3. OfType(t)' = {}
      BY <2>1, <3>2, ChannelsAssumption DEF OfType
    <3> QED BY <3>3, BoundedAnew
  <2> QED BY <2>3, <2>4
<1>5. ASSUME NEW u \in Person, NEW q \in Req, NEW c \in Channel, NEW s \in Type \cup {None},
             NEW g \in Target \cup {None}, UpdateNotificationChannel(q, u, c, s, g)
      PROVE  Bounded(t)'
  <2>1. UpdateMade(q, c, s, g)
    BY <1>5, UpdateStep
  <2>2. CASE s # t
    <3>1. WouldBe(t)' \subseteq WouldBe(t) /\ WouldAdd(t)' \subseteq WouldAdd(t)
      BY <2>1, <2>2 DEF UpdateMade, WouldBe, WouldAdd, OfType, Exists
    <3> QED BY <3>1, BoundedStays
  <2>3. CASE s = t
    <3>1. EditedType(c, s) = t
      BY <2>3, ChannelsAssumption DEF EditedType, Type
    <3>2. PICK p \in Plan : checkChannelRoom(p, t, EditedTarget(c, s, g), c)
      BY <2>1, <3>1 DEF UpdateMade
    <3>3. OfType(t) \subseteq {c}
      BY <3>2, RoomMeansNone
    <3>4. \A d \in OfType(t)' : d = c
      BY <2>1, <3>3 DEF UpdateMade, OfType
    <3>5. req'[q].at = "update" /\ req'[q].id = c /\ req'[q].type = t
      BY <2>1, <2>3 DEF UpdateMade
    <3> QED BY <3>4, <3>5, BoundedAnew
  <2> QED BY <2>2, <2>3
<1>6. ASSUME NEW r \in Contact, CreateOrgAlertRecipient(r) \/ DeleteOrgAlertRecipient(r)
      PROVE  Bounded(t)'
  <2>1. UNCHANGED <<channels, req>>
    BY <1>6 DEF CreateOrgAlertRecipient, DeleteOrgAlertRecipient
  <2> QED BY <2>1 DEF Bounded, WouldBe, WouldAdd, OfType, Exists
<1>7. CASE UNCHANGED cvars
  BY <1>7 DEF cvars, Bounded, WouldBe, WouldAdd, OfType, Exists
<1> QED BY <1>2, <1>3, <1>4, <1>5, <1>6, <1>7, StepCases

\* The cap of one e-mail and one phone channel is exceeded by overlapping
\* requests only, so by fewer than there are slots for them, for any number of
\* slots (checkChannelRoom is a check before the write).
THEOREM CapsBoundedCorrect == ChSpec => []CapsBounded
<1>1. CapsBounded <=> \A t \in {"EMAIL", "SMS"} : Bounded(t)
  BY DEF CapsBounded, Bounded
<1>2. ChInit => CapsBounded
  <2> SUFFICES ASSUME ChInit, NEW t \in {"EMAIL", "SMS"} PROVE Bounded(t)
    BY <1>1
  <2>1. WouldBe(t) = {} /\ WouldAdd(t) = {}
    BY DEF ChInit, NoChannel, Idle, WouldBe, WouldAdd, OfType, Exists
  <2>2. Cardinality(Req) \in Nat
    BY ChannelsAssumption, FS_CardinalityType
  <2> QED BY <2>1, <2>2, FS_EmptySet DEF Bounded
<1>3. ChInv /\ CapsBounded /\ [ChNext]_cvars => CapsBounded'
  <2> SUFFICES ASSUME ChInv, CapsBounded, [ChNext]_cvars,
                      NEW t \in {"EMAIL", "SMS"}
               PROVE  Bounded(t)'
    BY DEF CapsBounded, Bounded
  <2> QED BY <1>1, BoundedStep
<1> QED BY <1>2, <1>3, ChInvCorrect, PTL DEF ChSpec
=============================================================================
