\* The steps of WSpec within the bound Narrow.
SPECIFICATION MCSpec
CONSTANTS
    u1 = u1
    u2 = u2
    u3 = u3
    o1 = o1
    o2 = o2
    i1 = i1
    i2 = i2
    c1 = c1
    c2 = c2
    m1 = m1
    m2 = m2
    q1 = q1
    q2 = q2
    User = {u1, u2, u3}
    Payer = {u1}
    Org = {o1, o2}
    Inv = {i1, i2}
    Contact = {c1, c2}
    Monitor = {m1, m2}
    Req = {q1, q2}
    Granted = {"ADMIN"}
    Faults = TRUE
    Personal = Personal
    MaxLoginSeats = 1
    MaxAlertRecipients = 1
    MaxMonitors <- Caps
SYMMETRY Interchangeable
INVARIANTS
    WTypeOK
    OneOrganization
    OrgsWhole
    SeatsRespected
    SeatsPromised
    RecipientsBounded
PROPERTIES
    JoinsByInvitation
    SettledForGood
    PoolRespected
