SPECIFICATION ChSpec
CONSTANTS
    c1 = c1
    c2 = c2
    e1 = e1
    n1 = n1
    n2 = n2
    q1 = q1
    q2 = q2
    m1 = m1
    None = None
    Channel = {c1, c2}
    Monitor = {m1}
    OrgMonitor = {m1}
    Address = {e1}
    Email = e1
    Phone = {n1, n2}
    Chat = {}
    Hook = {}
    Asked = {"EMAIL", "SMS"}
    Contact <- Contacts
    Req = {q1, q2}
SYMMETRY Interchangeable
INVARIANTS
    ChTypeOK
    OnceEach
    TargetsFit
    CapsBounded
