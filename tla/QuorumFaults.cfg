SPECIFICATION Spec
CONSTANTS
    r1 = r1
    r2 = r2
    r3 = r3
    w1 = w1
    w2 = w2
    w3 = w3
    Nobody = Nobody
    Region = {r1, r2}
    Worker = {w1, w2}
    RegionOf <- TwoPools
    Home = {r1}
    Choices = {}
    Flaky = {r1, r2}
    FlakyStatus = {"UP", "DEGRADED", "DOWN"}
    CanFail = FALSE
    ActiveWindow = 0
    Recency = 0
    RequestTTL = 1
    VerifyFresh = 1
    SchedFresh = 2
    MinGap = 0
INVARIANTS
    TypeOK
    ToldMatchesIncident
    DeletedLeavesNothing
PROPERTY
    ImplementsLifecycle
