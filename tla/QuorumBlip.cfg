SPECIFICATION HealthySpec
CONSTANTS
    r1 = r1
    r2 = r2
    r3 = r3
    w1 = w1
    w2 = w2
    w3 = w3
    Nobody = Nobody
    Region = {r1, r2, r3}
    Worker = {w1, w2, w3}
    RegionOf <- ThreePools
    Home = {r1}
    Choices = {{r1}, {r1, r2}}
    Flaky = {r1}
    FlakyStatus = {"UP", "DOWN"}
    CanFail = FALSE
    ActiveWindow = 1
    Recency = 0
    RequestTTL = 1
    VerifyFresh = 2
    SchedFresh = 3
    MinGap = 0
INVARIANT
    BlipNeverAlerts
