SPECIFICATION HealthySpec
CONSTANTS
    r1 = r1
    r2 = r2
    r3 = r3
    w1 = w1
    w2 = w2
    w3 = w3
    Nobody = Nobody
    Region = {r1, r2}
    Worker = {w1, w2}
    RegionOf <- TwoPools
    Home = {r1}
    Choices = {}
    Flaky = {}
    FlakyStatus = {}
    CanFail = TRUE
    ActiveWindow = 1
    Recency = 0
    RequestTTL = 1
    VerifyFresh = 2
    SchedFresh = 9
    MinGap = 3
PROPERTY
    ResolvesOnlyOnRecovery
