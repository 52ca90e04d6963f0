\* The first lease is as long as a send may take and shorter than a batch may,
\* as in the code.
SPECIFICATION PromptSpec
CONSTANTS
    a1 = a1
    a2 = a2
    d1 = d1
    d2 = d2
    Alert = {a1, a2}
    Recipient = {a2}
    Dispatcher = {d1, d2}
    BatchSize = 2
    Slots = 1
    MaxAttempts = 2
    SendTimeout = 1
    BatchTimeout = 2
    LeaseBase = 1
    LeaseCap = 2
    MaxFaults = 1
INVARIANTS
    OTypeOK
    LeavesOnlyWhenDone
    HistoryHonest
    LeaseHolds
PROPERTY
    Drained
