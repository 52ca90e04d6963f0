SPECIFICATION FairSpec
CONSTANTS
    m1 = m1
    m2 = m2
    Monitor = {m1}
    WaitsForSync = FALSE
    CallerCancels = TRUE
    BufferSize = 1
    BatchMax = 2
    MaxVersion = 3
    MaxGen = 3
    MaxResults = 3
INVARIANTS
    CTypeOK
    Cancellable
    ResultsOnce
    AbortedNeverCounts
PROPERTIES
    SyncComplete
    FreshConfig
CHECK_DEADLOCK FALSE
