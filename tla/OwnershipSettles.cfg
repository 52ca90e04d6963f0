SPECIFICATION FairSpec
CONSTANTS
    Instance = {1, 2}
    Watched = {1}
    PartitionCount = 3
    EventCap = 1
    MaxChanges = 3
INVARIANTS
    OwTypeOK
    NoSplit
PROPERTIES
    SettledStays
    CheckedOnce
CHECK_DEADLOCK FALSE
