\* Two requests at a time that overlap and fail as they may: the monitor's
\* settings follow the plan, the identifiers are kept, the record converges.
SPECIFICATION BFairSpec
CONSTANTS
    Req = {q1, q2}
    Edited = {"repeat"}
    Faults = TRUE
    MaxSubs = 1
    MaxActs = 3
    MaxDups = 0
INVARIANTS
    BTypeOK
    WithinPlan
    NothingUnbought
PROPERTIES
    IdsKept
    Converges
