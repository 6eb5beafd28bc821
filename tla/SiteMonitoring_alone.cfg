CONSTANTS
    Sites = {s1}
    Sweepers = {w1}
    Manuals = {}
    Editors = {e1}
    MaxIncidents = 3
    Thresholds = {2}
    FailureCap = 3
    UniqueIndex = TRUE
    MayDelete = TRUE
    MaxFlips = 4
    MaxFaults = 0
SPECIFICATION Spec
CHECK_DEADLOCK FALSE
INVARIANTS CacheAgrees FailuresAreCounted
PROPERTY ImplementsResponse
