CONSTANTS
    Sites = {s1}
    Sweepers = {w1}
    Manuals = {m1}
    Editors = {}
    MaxIncidents = 2
    Thresholds = {2}
    FailureCap = 2
    UniqueIndex = TRUE
    MayDelete = TRUE
    MaxFlips = 2
    MaxFaults = 1
SPECIFICATION FairSpec
CHECK_DEADLOCK FALSE
INVARIANTS AnnouncedWhenQuiet AnnouncementsBounded
PROPERTIES ImplementsLifecycle RecoveryResolves OutageOpensIncident
