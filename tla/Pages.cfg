CONSTANTS
    Mounts = {"sites", "dashboard", "stats", "incidents", "log", "notifications", "analytics", "detail", "charts", "settings", "channels"}
    MaxCalls <- Calls
    MaxFaults = 1
    OtherTabs = TRUE
SPECIFICATION FairSpec
CHECK_DEADLOCK FALSE
INVARIANT PagesInv
PROPERTIES PolledPageCatchesUp ButtonComesBack SkeletonGoes
