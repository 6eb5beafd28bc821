CONSTANTS
    s1 = s1
    s2 = s2
    Sites <- TwoSites
    Sweeps = {k1, k2}
    Interval <- Intervals
    AgeCap = 3
    FindTicks = 1
    Concurrency = 1
    MaxExternals = 1
    MaxFaults = 0
SPECIFICATION Spec
CHECK_DEADLOCK FALSE
PROPERTY TickSkippedWhileRunning
