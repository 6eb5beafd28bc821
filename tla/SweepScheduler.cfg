\* two sites of different intervals, one worker, a sweep from outside, one fault
CONSTANTS
    s1 = s1
    s2 = s2
    Sites <- TwoSites
    Sweeps = {k1, k2}
    Interval <- Intervals
    AgeCap = 2
    FindTicks = 0
    Concurrency = 1
    MaxExternals = 1
    MaxFaults = 1
SPECIFICATION FairSpec
CHECK_DEADLOCK FALSE
INVARIANTS FlagIsTrue NoSiteTwice
PROPERTIES OnlyDueSitesProbed DueIsChecked
