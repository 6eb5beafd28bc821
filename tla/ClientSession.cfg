CONSTANTS
    Users = {u, v}
    Refreshes = {p1, p2}
    MaxFaults = 1
    MaxReloads = 1
SPECIFICATION FairSpec
CHECK_DEADLOCK FALSE
PROPERTIES SpinnerEnds ExpiryNoticed BadgeCatchesUp
