CONSTANTS
    Requests = {a, b}
    Emails = {x, y}
    Windows = {1, 2}
    Default = 2
    RunWindow = 1
    MaxAge = 3
    Cleanups = {k1}
    UniqueEmail = TRUE
    MaxFaults = 1
SPECIFICATION FairSpec
CHECK_DEADLOCK FALSE
INVARIANT AccountsInv
PROPERTIES OnlyExpiredDeleted ExpiredGoes
