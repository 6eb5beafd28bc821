CONSTANTS
    Channels = {c1, c2}
    Notifies = {n1}
    Editors = {e1}
    MaxCreators = 2
    Testers = {t1}
    MaxPerUser = 1
    FailureLimit = 2
    MaxFlips = 1
    MaxFaults = 1
SPECIFICATION FairSpec
CHECK_DEADLOCK FALSE
INVARIANTS DeliveryInv
PROPERTIES DeletedStaysDeleted DeadChannelNotRetriedForever EachChannelAttempted NotifyEnds
