CONSTANTS
    Checks = {c1, c2}
    Bands = {1, 2}
    Lifetimes = {1, 2, 3}
    MaxRenewals = 1
    MaxFaults = 1
SYMMETRY Symmetry
SPECIFICATION Spec
CHECK_DEADLOCK FALSE
INVARIANTS RecordIsHonest WarnedOncePerBand NextApproachAnnounced
