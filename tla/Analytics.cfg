CONSTANTS
    Sites = {a, b}
    a = a
    b = b
    DemoSites = {a}
    Checkers = {c1, c2}
    c1 = c1
    c2 = c2
    Threshold = 2
    Ranges = {2, 4}
    Windows = {2, 4}
    DashboardRange = 2
    TopN = 1
    TimelineLength = 2
    PageSize = 1
    SeedLength = 5
    Probed = {"slow", "lost"}
    Begin = 7
    End = 7
    MaxChecks = 2
    MaxWrites = 1
SYMMETRY Symmetry
SPECIFICATION Spec
CHECK_DEADLOCK FALSE
INVARIANTS  DowntimeIsExact AnswersAgree PagesAreWhole
