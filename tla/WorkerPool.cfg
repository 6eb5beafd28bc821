\* five checks, three workers, any check may reject
CONSTANTS
    NumTasks = 5
    Limit = 3
    CanReject = TRUE
SPECIFICATION FairPoolSpec
CHECK_DEADLOCK FALSE
PROPERTIES PoolSettles ImplementsPool
