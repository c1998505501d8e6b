SPECIFICATION PoolSpec
CONSTANTS
    r1 = r1
    r2 = r2
    r3 = r3
    r4 = r4
    r5 = r5
    None = None
    Requests <- MCRequests
    Loads <- MCLoads
    PoolSize = 2
    Threads = 2
INVARIANTS
    ResourcesAreOwned
    StallsAreBehindUploads
PROPERTIES
    EveryRequestEnds
CHECK_DEADLOCK FALSE
