CONSTANTS
    w1 = w1
    w2 = w2
    h = h
    t = t
    p = p
    Workers <- MCWorkers
    Submitters <- MCSubmitters
    Puuids <- MCPuuids
    TickerId = t
    QueueSize = 1
    NoJob = NoJob
    MaxJobs = 2
    MaxRuns = 2
SPECIFICATION ServerFairSpec
INVARIANTS
    ServerTypeOK
    PoolClosedLast
PROPERTIES
    NothingAcceptedLate
    Terminates
CHECK_DEADLOCK FALSE
