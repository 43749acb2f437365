CONSTANTS
    w1 = w1
    w2 = w2
    s1 = s1
    s2 = s2
    p = p
    Workers <- MCWorkers
    Submitters <- MCSubmitters
    Puuids <- MCPuuids
    QueueSize = 2
    NoJob = NoJob
    MaxJobs = 5
SPECIFICATION RunnerFairSpec
INVARIANTS
    RunnerTypeOK
    NoneOutlivesShutdown
PROPERTIES
    KeepsPromise
    AcceptedRuns
CHECK_DEADLOCK FALSE
