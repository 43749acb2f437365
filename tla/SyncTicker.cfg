CONSTANTS
    w1 = w1
    w2 = w2
    h = h
    t = t
    p = p
    q = q
    Workers <- MCWorkers
    Submitters <- MCSubmitters
    Puuids <- MCPuuids
    TickerId = t
    QueueSize = 1
    NoJob = NoJob
    MaxJobs = 1
    MaxRuns = 2
SPECIFICATION TickerFairSpec
INVARIANTS
    TickerTypeOK
    BatchCounted
    RunsDoNotOverlap
PROPERTIES
    NoQueuedTick
    RunEnds
    StopReturns
CHECK_DEADLOCK FALSE
