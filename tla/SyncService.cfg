CONSTANTS
    p = p
    q = q
    j1 = j1
    j2 = j2
    Puuids <- MCPuuids
    Matches <- MCMatches
    Participants <- MCParticipants
    Count = 1
    Jobs <- MCJobs
    Nobody = Nobody
    MaxFailures = 1
SPECIFICATION FairSpec
INVARIANTS
    TypeOK
    OwnMatchInFeed
    MarkedWhenComplete
PROPERTY
    EventuallyStored
CHECK_DEADLOCK FALSE
