CONSTANTS
    p = p
    q = q
    j1 = j1
    j2 = j2
    Puuids <- MCPuuids
    Matches <- MCMatches
    Participants <- MCParticipants
    Count = 2
    Jobs <- MCJobs
    Nobody = Nobody
    MaxFailures = 0
SPECIFICATION Spec
INVARIANT
    LastMatchesInFeed
CHECK_DEADLOCK FALSE
