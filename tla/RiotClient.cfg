CONSTANTS
    c1 = c1
    c2 = c2
    account = account
    league = league
    match = match
    Callers <- MCCallers
    Keys <- MCKeys
    Ttl <- MCTtl
    MinSweepSize = 1
    Attempts = 2
    RetryBase = 1
    MaxRetryDelay = 1
    RetryAfters = {2}
    Timeout = 1
    Budgets = {1}
    NoDeadline = NoDeadline
    NoKey = NoKey
    CacheMayFail = TRUE
    MaxClock = 3
    MaxCalls = 3
SPECIFICATION Spec
INVARIANTS
    TypeOK
    EveryAttemptPaid
    RetryAfterKept
    AnswersRecent
    SizeBounded
\* The clock stops once every call has returned.
CHECK_DEADLOCK FALSE
