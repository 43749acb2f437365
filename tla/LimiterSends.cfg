CONSTANTS
    c1 = c1
    c2 = c2
    c3 = c3
    window = window
    Callers <- MCCallers
    Windows <- MCWindows
    Limit <- MCLimit
    Per <- MCPer
    Budgets = {1}
    NoDeadline = NoDeadline
    MaxClock = 3
    MaxCalls = 5
SPECIFICATION SendSpec
SYMMETRY Symmetry
INVARIANT
    SendsRespectLimits
CHECK_DEADLOCK FALSE
