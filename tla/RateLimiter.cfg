CONSTANTS
    c1 = c1
    c2 = c2
    c3 = c3
    short = short
    long = long
    Callers <- MCCallers
    Windows <- MCWindows
    Limit <- MCLimit
    Per <- MCPer
    Budgets = {1}
    NoDeadline = NoDeadline
    MaxClock = 3
    MaxCalls = 5
SPECIFICATION Spec
SYMMETRY Symmetry
INVARIANTS
    TypeOK
    RespectsLimits
PROPERTY
    NoNeedlessWait
CHECK_DEADLOCK FALSE
