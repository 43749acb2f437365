CONSTANTS
    Calls = {c1, c2}
    N = 3
    PageSize = 1
    None = None
    MaxRestarts = 1
SPECIFICATION Spec
INVARIANTS
    AppTypeOK
    PageTotals
    FeedGapless
PROPERTY
    FeedCompletes
CHECK_DEADLOCK FALSE
