CONSTANTS
    Champions = {1, 2, 3}
    Row <- MCRow
    Games = 4
    DefaultPeriod = 3
    MaxPeriod = 4
    TopCount = 2
    None = None
SPECIFICATION Spec
INVARIANTS
    StatsMatchReference
    TopDetermined
CHECK_DEADLOCK FALSE
