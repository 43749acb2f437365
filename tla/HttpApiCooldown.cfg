CONSTANTS
    ann = ann
    bob = bob
    id = id
    r1 = r1
    r2 = r2
    w1 = w1
    w2 = w2
    Players <- MCPlayers
    Names <- MCNames
    Requests <- MCTwo
    Workers <- MCWorkers
    QueueSize = 1
    Second = 2
    Cooldown = 2
    Never <- MCNever
    None = None
    MaxTime = 2
    MaxRenames = 1
    MaxRestarts = 0
SPECIFICATION Spec
SYMMETRY Symmetry
INVARIANT
    NotMoreOften
CHECK_DEADLOCK FALSE
