SPECIFICATION MCSpec
CONSTANTS
    Parts = {"turn", "ai", "repeated", "colliding", "keys", "edits", "stalls", "accesses"}
    Accounts = {a1}
    Peers = {p1}
    None = None
    MaxPeers = 2
    Ttl = 2
    Grace = 1
    MaxTime = 2
    Faults = FALSE
    SlowBodies = FALSE
    Things = {x1, x2, x3}
    Pair = {w1, w2}
    TurnSweeps = {"w1", "w2"}
    Periods = 2
    PeriodLength = 2
    TurnLimit = 2
    TurnTtl = 3
    TurnDelay = 1
    TurnWindow = 4
    TurnRun = 1
    TurnFailures = 1
    TurnBytes = 1
    TurnTime = 7
SYMMETRY Symmetry
INVARIANTS
    TurnInv
    AiInv
    CacheInv
PROPERTIES
    MeterSteps
CHECK_DEADLOCK FALSE
