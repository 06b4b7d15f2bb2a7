SPECIFICATION MCSpec
CONSTANTS
    Parts = {"rooms", "faults"}
    Accounts = {a1, a2, a3}
    Peers = {p1, p2, p3}
    None = None
    MaxPeers = 2
    Ttl = 2
    Grace = 1
    MaxTime = 2
    Faults = FALSE
    SlowBodies = FALSE
    Things = {x1}
    Pair = {w1}
    TurnSweeps = {"w1", "w2"}
    Periods = 2
    PeriodLength = 2
    TurnLimit = 2
    TurnTtl = 3
    TurnDelay = 1
    TurnWindow = 4
    TurnRun = 1
    TurnFailures = 1
    TurnBytes = 1
    TurnTime = 7
SYMMETRY Symmetry
INVARIANTS
    RoomInv
    SteadyRoomInv
CHECK_DEADLOCK FALSE
