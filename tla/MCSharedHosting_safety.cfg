SPECIFICATION MCSpec
CONSTANTS
    Parts = {"scheduler", "hours", "content", "gateway",
             "queue", "polls", "seeds", "packs"}
    Workers = {w1, w2}
    Faults = TRUE
    Nodes = {n1}
    Services = {s1, s2}
    Capacity <- UnitCapacity
    Size <- UnitSize
    None = None
    Uploaded = {}
    Overtaking = FALSE
    Lossy = TRUE
    MaxAssignments = 2
    Hour = 2
    Price = 1
    Deposits = {1, 5}
    Lag = 1
    MaxClock = 6
    MaxCrashes = 1
    Commands = {"c1", "c2"}
    Lease = 2
    MaxLifetime = 3
    MaxLate = 1
    MaxGenerations = 2
    MaxCalls = 2
SYMMETRY Symmetry
INVARIANTS
    PlacementInv
    HoursInv
    ContentInv
    WorldInv
    OutboxInv
PROPERTIES
    HostingSteps
CHECK_DEADLOCK FALSE
