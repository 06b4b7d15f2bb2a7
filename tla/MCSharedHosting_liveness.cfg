SPECIFICATION MCFairSpec
CONSTANTS
    Parts = {"scheduler", "hours", "content", "gateway", "queue"}
    Workers = {w1}
    Faults = FALSE
    Nodes = {n1}
    Services = {s1, s2}
    Capacity <- UnitCapacity
    Size <- UnitSize
    None = None
    Uploaded = {}
    Overtaking = FALSE
    Lossy = FALSE
    MaxAssignments = 2
    Hour = 2
    Price = 1
    Deposits = {2}
    Lag = 0
    MaxClock = 4
    MaxCrashes = 1
    Commands = {"c1", "c2"}
    Lease = 2
    MaxLifetime = 3
    MaxLate = 1
    MaxGenerations = 2
    MaxCalls = 2
PROPERTIES
    ServicesProgress
    AgentsProgress
CHECK_DEADLOCK FALSE
