SPECIFICATION MCFairSpec
CONSTANTS
    Parts = {"stops", "suspends", "requests", "deletes", "rebuilds", "applies",
             "uploads", "capacity"}
    Isolates = {i1, i2}
    Faults = FALSE
    Drains = FALSE
    MaxIds = 2
    Keys = {k1}
    Things = {x1, x2}
    First = First
    None = None
    NumServices = 1
    Sweepers = {w1}
    SweepLimit = 1
    MaxWanted = 1
    Packs = {"d1"}
    PreviewKeys = {"k1"}
    ApplyKeys = {"k1", "k2"}
    RollbackKeys = {"k1"}
    PackFaults = TRUE
    PackOutages = TRUE
    PackRequests = 2
    PackSnapshots = 2
    PackDeaths = 1
    MaxBreakdowns = 2
PROPERTIES
    ServersProgress
    ContentProgress
CHECK_DEADLOCK FALSE
