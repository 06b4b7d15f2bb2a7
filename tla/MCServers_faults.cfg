SPECIFICATION MCSpec
CONSTANTS
    Parts = {"creates", "admins", "requests", "nodes", "backups", "bills", "compilation", "redelivery",
             "capacity"}
    Isolates = {i1, i2}
    Faults = TRUE
    Drains = TRUE
    MaxIds = 2
    Keys = {k1}
    Things = {x1, x2}
    First = First
    None = None
    NumServices = 2
    Sweepers = {i1, i2}
    SweepLimit = 1
    MaxWanted = 2
    Packs = {"d1"}
    PreviewKeys = {"k1"}
    ApplyKeys = {"k1", "k2"}
    RollbackKeys = {"k1"}
    PackFaults = TRUE
    PackOutages = TRUE
    PackRequests = 2
    PackSnapshots = 2
    PackDeaths = 1
    MaxBreakdowns = 1
SYMMETRY Symmetry
INVARIANTS
    CloudInv
    NodesInv
    BackupsInv
    CompilationInv
PROPERTIES
    NodeSteps
    FinalSteps
CHECK_DEADLOCK FALSE
