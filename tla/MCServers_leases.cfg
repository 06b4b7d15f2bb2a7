SPECIFICATION MCSpec
CONSTANTS
    Parts = {"leases", "events", "late", "archives", "modpacks"}
    Isolates = {i1}
    Faults = TRUE
    Drains = TRUE
    MaxIds = 2
    Keys = {k1, k2, k3}
    Things = {x1}
    First = First
    None = None
    NumServices = 1
    Sweepers = {w1}
    SweepLimit = 1
    MaxWanted = 1
    Packs = {"d1"}
    PreviewKeys = {"k1"}
    ApplyKeys = {"k1", "k2"}
    RollbackKeys = {"k1"}
    PackFaults = TRUE
    PackOutages = TRUE
    PackRequests = 2
    PackSnapshots = 2
    PackDeaths = 1
    MaxBreakdowns = 1
SYMMETRY Symmetry
INVARIANTS
    LeaseInv
    ModpackInv
PROPERTIES
    ModpackSteps
CHECK_DEADLOCK FALSE
