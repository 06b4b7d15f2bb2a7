SPECIFICATION MCSpec
CONSTANTS
    Parts = {"repository", "stopping", "refused", "registering", "desk",
             "signed", "tokens", "binding", "merging",
             "agent", "forgetful", "returning"}
    Callers = {c1, c2}
    MaxAttempts = 2
    Window = 1
    MaxMutations = 3
    Handlers = {h1, h2}
    None = None
SYMMETRY Symmetry
INVARIANTS
    Inv
    MachinesInv
    PeopleInv
PROPERTIES
    AtomicMutations
    RecordSteps
CHECK_DEADLOCK FALSE
