SPECIFICATION MCSpec
CONSTANTS
  Clients = {c1, c2}
  Keys = {k1, k2}
  NoKey = NoKey
  LockLease = 1
  LockWait = 1
  MaxClock = 2
  MaxToken = 3
INVARIANTS
    Inv
PROPERTIES
    AtomicTransactions
    LeaseRemovedByOwnerOrExpiry
    CallsEnd
CHECK_DEADLOCK FALSE
