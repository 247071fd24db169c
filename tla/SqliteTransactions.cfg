SPECIFICATION FairSpec
CONSTANTS
    w1 = w1
    c1 = c1
    c2 = c2
    Workers <- OneWorker
    Callers <- TwoCallers
    JobIds = {1}
    MaxAttempts = 2
    Delays = {0, 1}
    LeaseDuration = 1
    MaxTime = 1
    MaxChanges = 4
INVARIANTS
    LockHeldByTransaction
    RowMatchesHistory
PROPERTIES
    ImplementsAtomicStore
    NoUpdateLost
    LockIsFreed
