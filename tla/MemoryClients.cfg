SPECIFICATION Spec
SYMMETRY WorkerSymmetry
CONSTANTS
    w1 = w1
    w2 = w2
    Workers <- TwoWorkers
    JobIds = {1, 2}
    MaxAttempts = 2
    RetryDelay = 1
    Delays = {0, 2}
    LeaseDuration = 2
    Lag = 1
    MaxTime = 2
    MaxChanges = 5
INVARIANTS
    TypeOK
    IndexExact
    DueIsFound
PROPERTIES
    AgreesWithSqlite
    ImplementsOwnership
