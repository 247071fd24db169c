SPECIFICATION Spec
SYMMETRY WorkerSymmetry
CONSTANTS
    w1 = w1
    w2 = w2
    Workers <- TwoWorkers
    JobIds <- OneJob
    MaxAttempts = 1
    RetryDelay = 1
    Delays = {0}
    LeaseDuration = 2
    Lag = 2
    TimerSlack = 0
    MaxExecution = 1
    MaxFaults = 0
INVARIANTS
    ExecutesOwnClaim
