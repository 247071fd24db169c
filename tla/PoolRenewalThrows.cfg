SPECIFICATION Spec
SYMMETRY WorkerSymmetry
CONSTANTS
    w1 = w1
    w2 = w2
    Workers <- TwoWorkers
    JobIds <- OneJob
    MaxAttempts = 1
    RetryDelay = 1
    Delays = {0}
    LeaseDuration = 5
    Lag = 1
    TimerSlack = 0
    MaxExecution = 7
    MaxFaults = 1
INVARIANTS
    RenewedWhileExecuting
