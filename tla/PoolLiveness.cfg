SPECIFICATION FairSpec
CONSTANTS
    w1 = w1
    w2 = w2
    Workers <- TwoWorkers
    JobIds <- OneJob
    MaxAttempts = 2
    RetryDelay = 1
    Delays = {1}
    LeaseDuration = 4
    Lag = 1
    TimerSlack = 0
    MaxExecution = 1
    MaxFaults = 1
PROPERTIES
    EveryJobSettles
    StopEnds
