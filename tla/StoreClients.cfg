SPECIFICATION Spec
SYMMETRY WorkerSymmetry
CONSTANTS
    w1 = w1
    w2 = w2
    Workers <- TwoWorkers
    JobIds = {1}
    MaxAttempts = 2
    RetryDelay = 1
    Delays = {0, 1}
    LeaseDuration = 2
    Times = {0, 1, 2, 3}
    ChangeIds = {1, 2, 3, 4, 5, 6, 7}
INVARIANTS
    HistoryLegal
    RowMatchesHistory
    NeverEarly
    RetriesWithinBudget
    AttemptsMatchHistory
PROPERTIES
    SettledIsFinal
    HistoryOnlyGrows
    AcknowledgementSticks
    LiveLeaseNotTaken
