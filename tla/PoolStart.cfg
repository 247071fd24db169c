SPECIFICATION FairSpec
CONSTANTS
    WorkerCount = 3
    PollIntervals = {0, 1}
    WorkDurations = {0, 1}
    Jobs = {1, 2, 3}
    MaxFaults = 3
PROPERTIES
    HostStarts
    StopEndsHost
    DueJobsAreTaken
CHECK_DEADLOCK FALSE
