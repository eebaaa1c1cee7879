CONSTANTS
    First = 1
    Last = 3
    w1 = w1
    w2 = w2
    Workers <- OneWorker
    QueueSize = 1
    RangesPerPoll = 9
    ScanBatch = 2
    CatchupAttempts = 1
    MaxBehind = 1
    MaxFaults = 1
    MaxCrashes = 1
    MaxReverts = 1

SPECIFICATION LiveSpec
PROPERTY EventuallyFilled
CHECK_DEADLOCK FALSE
