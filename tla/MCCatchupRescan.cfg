CONSTANTS
    First = 1
    Last = 3
    w1 = w1
    w2 = w2
    Workers <- TwoWorkers
    QueueSize = 1
    RangesPerPoll = 9
    ScanBatch = 3
    CatchupAttempts = 1
    MaxBehind = 1
    MaxFaults = 2
    MaxCrashes = 1
    MaxReverts = 0
SYMMETRY WorkerSymmetry
SPECIFICATION Spec

INVARIANT NoBlockLost
CHECK_DEADLOCK FALSE
