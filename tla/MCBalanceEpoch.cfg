CONSTANTS
    k1 = k1
    k2 = k2
    Keys <- OneKey
    MaxBlock = 3
    MaxForks = 1
    MaxFaults = 1
    MaxCrashes = 1
    MaxAttempts = 1
    QueueSize = 2
    BatchSize = 1
    Gap = 1
SPECIFICATION LiveSpec
INVARIANT TypeOK
INVARIANT NoForkBalance
INVARIANT RowsWithinHead
PROPERTY EventuallyAnswered
CHECK_DEADLOCK FALSE
