CONSTANTS
    k1 = k1
    k2 = k2
    Keys <- OneKey
    MaxBlock = 3
    MaxForks = 1
    MaxFaults = 0
    MaxCrashes = 0
    MaxAttempts = 2
    QueueSize = 2
    BatchSize = 1
    Gap = 1
SPECIFICATION Spec
INVARIANT SettledBalance
CHECK_DEADLOCK FALSE
