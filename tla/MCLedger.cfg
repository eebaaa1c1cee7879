CONSTANTS
    Tables = 2
    PartitionBlocks = 2
    SpanBlocks = 3
    RetainBlocks = 2
    CompactSpans = 2
    PruneFloorGap = 2
    MaxReorgDepth = 2
    MaxPartitionsPerEnsure = 2
    DayBlocks = 2
    NodeAhead = 0
    GateBlocks = 1
    HighestBlock = 8
    Genesis = {0}
    RetentionScenarios <- PruneScenarios
    Addr = {1, 2}
    Closed = 1
    TopBlock = 2
    SpanBatch = 1
    AddressBuckets = 1
    Touches <- TouchedBy
    RebaseScenarios <- Drifts
SPECIFICATION LedgerSpec
INVARIANTS
    LedgerTypeOK
    RecountExact RunningExact ReorgDayKept RangesCovered SpansWhole ArchivedBeforeDrop
    RowsAccounted NothingQuarantined
PROPERTIES PrunedStaysPruned ExactUntilRecorded RebaseSetsTruth
CHECK_DEADLOCK FALSE
