CONSTANTS
    LastBlock = 4
    DayBlocks = 2
    FoldMaxBlocks = 2
    FoldCounts = 2
    FoldStalls = 2
    RunEvery = 2
    FirstChain <- Transactions
    DailyScenarios <- DailyTroubles
    Target = 4
    AggregateFrom = 7
    BatchBlocks = 2
    SpanBlocks = 3
    StrictTries = 2
    KeysPerRead = 1
    KeysOf <- Keys0
    BackfillScenarios <- Mishaps
    SpanWidth = 2
    LastSpanBlock = 5
    SpanBlockReads = 2
    Defers = 2
    RecountScenarios <- Recounts
SPECIFICATION StatisticsSpec
INVARIANTS StatisticsTypeOK CountedOrNoted CarriedExactly BackfilledOnce
PROPERTIES DaysEventuallyCounted BackfillEventuallyCompletes RepairsTrue SpansEventuallyReached
CHECK_DEADLOCK FALSE
