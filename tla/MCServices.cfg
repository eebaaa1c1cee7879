CONSTANTS
    First = 1
    Last = 3
    w1 = w1
    w2 = w2
    Workers <- TwoWorkers
    QueueSize = 1
    RangesPerPoll = 2
    ScanBatch = 2
    CatchupAttempts = 1
    MaxBehind = 1
    MaxFaults = 1
    MaxCrashes = 1
    MaxReverts = 0
    Txn = {1, 2, 3, 4}
    Token = {1, 2}
    Nft = {1}
    BalanceKey = {1, 2, 3}
    KeyToken <- KeyTokens
    SharedScenarios <- WriterSets
    CreatingTx = {1, 2, 3, 4}
    PrunedHeight = 1
    TxHeight <- Heights
    TraceOf <- Traces
    ListedOf <- CreationList
    ContractScenarios <- Commands
    ApiClient = {1, 2}
    HeadBlock = 4
    PageSize = 2
    TxRow <- ListedTxs
    HiddenTx <- Unlisted
    SentTx <- SentBy
    ReceivedTx <- ReceivedBy
    TransferTx <- MovedIn
    DepositRow <- FromL1
    DepositTx <- ToL2
    ApiScenarios <- CallerSets
    Asker = {1, 2}
    NodeBlock = {1, 2}
    OrphanTx <- Orphans
    MainTx <- Mains
    MaxBlocks = 2
    MaxTxs = 4
    Concurrency = 1
    LookupScenarios <- Lookups
SYMMETRY WorkerSymmetry
SPECIFICATION ServicesSpec
INVARIANTS
    NoBlockLost
    ServicesTypeOK
    NoWaitCycle TokensCounted OwnerOfLatest
    ContractsResumed NoneUndone
    PagedOnce PrunedSaidSo
    IndexBacked AskedAgain
CHECK_DEADLOCK FALSE
