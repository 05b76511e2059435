SPECIFICATION Spec
CONSTANTS
    Label = {"g", "k", "n", "r"}
    RawLabels = {"k", "r"}
    KeptLabels = {"k"}
    Branches <- ShortBranches
    ConfirmationBlocks = 1
    MaxCatchupBlocks = 0
    StartBlock = 0
    MaxBridgeWalk = 2
    MaxForkWalk = 3
    CatchupBatchBlocks = 2
    BatchConsistencyAttempts = 2
    MaxQueuedHeads = 1
    InitHeight = 2
    TipMayDrop = TRUE
    ReturnsToBranch = TRUE
    OmitsBlockHash = TRUE
INVARIANTS
    TypeOK
    StoreIsOneChain
    WriteNeverRefused
PROPERTY
    ImplementsCoveredChain
