SPECIFICATION Spec
CONSTANTS
    Label = {"g", "k", "n", "r"}
    RawLabels = {"k", "r"}
    KeptLabels = {"k"}
    Branches <- LongBranches
    ConfirmationBlocks = 1
    MaxCatchupBlocks = 0
    StartBlock = 0
    MaxBridgeWalk = 2
    MaxForkWalk = 3
    CatchupBatchBlocks = 2
    BatchConsistencyAttempts = 3
    MaxQueuedHeads = 1
    InitHeight = 2
    TipMayDrop = TRUE
    ReturnsToBranch = FALSE
    OmitsBlockHash = FALSE
INVARIANT
    WrittenOnceConfirmed
