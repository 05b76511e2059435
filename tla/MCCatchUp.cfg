SPECIFICATION Spec
CONSTANTS
    Label = {"g", "k", "n", "r"}
    RawLabels = {"k", "r"}
    KeptLabels = {"k"}
    Branches <- LongBranches
    ConfirmationBlocks = 1
    MaxCatchupBlocks = 3
    StartBlock = 3
    MaxBridgeWalk = 2
    MaxForkWalk = 3
    CatchupBatchBlocks = 2
    BatchConsistencyAttempts = 3
    MaxQueuedHeads = 2
    InitHeight = 2
    TipMayDrop = FALSE
    ReturnsToBranch = FALSE
    OmitsBlockHash = FALSE
INVARIANTS
    WrittenOnceConfirmed
    CatchupIsBounded
