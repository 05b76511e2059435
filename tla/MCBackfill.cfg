SPECIFICATION FairSpec
CONSTANTS
    Label = {"g", "k", "n"}
    RawLabels = {"k"}
    KeptLabels = {"k"}
    Branches <- OnlyChain4
    Canonical <- Chain4
    PartitionBlocks = 2
    MaxTailBatch = 2
    Exports <- CorrectedAndFaulty
INVARIANTS
    TypeOK
    ServedIsVerified
PROPERTIES
    CoverageOnlyRewound
    LocksReleased
