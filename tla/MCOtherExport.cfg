SPECIFICATION Spec
CONSTANTS
    Label = {"g", "k", "n"}
    RawLabels = {"k"}
    KeptLabels = {"k"}
    Branches <- OnlyChain5
    Canonical <- Chain5
    PartitionBlocks = 2
    MaxTailBatch = 2
    Exports <- Adjacent
INVARIANT
    ServedIsVerified
