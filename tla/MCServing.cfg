SPECIFICATION Spec
CONSTANTS
    Label = {"g", "p", "t", "m"}
    RawLabels <- MCRaw
    KeptLabels <- MCKept
    Branches <- MCBranches
    Emits <- MCEmits
    Filters <- MCFilters
    MaxTopics = 4
    MaxSubTopics = 9
    MaxResults = 3
    MaxTailBatch = 2
INVARIANTS
    TypeOK
    AnswersOneChain
    SplitPointHolds
