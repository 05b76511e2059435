SPECIFICATION Spec
CONSTANTS
    Label = {"g", "a", "b"}
    RawLabels = {"a", "b"}
    KeptLabels = {"a", "b"}
    Branches <- MCBranches
    Process = {p, q}
    MaxTailBatch = 2
    Faults = {"session lost"}
SYMMETRY AnyProcess
INVARIANTS
    TypeOK
    CoverageComplete
    LogsPaired
PROPERTIES
    TransactionsAreAtomic
