SPECIFICATION FairSpec
CONSTANTS
    FromBlock = 1
    ToBlock = 7
    Width = 16
    DefaultStep = 6
    SpanCap = 3
    ProviderSpans = {0, 1, 2, 5}
    MaxResults = 2
    InitialInterval = 1
    MaxInterval = 2
    MaxElapsed = 3
    CallTimeout = 2
    Densities <- Sparse
    MostWithLogs = 4
INVARIANTS
    TypeOK
    EachBlockOnce
    NoRefusedSpan
    ReceiptsOnlyIfDense
PROPERTY
    FetchTerminates
CHECK_DEADLOCK FALSE
