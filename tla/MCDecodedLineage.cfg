SPECIFICATION FairSpec
CONSTANTS
    Renderers = {r1}
    Workers = {w1}
    Scopers = {s1}
    ContentsLimit = 6
    LedgerCapacity = 4
    RowCapacity = 4
    OperationCapacity = 6
    ScopeCapacity = 1
    MaxRenderings = 1
    MaxJobs = 1
    MaxRows = 1
    MaxMishaps = 1
INVARIANTS CompleteIsUndisturbed ActiveCountsScopes
PROPERTIES HistoryIsFinal ScopesDrain
CHECK_DEADLOCK FALSE
