SPECIFICATION McpFairSpec
CONSTANTS
    NoId = NoId
    Nobody = Nobody
    Queries = {q1, q2}
    Ids = {i1}
    UniqueIds = TRUE
    MaxBatches = 1
    Capacity = 1
INVARIANT OneRecordPerQuery
INVARIANT OkIsClean
INVARIANT CancelReaches
INVARIANT NoRunawayQuery
INVARIANT CancelHonored
PROPERTY QueriesEnd
PROPERTY CancelReturns
