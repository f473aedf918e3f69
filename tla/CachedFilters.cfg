SPECIFICATION Spec
CONSTANTS
    Max32 = 7
    Max64 = 20
    Table <- OwnedTable
    Data <- OwnedRows
    Filters <- OwnedFilters
    Limits <- OneOrAll
INVARIANT CachedAnswers
