SPECIFICATION Spec
CONSTANTS
    Max32 = 8
    Max64 = 16
    Job <- MCJob
    Scenarios <- MCScenarios
    MaxPages = 2
    PageSize = 1
    ToolRows <- MCToolRows
    Shaped <- MCShaped
INVARIANTS
    McpAnswersExact
    ToolsGuarded
PROPERTY
    McpCallsSettle
CHECK_DEADLOCK FALSE
