SPECIFICATION Spec
CONSTANTS
    I64Max = 2
    DefaultLimit = 2
    MaxLimit = 3
    DefaultNs = "main"
    ExtraNs <- MCExtraNs
    Client <- MCClient
    Scenarios <- MCScenarios
    EngineAnswers <- MCEngineAnswers
    EngineResults <- MCEngineResults
    CachedEntries <- MCCachedEntries
    Window = 2
INVARIANTS
    AnswersAsLocal
    GrpcStreamsWhole
    MaterializedListed
PROPERTY
    CallsReturn
CHECK_DEADLOCK FALSE
