SPECIFICATION Spec
CONSTANTS
    Max32 = 7
    Max64 = 20
    Cases <- MCCases
    Json <- MCJson
    FaultKinds = {"json", "html", "transport"}
INVARIANT RowsExact
INVARIANT BoundedScan
INVARIANT PaceHonored
PROPERTY ScanEnds
