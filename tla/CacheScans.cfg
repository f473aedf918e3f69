SPECIFICATION FairSpec
CONSTANTS
    a1 = a1
    a2 = a2
    p1 = p1
    p2 = p2
    cached = cached
    pinned = pinned
    NoEntry = NoEntry
    Never = Never
    NoTable = NoTable
    Absent = Absent
    Corrupt = Corrupt
    Free = Free
    Tables = {cached}
    Pinned = {}
    TtlTables = {cached}
    Ttl = 1
    MaxVersion = 1
    MaxClock = 1
    Procs = {p1, p2}
    Actors = {a1, a2}
    Owner <- TwoProcesses
    Operations = {"scan", "refresh", "invalidate"}
    Faults = {"bitrot", "crash", "unreadable", "io"}
INVARIANT NoStaleAfterInvalidate
PROPERTY OperationsEnd
