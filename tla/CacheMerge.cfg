SPECIFICATION Spec
CONSTANTS
    a1 = a1
    a2 = a2
    p1 = p1
    p2 = p2
    cached = cached
    pinned = pinned
    NoEntry = NoEntry
    Never = Never
    NoTable = NoTable
    Absent = Absent
    Corrupt = Corrupt
    Free = Free
    Tables = {cached, pinned}
    Pinned = {pinned}
    TtlTables = {cached}
    Ttl = 1
    MaxVersion = 0
    MaxClock = 1
    Procs = {p1, p2}
    Actors = {a1, a2}
    Owner <- TwoProcesses
    Operations = {"scan", "refresh", "materialize", "refresh_materialized", "invalidate", "drop_materialized", "vacuum"}
    Faults = {"crash", "io"}
SYMMETRY Swap
PROPERTY ImplementsManifest
PROPERTY MemoryNeverRewinds
PROPERTY PinnedLeavesOnlyByName
