SPECIFICATION Spec
CONSTANTS
    Free = Free
    Unborn = Unborn
    Records = {r1, r2}
    Procs = {p1, p2}
    Timers = {p1}
    Readers = {p1}
    Closers = {p2}
    Threshold = 2
    Retention = 0
    MaxClock = 1
    Faults = {"io", "crash"}
INVARIANT Accounted
INVARIANT ReadOnce
INVARIANT ShutdownPersists
PROPERTY HistoryKept
