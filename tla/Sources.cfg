SPECIFICATION Spec
CONSTANTS
    NoDef = NoDef
    Partial = Partial
    NoName = NoName
    Names = {web}
    Defs = {live, timed, db}
    AttachDefs = {db}
    FnDefs = {live}
    Refreshed = {timed, db}
    TableCount = 2
    MaxLoops = 2
    Callers = {c1, c2}
    Editors = {c1, c2}
    Reloaders = {c1}
    Faults = {"source", "disconnect"}
INVARIANTS
    ServedAsListed
    RefreshersFollow
PROPERTY ReloadConverges
