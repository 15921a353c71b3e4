SPECIFICATION Spec
CONSTANTS
    p1 = p1
    p2 = p2
    c1 = c1
    c2 = c2
    Paths = {p1, p2}
    Versions = {0, 1, 2}
    Commits = {c1, c2}
    Tree <- MCTree
    MaxTouched = 1
    MaxDirty = 1
    None = None
    MaxChanges = 3
    MaxFaults = 1
    MaxStops = 1
INVARIANTS
    TypeOK
PROPERTIES
    TouchedCoversIndex
    ChangesAreIndexed
CHECK_DEADLOCK FALSE
