SPECIFICATION Spec
CONSTANTS
    f1 = f1
    f2 = f2
    c1 = c1
    c2 = c2
    Files = {f1, f2}
    Writers = {w1}
    Checks = {c1, c2}
    Target <- MCTarget
    Covers <- MCCovers
    Lanes = 2
    Faults = {"nothing"}
    MaxChanges = 2
    MaxFaults = 1
    MaxCrashes = 1
INVARIANTS
    EvidenceIsFresh
CHECK_DEADLOCK FALSE
