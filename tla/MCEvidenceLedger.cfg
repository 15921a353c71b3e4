SPECIFICATION Spec
CONSTANTS
    f1 = f1
    f2 = f2
    c1 = c1
    c2 = c2
    Files = {f1, f2}
    Writers = {w1, w2}
    Checks = {c2}
    Target <- MCTarget
    Covers <- MCCovers
    Lanes = 1
    Faults = {"nothing", "torn", "whole"}
    MaxChanges = 2
    MaxFaults = 2
    MaxCrashes = 1
INVARIANTS
    EvidenceIsFresh
PROPERTIES
    DurableHistory
    ReopenedEvidenceIsFresh
CHECK_DEADLOCK FALSE
