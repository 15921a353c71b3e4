SPECIFICATION FairSpec
CONSTANTS
  Leases = {l1, l2, l3}
  Callers = {c1, c2}
  MaxGenerations = 3
INVARIANTS
  TransportsDoNotOverlap
PROPERTIES
  ReleasesEnd
CHECK_DEADLOCK FALSE
