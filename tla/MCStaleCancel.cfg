SPECIFICATION Spec
CONSTANTS
  c1 = c1
  c2 = c2
  c3 = c3
  f = f
  g = g
  Calls = {c1, c2}
  Fingerprints = {f}
  Fp <- OneFingerprint
  Cancellable = {c1}
  Waiters = {w1}
  Capacity = 2
  MaxRuns = 3
  MaxHosts = 2
  MaxFaults = 0
INVARIANTS
  InterruptedNotRepeated
CHECK_DEADLOCK FALSE
