SPECIFICATION Spec
CONSTANTS
  c1 = c1
  c2 = c2
  c3 = c3
  f = f
  g = g
  Calls = {c1, c2, c3}
  Fingerprints = {f, g}
  Fp <- TwoFingerprints
  Cancellable = {c3}
  Waiters = {w1, w2}
  Capacity = 2
  MaxRuns = 2
  MaxHosts = 2
  MaxFaults = 2
INVARIANTS
  TypeOK
  DuplicatesInvokeOnce
  SlotsMatchRuns
  ResultsCanBeCollected
  InterruptedNotRepeated
PROPERTIES
  TerminalReceiptStands
CHECK_DEADLOCK FALSE
