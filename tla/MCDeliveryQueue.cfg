SPECIFICATION Spec
CONSTANTS
  d1 = d1
  d2 = d2
  w1 = w1
  w2 = w2
  Deliveries <- MCDeliveries
  Owners <- MCOwners
  NoOwner = NoOwner
  Signals <- MCSignals
  RetryDelays <- MCRetryDelays
  LeaseMoves <- MCLeaseMoves
  DirectMoves <- MCDirectMoves
  LeaseDuration = 1
  MaxLag = 1
  MaxClock = 2
  MaxEpoch = 3
INVARIANTS TypeOK LeaseNamesOpenAttempt EpochsFenceAttempts
PROPERTIES CancelIsFinal RowMatchesState ImplementsLease
SYMMETRY Symmetry
CHECK_DEADLOCK FALSE
