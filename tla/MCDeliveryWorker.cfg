SPECIFICATION Spec
CONSTANTS
  d1 = d1
  d2 = d2
  w1 = w1
  w2 = w2
  Deliveries <- MCDeliveries
  Workers <- MCWorkers
  Nobody = Nobody
  Parks <- MCParks
  ExecutorMoves <- MCNoMoves
  LeaseTicks = 2
  BeatTicks = 1
  RetryTicks = 1
  MaxFaults = 1
INVARIANTS TypeOK
PROPERTIES InterruptedWorkIsReclaimed RetryIsClaimed StaleRunIsStopped
CHECK_DEADLOCK FALSE
