SPECIFICATION MovingSpec
CONSTANTS
  d1 = d1
  d2 = d2
  w1 = w1
  w2 = w2
  Deliveries <- MCDelivery
  Workers <- MCWorkers
  Nobody = Nobody
  Parks <- MCParks
  ExecutorMoves <- MCMoves
  LeaseTicks = 2
  BeatTicks = 1
  RetryTicks = 1
  MaxFaults = 1
PROPERTIES StoppedWorkIsReclaimed
CHECK_DEADLOCK FALSE
