SPECIFICATION FairSpec
CONSTANTS
  Addrs <- MCAddrs
  Intervals <- MCIntervals
  Creators <- LoopOnly
  MaxBirths = 2
  MaxTime = 1
PROPERTIES
  CancelledNeverRuns
CHECK_DEADLOCK FALSE
