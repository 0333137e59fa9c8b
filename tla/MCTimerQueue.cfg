SPECIFICATION FairSpec
CONSTANTS
  Addrs <- MCAddrs
  Intervals <- MCIntervals
  Creators <- BothThreads
  MaxBirths = 2
  MaxTime = 2
INVARIANTS
  OneOwner
  SetsAgree
  DeadlineArmed
  OwnIdOnly
  CancelledStaysOut
PROPERTIES
  NeverEarly
  DueTimersLeave
CHECK_DEADLOCK FALSE
