SPECIFICATION LFairSpec
CONSTANTS
  Junk = Junk
  kCheapPrepend = 1
  ExtraData = 0
  t1 = t1
  t2 = t2
  Threads <- MCThreads
  Lengths = {1, 2}
  RollSize = 2
  MaxBytes = 4
  MaxDay = 2
INVARIANTS
  LogInOrder
PROPERTIES
  StopReturns
  BackEndRests
CHECK_DEADLOCK FALSE
