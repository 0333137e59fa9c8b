SPECIFICATION FairSpec
CONSTANTS
  u1 = u1
  Users <- MCUsers
  MaxConns = 1
  NumLoops = 1
  MaxCalls = 2
INVARIANTS
  DestroyedIsQuiet
  CleanupIsComing
  DestroyedOnce
  OpenIsWatched
PROPERTIES
  ClosedIsRemoved
  ForceCloseCloses
  ImplementsConnectionLife
CHECK_DEADLOCK FALSE
