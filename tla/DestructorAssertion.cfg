SPECIFICATION FairSpec
CONSTANTS
  u1 = u1
  Users <- MCUsers
  MaxConns = 1
  NumLoops = 1
  MaxCalls = 2
INVARIANTS
  DestructorAssertion
CHECK_DEADLOCK FALSE
