SPECIFICATION TSpec
CONSTANTS
  owner = owner
  other = other
  Callers <- MCCallers
  Owner = owner
  MaxPosts = 1
PROPERTIES
  DestructorReturns
CHECK_DEADLOCK FALSE
