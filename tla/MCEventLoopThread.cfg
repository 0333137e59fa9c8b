SPECIFICATION TSpec
CONSTANTS
  owner = owner
  other = other
  Callers <- MCCallers
  Owner = owner
  MaxPosts = 2
INVARIANTS
  TTypeOK
  QuitOnLiveLoop
  DestructorDrains
PROPERTIES
  DestructorReturnsIfEntered
CHECK_DEADLOCK FALSE
