SPECIFICATION FairSpec
CONSTANTS
  c1 = c1
  c2 = c2
  Callers <- MCCallers
  MaxPosts = 2
INVARIANTS
  TypeOK
  NoLostWakeup
  ExitDrains
PROPERTIES
  ImplementsTaskQueue
  TaskEventuallyRuns
  QuitLeadsToExit
CHECK_DEADLOCK FALSE
