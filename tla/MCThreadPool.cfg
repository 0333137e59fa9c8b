SPECIFICATION FairSpec
CONSTANTS
  p1 = p1
  p2 = p2
  Producers <- MCProducers
  NumWorkers = 2
  MaxSize = 2
  MaxTasks = 4
INVARIANTS
  TypeOK
  NobodyWaitsInVain
  DestroyedIsClean
PROPERTIES
  TakenInOrder
  StartIsOver
  DestructorIsOver
  TaskIsTaken
CHECK_DEADLOCK FALSE
