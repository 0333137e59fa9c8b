SPECIFICATION Spec
CONSTANTS
  Junk = Junk
  kCheapPrepend = 1
  ExtraData = 5
  ChunkSize = 1
  Kinds = {"POST"}
  MaxRequests = 1
  FileSize = 2
INVARIANTS
  HandledHoweverSplit
CHECK_DEADLOCK FALSE
