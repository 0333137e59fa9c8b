SPECIFICATION FairSpec
CONSTANTS
  Junk = Junk
  kCheapPrepend = 1
  ExtraData = 5
  ChunkSize = 1
  Kinds = {"GET", "FILE", "EMPTY", "POST"}
  MaxRequests = 2
  FileSize = 2
INVARIANTS
  HandledAsSent
  RepliesInOrder
  WriteEventsMatchWork
PROPERTIES
  AllAnswered
CHECK_DEADLOCK FALSE
