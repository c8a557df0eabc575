SPECIFICATION FairSpec
CONSTANTS
  Start = 3
  End = 11
  ChunkSize = 2
  Window = 3
  SinkMayBeGone = TRUE
PROPERTIES SettlesOnceSinkIsClosed
CHECK_DEADLOCK FALSE
