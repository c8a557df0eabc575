SPECIFICATION FileFairSpec
CONSTANTS
  Start = 3
  End = 11
  ChunkSize = 2
  Window = 3
  SinkMayBeGone = TRUE
  Names = {"a", "b"}
  Bases <- MCBases
  Requests <- MCRequests
INVARIANTS TypeOK InOrder WindowAccounted NeverIdle StaysInside EntriesLeadBack AnswersExactly DeliversWhatWasAsked
PROPERTIES QuietOnceSettled ImplementsOrderedStream StreamSettles
CHECK_DEADLOCK FALSE
