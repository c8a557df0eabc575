SPECIFICATION FairSpec
CONSTANTS
  MaxSends = 4
  Reorders = FALSE
INVARIANTS TypeOK StopSentLast NotLeftMoving
PROPERTIES NothingPublishedLate CameraRests
CHECK_DEADLOCK FALSE
