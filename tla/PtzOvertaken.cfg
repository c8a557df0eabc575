SPECIFICATION Spec
CONSTANTS
  MaxSends = 4
  Reorders = TRUE
INVARIANTS NotLeftMoving
CHECK_DEADLOCK FALSE
