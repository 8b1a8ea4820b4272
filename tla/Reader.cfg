CONSTANTS
  ReadSize = 2
  MaxBytes = 3
  MaxFiles = 2
  MaxRestarts = 1
SPECIFICATION FairSpec
INVARIANTS WholeLines OffsetsAscend
PROPERTIES LinesPublished FollowsRotation
CHECK_DEADLOCK FALSE
