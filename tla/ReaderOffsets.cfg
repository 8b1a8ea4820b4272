CONSTANTS
  ReadSize = 2
  MaxBytes = 3
  MaxFiles = 1
  MaxRestarts = 0
SPECIFICATION Spec
INVARIANTS OffsetIsPosition
CHECK_DEADLOCK FALSE
