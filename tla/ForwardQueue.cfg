CONSTANTS
  MaxEvents = 5
  ChunkSize = 2
  MaxBufferedEvents = 3
  ConfigChanges = FALSE
  TrueBatch = TRUE
SPECIFICATION Spec
INVARIANTS QueueBounded

