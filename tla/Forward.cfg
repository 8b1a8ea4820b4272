CONSTANTS
  MaxEvents = 3
  ChunkSize = 2
  MaxBufferedEvents = 2
  ConfigChanges = TRUE
  TrueBatch = TRUE
SPECIFICATION FairSpec
INVARIANTS NothingLost BufferIsNewest
PROPERTIES Delivered
