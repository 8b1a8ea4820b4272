CONSTANTS
  r1 = r1
  r2 = r2
  Recipients <- MCRecipients
  Publisher = publisher
  Deleter = deleter
  Workloads <- MCWorkloads
  AdderSize = 1
  BatchSize = 2
  Lowered <- MCLowered
  Cut <- MCCut
  Wild <- MCWild
  Invalid <- MCInvalid
  Rex <- MCRex
  Configured <- MCConfigured
  MaxRows = 50
  Wall <- MCWall
  PageSize = 2
  PipeBufferSize = 1
SPECIFICATION FairSpec
INVARIANTS NothingMissed Aligned AckedIsStored FinishedIsDone StatsMatchResults StopsOnlyOnIllQuery ResultIsMeaning
PROPERTIES StablePages JobEnds WritersEnd
CHECK_DEADLOCK FALSE
