CONSTANTS
  Searches = {s1}
  Task = task
  PageSize = 1
  Stamps <- SomeStamps
  HostZones = {1}
  MaxId = 3
  QueriesMayFail = TRUE
SPECIFICATION FairSpec
INVARIANTS PagesDescend OnlyTiesMissed
PROPERTIES OnlyOldDeleted OldEventsGo
