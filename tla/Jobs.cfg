CONSTANTS
  MaxJobs = 1
  Batches = 2
  Handlers = {h1, h2}
  RepoMayFail = TRUE
  MaxCrashes = 2
SPECIFICATION FairSpec
INVARIANTS NotStillRunning
PROPERTIES FrozenWhenFinal AbortTakesEffect
CHECK_DEADLOCK FALSE
