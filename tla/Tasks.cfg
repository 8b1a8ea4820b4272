CONSTANTS
  Tasks = {t1, t2}
  MaxChanges = 2
  GetMayFail = TRUE
SPECIFICATION FairSpec
INVARIANTS OneGoroutine FollowsConfig WaitIsAnswered
PROPERTIES AppliesChanges
CHECK_DEADLOCK FALSE
