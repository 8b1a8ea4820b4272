CONSTANTS
  Static <- MCStatic
  Flags <- MCFlags
  Posts <- MCPosts
  MaxRestarts = 1
  MaxFaults = 1
SPECIFICATION FairSpec
INVARIANTS TypeOK SavedIsRead SettingsReachRepository WatchersFollowConfig SendIsReceived StopsHaveCause
PROPERTIES ChangesArrive
CHECK_DEADLOCK FALSE
