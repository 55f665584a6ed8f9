SPECIFICATION FairSpec
CONSTANTS
  NoConfig = NoConfig
  Configs <- MCConfigs
CHECK_DEADLOCK FALSE
INVARIANTS
  NoJoinableLost
  ReloadApplied
  SocketsOwned
  SignalsBlockedAfterReload
PROPERTIES
  TaskEnds
  LatestConfigLoaded
