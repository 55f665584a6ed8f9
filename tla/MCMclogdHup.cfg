SPECIFICATION Spec
CONSTANTS
  NoConfig = NoConfig
  Configs <- MCConfigs
CHECK_DEADLOCK FALSE
PROPERTY
  HupReloads
