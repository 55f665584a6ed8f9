SPECIFICATION Spec
CONSTANTS
  Keep = 2
  RollSize = 2
  MaxSize = 2
  MaxMsgs = 4
  MaxPeriod = 2
  MaxJobs = 2
INVARIANTS
  Chronological
  NumbersBelowKeep
  RetainsKeepSinceDisturbed
  SizeBound
  OnePeriodPerFile
