SPECIFICATION Spec
CONSTANTS
  MaxKeys = 2
  MaxTracked = 2
  MaxLength = 2
  BacklogTTL = 1
  SourceTTL = 1
  TornReads = TRUE
INVARIANTS
  TypeOK
  InOrderUnlessRequeried
  OnlyFrontSpoiled
  NoOrphanQuery
PROPERTIES
  ClearLeavesNoOldEntry
  AtMostOnce
