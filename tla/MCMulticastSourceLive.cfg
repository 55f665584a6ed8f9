SPECIFICATION FairSpec
CONSTANTS
  MaxKeys = 2
  MaxTracked = 1
  MaxLength = 2
  BacklogTTL = 1
  SourceTTL = 1
  TornReads = TRUE
PROPERTIES
  KeyRecovered
  BacklogDrains
  DestructorEnds
