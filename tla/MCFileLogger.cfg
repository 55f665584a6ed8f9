SPECIFICATION FairSpec
CONSTANTS
  MaxLength = 3
  MaxMsgs = 14
  MaxStarts = 3
CHECK_DEADLOCK FALSE
INVARIANTS
  NoWriterWhenStopped
PROPERTIES
  InOrderNoLoss
  StopReturns
  AcceptedWritten
