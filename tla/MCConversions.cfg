SPECIFICATION ConversionsSpec
CONSTANTS
  FirstDay <- MCFirstDay
  DstStart <- MCDstStart
  DstEnd <- MCDstEnd
  Step = 10061
  MinTime <- MCMinTime
  MaxTime <- MCMaxTime
  Zone <- MCZone
  MaxText = 12
  MaxName = 3
  Room = 17
  MaxMessages = 4
  Logged <- MCLogged
  Commands <- MCCommands
CHECK_DEADLOCK FALSE
INVARIANTS
  SpansNow
  SameInterval
  ShownAsLogged
PROPERTY
  DeliveredAsAdded
