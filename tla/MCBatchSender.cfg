SPECIFICATION FairSpec
CONSTANTS
  Capacity = 2
  MaxSize = 3
  MaxLength = 2
  MaxTracked = 3
PROPERTIES
  SentInOrder
  LostOnlyWhenStopped
  NotHeldForever
  
