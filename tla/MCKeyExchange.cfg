SPECIFICATION Spec
CONSTANTS
  Ports = {p1, p2}
  MaxRequests = 2
  MaxPairs = 3
  MaxKeys = 2
  Expiry = 1
CHECK_DEADLOCK FALSE
INVARIANTS
  TypeOK
  FreshKey
