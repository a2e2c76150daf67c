SPECIFICATION Spec
CONSTANTS
  Keys = {k1, k2}
  windowMs = 2
  maxRequests = 2
  MaxClock = 5
INVARIANTS
  TypeOK
  AtMostMaxPerWindow
  StoreIsBounded
  StoreAgreesWithLog
PROPERTY ImplementsRequestLog
