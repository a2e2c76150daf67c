CONSTANTS
  Clients = {c1}
  c1 = c1
  windowMs = 2
  max = 2
  MaxClock = 4
  MaxHits = 3
SPECIFICATION DynamicSpec
INVARIANT DynamicLimitHolds
