SPECIFICATION PipelineSpec
CONSTANTS
  Slots = {q1, q2}
  q1 = q1
  q2 = q2
  NoSlot = NoSlot
  NoClient = NoClient
  Clients = {c1}
  c1 = c1
  windowMs = 2
  max = 1
  routeMax = 1
  RouterOptions <- TwoRouters
  MaxClock = 3
  MaxHits = 2
INVARIANTS
  PipelineTypeOK
  OneAnswer
  OneRequestId
  OnlyValidExecuted
  ApiGuardsRoute
  EachLimiterKeepsItsPromise
PROPERTIES
  LimitersRefined
  EveryReadRequestAnswered
