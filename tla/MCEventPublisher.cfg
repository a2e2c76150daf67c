SPECIFICATION FairSpec
CONSTANTS
  created = created
  roleChanged = roleChanged
  e1 = e1
  e2 = e2
  e3 = e3
  Handlers = {h1, h2}
  Events = {e1, e2, e3}
  Types <- TwoTypes
  TypeOf <- TwoTypesOf
  Batches <- BatchOfTwo
  MaxHistorySize = 2
  MaxChanges = 3
CHECK_DEADLOCK FALSE
INVARIANTS
  TypeOK
  UndisturbedLoopIsExact
  ResolvedMeansSettled
  HistoryIsRecent
PROPERTY EveryPublicationResolves
