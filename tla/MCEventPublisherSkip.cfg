SPECIFICATION Spec
CONSTANTS
  created = created
  roleChanged = roleChanged
  e1 = e1
  e2 = e2
  e3 = e3
  Handlers = {h1, h2, h3}
  Events = {e1, e2, e3}
  Types <- TwoTypes
  TypeOf <- TwoTypesOf
  Batches <- BatchOfTwo
  MaxHistorySize = 2
  MaxChanges = 5
CHECK_DEADLOCK FALSE
INVARIANT AllHandlersExecuted
