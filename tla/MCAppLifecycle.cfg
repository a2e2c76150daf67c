SPECIFICATION Spec
CONSTANTS
  Environments <- NearAccepted
  Connections = {k1, k2, k3}
  k1 = k1
  k2 = k2
  k3 = k3
  MaxSignals = 3
CHECK_DEADLOCK FALSE
INVARIANTS
  TypeOK
  ServedByReadyProcess
  ExitsAreClean
PROPERTY
  SignalEndsProcess
