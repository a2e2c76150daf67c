SPECIFICATION Spec
CONSTANTS
  Users = {u1, u2}
  u1 = u1
  u2 = u2
  Callers = {c1, c2}
  c1 = c1
  c2 = c2
  Bodies <- SomeBodies
  Names <- SomeNames
  Hashes = {h1}
  None = None
  MaxEvents = 2
  MaxFaults = 1
SYMMETRY Symmetry
CHECK_DEADLOCK FALSE
INVARIANTS
  TypeOK
  EveryRowLoads
  AdminsWereCreated
PROPERTIES
  DeletedStaysDeleted
  ImplementsRegister
