SPECIFICATION FairSpec
CONSTANTS
  Requests = {r1, r2, r3}
  AnnCapital = AnnCapital
  ann = ann
  ben = ben
  obrien = obrien
  NoAddress = NoAddress
  Addresses <- MCAddresses
  Lower <- MCLower
  DbFormatted <- MCDbFormatted
  MaxFaults = 2
CHECK_DEADLOCK FALSE
INVARIANTS
  TypeOK
  UniqueEmail
  ConflictJustified
  CreatedIsComplete
  OneWinner
PROPERTIES
  NothingIsTakenBack
  ImplementsRegistry
  EveryRequestCompletes
