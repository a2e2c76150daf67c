SPECIFICATION Spec
CONSTANTS
  Requests = {r1, r2, r3}
  AnnCapital = AnnCapital
  ann = ann
  ben = ben
  obrien = obrien
  NoAddress = NoAddress
  Addresses <- MCAddresses
  Lower <- MCLower
  DbFormatted <- MCDbFormatted
  MaxFaults = 0
CHECK_DEADLOCK FALSE
INVARIANT LosersAreToldConflict
