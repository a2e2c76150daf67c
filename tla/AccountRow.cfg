SPECIFICATION Spec
CONSTANTS
  Tokens = {t1}
  None = None
  MaxFailed = 12
PROPERTY LockedAfterFiveFailures
