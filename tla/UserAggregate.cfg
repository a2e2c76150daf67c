CONSTANTS
  Users = {u1, u2}
  u1 = u1
  u2 = u2
  MaxEvents = 4
SPECIFICATION Spec
INVARIANTS TypeOK EventsTellState AdminsAreCreated RulesDifferByEnterprise
PROPERTY HistoryOnlyGrows
CHECK_DEADLOCK FALSE
