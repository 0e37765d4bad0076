SPECIFICATION Spec
CONSTANTS
  Requests = {r1, r2}
  MaxRecipients = 2
  WindowSeconds = 2
  Limits = {1, 2}
  MaxSize = 3
  MaxWindow = 2
  MaxFaults = 1
INVARIANTS TypeOK CountersExpire
PROPERTY WithinBudget
SYMMETRY Symmetry
CHECK_DEADLOCK FALSE
