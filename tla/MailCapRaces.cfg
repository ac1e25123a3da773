SPECIFICATION Spec
CONSTANTS
  Delivery = {d1, d2}
  Request = {r1, r2}
  Cap = 2
  LastDay = 2
  MaxAttempts = 3
  None = None
SYMMETRY Symmetry
INVARIANTS CapHeldUnlessUndone
PROPERTIES RefusedOnlyWhenSpent ImplementsQuota
CHECK_DEADLOCK FALSE
