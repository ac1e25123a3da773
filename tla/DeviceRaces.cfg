SPECIFICATION Spec
CONSTANTS
  Grant = {g1, g2}
  User = {u1, u2}
  Caller = {c1, c2, c3}
  Token = {t1, t2, t3}
  NoRow = NoRow
  None = None
SYMMETRY Symmetry
INVARIANTS OneTokenPerGrant TokenForApprover
PROPERTIES ConsumedStaysConsumed ImplementsGrants
CHECK_DEADLOCK FALSE
