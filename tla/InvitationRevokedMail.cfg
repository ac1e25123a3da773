SPECIFICATION Spec
CONSTANTS
  InvId = {i1, i2}
  Email = {e1}
  User = {u1, u2}
  SuperAdmin = {u2}
  Caller = {c1, c2}
  Token = {t1, t2, t3}
  NoRow = NoRow
  None = None
SYMMETRY Symmetry
PROPERTY NoLetterForRevoked
CHECK_DEADLOCK FALSE
