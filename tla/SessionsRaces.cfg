SPECIFICATION FairSpec
CONSTANTS
  Session = {s1}
  Token = {t1}
  Request = {r1, r2}
  Ttl = 2
  AbsoluteTtl = 4
  TokenTtl = 3
  Threshold = 1
  Grace = 1
  LastStart = 0
  MaxTime = 5
  Never = Never
  NoRow = NoRow
  None = None
INVARIANTS NoneOutlivesCap InUseStaysSignedIn
PROPERTIES ImplementsCredentials LogoutIsFinal EventuallyEvicted
CHECK_DEADLOCK FALSE
