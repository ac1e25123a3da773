SPECIFICATION Spec
CONSTANTS
  Org = {o1}
  User = {u1, u2}
  Root = {u1}
  Caller = {c1, c2}
  Platform = Platform
  NoRow = NoRow
  None = None
SYMMETRY Symmetry
INVARIANTS NeverWithoutWallet RolesReferToUsers NobodyPromotedThemselves
PROPERTIES RoleChangesUnlessOvertaken LifeAlternatesUnlessOvertaken
CHECK_DEADLOCK FALSE
