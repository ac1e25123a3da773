SPECIFICATION Spec
CONSTANTS
  User = {u1, u2, u3}
  Email = {e1, e2}
  Subject = {s1, s2}
  Caller = {c1, c2, c3}
  NoRow = NoRow
  None = None
SYMMETRY Symmetry
INVARIANTS SessionMatchesIdentity LinkNeedsProof NoStrandedAccount
PROPERTIES IdentityIsStable ImplementsAccounts
CHECK_DEADLOCK FALSE
