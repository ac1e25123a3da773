SPECIFICATION Spec
CONSTANTS
  Org = {o1}
  Sub = {s1, s2}
  Live = {active, pastDue}
  Period = {june, july}
  Caller = {c1, c2}
  Worker = {w1, w2}
  MaxVersion = 2
  NoRow = NoRow
  None = None
SYMMETRY Symmetry
PROPERTY CreatedBringsInSync
CHECK_DEADLOCK FALSE
