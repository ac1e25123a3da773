SPECIFICATION Spec
CONSTANTS
  Org = {o1, o2}
  Sub = {s1, s2}
  Live = {active}
  Period = {june, july}
  Caller = {c1, c2}
  Worker = {w1, w2}
  MaxVersion = 2
  NoRow = NoRow
  None = None
SYMMETRY Symmetry
INVARIANTS TypeOK AppliedOnce CanceledMeansCanceled InSyncUnlessReordered
PROPERTY FirstStartWins
CHECK_DEADLOCK FALSE
