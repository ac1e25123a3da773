SPECIFICATION Spec
CONSTANTS
  p1 = p1
  c1 = c1
  c2 = c2
  Envelope = {1}
  Publisher = {p1}
  Emits <- OneEmits
  Sweeper = {s1, s2}
  Consumer = {c1, c2}
  Oversized = {}
  Unhandled = {}
  MaxAttempts = 2
  BatchSize = 1
  MaxRetries = 1
  MaxFaults = 2
  None = None
SYMMETRY Symmetry
INVARIANTS AttemptsBounded NoReactionLost RepeatsOnlyAfterRollback
PROPERTY ImplementsReactions
CHECK_DEADLOCK FALSE
