SPECIFICATION FairSpec
CONSTANTS
  p1 = p1
  c1 = c1
  c2 = c2
  Envelope = {1, 2}
  Publisher = {p1}
  Emits <- TwoEmits
  Sweeper = {s1}
  Consumer = {c1}
  Oversized = {2}
  Unhandled = {1}
  MaxAttempts = 2
  BatchSize = 1
  MaxRetries = 1
  MaxFaults = 1
  None = None
INVARIANT NoReactionLost
PROPERTIES FlushingEnds EveryReactionSettles
CHECK_DEADLOCK FALSE
