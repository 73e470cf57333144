SPECIFICATION Spec
CONSTANTS
  c1 = c1
  c2 = c2
  c3 = c3
  Calls = {c1, c2, c3}
  MaxConcurrent = 1
  MaxDaily = 2
  Parallel = 2
  Watched = {c1}
  Recorded = {c2}
  Handed = {c1}
  MaxFaults = 1
CHECK_DEADLOCK FALSE
INVARIANTS
  OvershootBounded
  ClosedClean
PROPERTIES
  CallsEnd
