SPECIFICATION BreakerSpec
CONSTANTS
  q1 = q1
  q2 = q2
  q3 = q3
  Reqs = {q1, q2, q3}
  FailureThreshold = 3
  SuccessThreshold = 2
INVARIANTS
  CountersBelowThreshold
PROPERTIES
  RecoveredProviderIsUsed
  DeadProviderIsCutOff
