SPECIFICATION ObserverSpec
CONSTANTS
  QueueLimit = 3
  BatchSize = 2
  MaxRecords = 6
  MaxFaults = 2
CHECK_DEADLOCK FALSE
INVARIANTS
  TranscriptSound
PROPERTIES
  QueueKeepsMoving
