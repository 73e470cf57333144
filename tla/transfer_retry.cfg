SPECIFICATION Spec
CONSTANTS
  r1 = r1
  r2 = r2
  desk = desk
  queue = queue
  Main = main
  NoDest = NoDest
  NoTask = NoTask
  Reqs = {r1}
  Destinations <- TwoDestinations
  Whispered = {desk, queue}
  FallbackAction = "PBX_QUEUE"
  FallbackId = queue
  Disturbances = {"agent_dtmf", "caller_dtmf", "agent_leaves", "tts_fails"}
  MaxFaults = 2
CHECK_DEADLOCK FALSE
INVARIANTS
  RowNeverAheadOfBridge
PROPERTIES
  NotLeftInSilence
