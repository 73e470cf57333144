SPECIFICATION Spec
CONSTANTS
  r1 = r1
  r2 = r2
  desk = desk
  queue = queue
  Main = main
  NoDest = NoDest
  NoTask = NoTask
  Reqs = {r1}
  Destinations <- TwoDestinations
  Whispered = {desk}
  FallbackAction = "SECONDARY_AGENT"
  FallbackId = queue
  Disturbances = {"caller_leaves", "agent_dtmf", "agent_leaves", "watchdog", "ringing_leg_leaves"}
  MaxFaults = 1
CHECK_DEADLOCK FALSE
INVARIANTS
  PreparedBridge
PROPERTIES
  KeepsPromise
  EndedCallCloses
  NothingAfterClose
  ConnectedNotHungUp
  RowStatusLegal
