SPECIFICATION Spec
CONSTANTS
  n1 = n1
  Numbers = {n1}
  MaxJobs = 2
  MaxEvents = 2
CHECK_DEADLOCK FALSE
INVARIANTS
  RowsSound
PROPERTIES
  EventuallyHonest
  OrphansReported
  ChangeReachesLiveKit
