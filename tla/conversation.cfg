SPECIFICATION Spec
CONSTANTS
  t1 = t1
  t2 = t2
  a1 = a1
  Uses = {t1, t2, a1}
  Ticketing = {t1, t2}
  Rival = rival
  Desk = desk
  Trigger = 2
  Keep = 1
  Limit = 1
  Retries = 1
  MaxTurns = 3
  MaxTicket = 2
  MaxDeletes = 1
CHECK_DEADLOCK FALSE
INVARIANTS
  RecordsSound
  FillerYields
  LimitHolds
PROPERTIES
  RefusedForACause
