SPECIFICATION Spec
CONSTANTS
  None = None
  h1 = h1
  h2 = h2
  daytime = daytime
  night = night
  q1 = q1
  q2 = q2
  DaySlots = 2
  Offset <- Ahead
  Rules = {1, 2}
  Hours = {h1, h2}
  Agents = {daytime, night}
  RuleForms <- Submitted
  Patches <- Fields
  Weeks <- Plans
  Zones = {None, "Asia/Dhaka"}
  Holidays <- OneHoliday
  Requests = {q1, q2}
  Calls = {c1}
  Standing <- Tenants
  Moments = {0, 1}
  MaxEdits = 2
CHECK_DEADLOCK FALSE
SYMMETRY Interchangeable
INVARIANTS
  RowsSound
  NeverOutOfHours
  BestRule
PROPERTIES
  DetachedOnlyInRace
