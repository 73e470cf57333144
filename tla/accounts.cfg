SPECIFICATION Spec
CONSTANTS
  s1 = s1
  s2 = s2
  m1 = m1
  m2 = m2
  m3 = m3
  Staff = {s1, s2}
  Members = {m1, m2, m3}
  Operator = operator
  MailOf <- Addresses
  First = {s1, m1}
  MaxClock = 2
  MaxRequests = 3
CHECK_DEADLOCK FALSE
INVARIANTS
  AccountsSound
PROPERTIES
  RevokedStaysOut
  LockoutNeedsStaleAuthor
