SPECIFICATION Spec
CONSTANTS
  Users = {u1}
  Devices = {d1, d2}
  Requests = {r1, r2}
  Passwords = {p1, p2}
  NoPassword = NoPassword
  None = None
  MaxAttempts = 1
  LockFor = 1
  MaxNow = 1
SYMMETRY Symmetry
INVARIANTS
  OldSessionsEnd
PROPERTIES
  RevokedIsFinal
  
CHECK_DEADLOCK FALSE
