SPECIFICATION Spec
CONSTANTS
  Shares = {s1}
  NoShare = NoShare
  Visits = {v1, v2}
  Owners = {o1}
  Limits = {1}
  Terms = {"password", "expiry"}
  MaxServed = 2
  NoEntry = NoEntry
  Faults = {"redis", "abort"}
SYMMETRY Symmetry
INVARIANTS
  TypeOK
  OpenWithinLimit
  ClosedLockedIsRefused
  EndedIsRefused
CHECK_DEADLOCK FALSE
