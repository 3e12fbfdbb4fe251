SPECIFICATION ServerSpec
CONSTANTS
  Nodes = {n1, n2, n3}
  Top = Top
  None = None
  Requests = {r1, r2}
  Sizes = {1}
  Quota = 2
  Backend = "local"
  StorageFails = TRUE
  VersionLimit = 1
  MaxFiles = 1
  MaxFolders = 2
  MaxBegun = 4
  MaxUploads = 3
  Paid = {pro, business}
  Webhooks = {w1}
  MaxEvents = 5
  Codes = {c1}
  MaxAttempts = 2
  MaxFails = 3
SYMMETRY Symmetry
INVARIANTS
  VersionKeepsContent
  
  NeverOvercharged
  LinkWithinLimit
  
  
  CodeUsedOnce
  GuessesBounded
CHECK_DEADLOCK FALSE
