\* An upload whose requests never overlap: replies get lost, storage refuses.
\* Two links of a file, closed while they are used.
SPECIFICATION LivenessSpec
CONSTANTS
  TotalChunks = 3
  Nodes = {n1, n2, n3, n4}
  NoNode = NoNode
  Requests = {r1, r2}
  NoRequest = NoRequest
  MaxTasks = 1
  MaxAttempts = 3
  Faults <- NetworkFaults
  Shares = {s1, s2}
  NoShare = NoShare
  Visits = {v1}
  Owners = {o1}
  Limits = {0}
  Terms = {}
  MaxServed = 1
  NoEntry = NoEntry
  LinkFaults = {"redis", "abort"}
INVARIANTS
  DoneIsReadable
  OneOpenLink
PROPERTIES
  TaskEnds
  ImplementsAtomicUpload
  ClosingTakesEffect
CHECK_DEADLOCK FALSE
