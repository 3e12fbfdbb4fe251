\* Everything may fail, and timed-out handlers overlap with their retries.
CONSTANTS
  TotalChunks = 2
  Nodes = {n1, n2}
  NoNode = NoNode
  Requests = {r1, r2}
  NoRequest = NoRequest
  MaxTasks = 1
  MaxAttempts = 3
  Faults <- AllFaults
SPECIFICATION Spec
SYMMETRY Symmetry
INVARIANTS
  TypeOK
  AssembledIsComplete
  AckedIsStored
  RowsHaveObjects
CHECK_DEADLOCK FALSE
