SPECIFICATION Spec
CONSTANTS
  Nodes = {n1, n2, n3}
  Top = Top
  None = None
  Requests = {r1, r2}
  Sizes = {1}
  Quota = 2
  Backend = "r2"
  StorageFails = TRUE
  VersionLimit = 1
  MaxFiles = 1
  MaxFolders = 2
  MaxBegun = 4
  MaxUploads = 3
INVARIANT
  VersionKeepsContent
CHECK_DEADLOCK FALSE
