SPECIFICATION BrowserSpec
CONSTANTS
  Tasks = {t1}
  Loops = {l1, l2, l3}
  None = None
  TotalChunks = 2
  MaxConcurrent = 2
  MaxRetries = 2
  Calls = {a1, a2, a3, a4}
  Documents = {f1, f2}
  Media = {p1}
  Texts = {x1}
  Empty = Empty
  Loads = {o1, o2}
  Saves = {s1}
  Patient = TRUE
INVARIANTS
  SlotsAccounted
  DoneMeansAllAcked
  LiveTaskHasLoop
  QueueIsServed
  SavedWhereTyped
  UrlsAreRevoked
PROPERTIES
  PendingStarts
  HaltedFreesSlots
  CallsSettle
CHECK_DEADLOCK FALSE
