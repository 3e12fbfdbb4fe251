\* One file that is paused and resumed while its key is being generated.
CONSTANTS
  Tasks = {t1}
  Loops = {l1, l2}
  None = None
  TotalChunks = 2
  MaxConcurrent = 3
  MaxRetries = 2
SPECIFICATION Spec
INVARIANT
  OneKeyPerFile
CHECK_DEADLOCK FALSE
