SPECIFICATION Spec
CONSTANTS
  Jobs = {j1}
  NaN = NaN
  Limits <- MCLimits
  Policy <- MCPolicy
  Loads <- CalmOnly
  MaxConcurrent = 1
  MaxStarts = 1
  MaxScans = 1
  Chunk = 3
  MaxKids = 2
  MaxTime = 2
  ChildMayLag = TRUE
  MaxRunningJobs = 5
  MaxQueueDepth = 5
  MaxRuntime = 1
  MaxLog = 5
  MaxChildren = 2
CHECK_DEADLOCK FALSE
INVARIANTS LogBounded NoStrangerSignalled ReapedAndReleased
