SPECIFICATION LiveSpec
CONSTANTS
  Jobs = {j1}
  NaN = NaN
  Limits <- MCLimits
  Policy <- MCPolicy
  Loads <- CalmOnly
  MaxConcurrent = 1
  MaxStarts = 1
  MaxScans = 1
  Chunk = 0
  MaxKids = 0
  MaxTime = 1
  ChildMayLag = TRUE
  MaxRunningJobs = 1
  MaxQueueDepth = 5
  MaxRuntime = 5
  MaxLog = 0
  MaxChildren = 1
CHECK_DEADLOCK FALSE
PROPERTY ScanReaps
