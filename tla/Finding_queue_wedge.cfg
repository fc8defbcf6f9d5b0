SPECIFICATION LiveSpec
CONSTANTS
  Jobs = {j1, j2, j3}
  NaN = NaN
  Limits <- MCLimits
  Policy <- MCPolicy
  Loads <- CalmOnly
  MaxConcurrent = 2
  MaxStarts = 2
  MaxScans = 2
  Chunk <- NoOutput
  MaxKids = 0
  MaxTime = 0
  ChildMayLag = FALSE
  MaxRunningJobs = 5
  MaxQueueDepth = 2
  MaxRuntime = 0
  MaxLog = 0
  MaxChildren = 1
PROPERTIES QueuedStarts
