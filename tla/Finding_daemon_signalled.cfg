SPECIFICATION Spec
CONSTANTS
  Jobs = {j1}
  NaN = NaN
  Limits <- MCLimits
  Policy <- MCPolicy
  Loads <- CalmOnly
  MaxConcurrent = 2
  MaxStarts = 2
  MaxScans = 2
  Chunk <- NoOutput
  MaxKids = 0
  MaxTime = 1
  ChildMayLag = TRUE
  MaxRunningJobs = 5
  MaxQueueDepth = 5
  MaxRuntime = 0
  MaxLog = 0
  MaxChildren = 1
CHECK_DEADLOCK FALSE
INVARIANT OnlyManagedSignalled
