SPECIFICATION Spec
CONSTANTS
  Jobs = {j1, j2}
  NaN = NaN
  Limits <- MCLimits
  Policy <- MCPolicy
  Loads <- CalmOnly
  MaxConcurrent = 4
  MaxStarts = 2
  MaxScans = 2
  Chunk <- NoOutput
  MaxKids = 0
  MaxTime = 0
  ChildMayLag = FALSE
  MaxRunningJobs = 1
  MaxQueueDepth = 5
  MaxRuntime = 0
  MaxLog = 0
  MaxChildren = 1
INVARIANT RunningLimit
