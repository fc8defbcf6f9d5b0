SPECIFICATION LiveSpec
CONSTANTS
  Jobs = {j1}
  NaN = NaN
  Limits <- MCLimits
  Policy <- MCPolicy
  Loads <- CalmOnly
  MaxConcurrent = 1
  MaxStarts = 1
  MaxScans = 1
  Chunk = 0
  MaxKids = 0
  MaxTime = 1
  ChildMayLag = FALSE
  MaxRunningJobs = 1
  MaxQueueDepth = 5
  MaxRuntime = 0
  MaxLog = 0
  MaxChildren = 1
PROPERTY EndedReaped
