SPECIFICATION LiveSpec
CONSTANTS
  Jobs = {j1, j2}
  NaN = NaN
  Limits <- MCLimits
  Policy <- MCPolicy
  Loads <- CalmOrBusy
  MaxConcurrent = 2
  MaxStarts = 1
  MaxScans = 1
  Chunk <- NoOutput
  MaxKids = 0
  MaxTime = 2
  ChildMayLag = TRUE
  MaxRunningJobs = 2
  MaxQueueDepth = 5
  MaxRuntime = 0
  MaxLog = 0
  MaxChildren = 1
CHECK_DEADLOCK FALSE
PROPERTIES OverdueEnds ExitNoticed QueuedStarts
