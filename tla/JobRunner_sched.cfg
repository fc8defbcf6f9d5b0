SPECIFICATION Spec
CONSTANTS
  Jobs = {j1, j2, j3, j4}
  NaN = NaN
  Limits <- MCLimits
  Policy <- MCPolicy
  Loads <- CalmOnly
  MaxConcurrent = 3
  MaxStarts = 2
  MaxScans = 2
  Chunk <- NoOutput
  MaxKids = 0
  MaxTime = 1
  ChildMayLag = FALSE
  MaxRunningJobs = 2
  MaxQueueDepth = 5
  MaxRuntime = 0
  MaxLog = 0
  MaxChildren = 1
SYMMETRY Symmetry
INVARIANTS TypeOK IInv ConcurrencyBound AdmissionOvershoot QueueComplete
PROPERTIES OutcomeFinal ImplementsLifecycle
