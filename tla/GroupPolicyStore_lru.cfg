SPECIFICATION Spec
CONSTANTS
  Names <- MCNames
  Cut <- MCCut
  Limits <- MCLimits
  Pids = {0, 2}
  kMaxGroups = 2
  kMaxPidGroupMap = 2
  MaxTime = 2
  MaxEvictions = 1
INVARIANTS TypeOK CountsAgree
PROPERTIES ImplementsLru
