SPECIFICATION LiveSpec
CONSTANTS
  NaN = NaN
  MaxFileSize = 1
  MaxFiles = 3
  MaxSamples = 7
  Clients = {c1, c2}
  Updates <- MCUpdates
  Measurements <- MCMeasurements
INVARIANTS TypeOK PolicyProtects FilesBounded
PROPERTIES UpdateAtomic OnlySilenceBlocks RotationKeeps
