SPECIFICATION LiveSpec
CONSTANTS
  NaN = NaN
  MaxFileSize = 1
  MaxFiles = 3
  MaxSamples = 0
  Clients = {c1, c2}
  Updates <- MCUpdates
  Measurements <- MCMeasurements
PROPERTY ClientServed
