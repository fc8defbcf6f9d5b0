SPECIFICATION Spec
CONSTANTS
  NaN = NaN
  Fine = Fine
  Policies <- MCPolicies
  Hand <- MCHand
  OtherKeys = {"colour"}
  Decimals <- MCDecimals
  Nearest <- MCNearest
  IntMax = 100000
  U64 = 1000000
  Absent = Absent
  NoValue = NoValue
  Throws = Throws
  Unknown = Unknown
  MaxSaves = 2
INVARIANT LoadsValid
