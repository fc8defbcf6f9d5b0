SPECIFICATION Spec
CONSTANTS
  Half32 = 1024
  Half64 = 4096
  Pids = {1}
  Payloads <- MCPayloads
  kQueueCapacity = 2
  kMaxRules = 1
  OwnLimits <- MCOwnLimits
  OldLimits <- MCOldLimits
  MaxMessages = 3
  MaxLives = 2
INVARIANT NiceInRange
CHECK_DEADLOCK FALSE
