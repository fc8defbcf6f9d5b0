SPECIFICATION KernelLiveSpec
CONSTANTS
  Capacity = 1
  Clients = {c1}
  Publishers = {p1}
  Fds = {1}
  Replayed = 1
  MaxEvents = 2
CHECK_DEADLOCK FALSE
PROPERTY ShutdownCompletes
