SPECIFICATION KernelLiveSpec
CONSTANTS
  Capacity = 1
  Clients = {c1, c2}
  Publishers = {}
  Fds = {1}
  Replayed = 1
  MaxEvents = 0
CHECK_DEADLOCK FALSE
PROPERTY PingAnswered
