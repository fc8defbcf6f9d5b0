SPECIFICATION Spec
CONSTANTS
  Capacity = 2
  Clients = {c1, c2}
  Publishers = {p1, p2}
  Fds = {1, 2}
  Replayed = 2
  MaxEvents = 3
SYMMETRY Symmetry
CHECK_DEADLOCK FALSE
INVARIANTS TypeOK RingHoldsLatest SubscribersLive NoEventMissed
