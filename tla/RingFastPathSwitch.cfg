\* Two producers on a queue with the default fast path.
SPECIFICATION Spec
CONSTANTS
  Producers = {p1, p2}
  Consumers = {c1}
  Blocking  = {}
  Capacity  = 2
  FastPath  = TRUE
  MaxPushes = 2
  None      = None
INVARIANT NothingLost
