\* push_wait and pop_wait, one thread each: on the MPMC path at first, then on
\* the SPSC fast path.  Both fall asleep in the end, so the system does stop.
SPECIFICATION Spec
CONSTANTS
  Producers = {p1}
  Consumers = {c1}
  Blocking  = {p1, c1}
  Capacity  = 2
  FastPath  = TRUE
  MaxPushes = 5
  None      = None
INVARIANT NoMissedAdvance
PROPERTY ImplementsFifo
CHECK_DEADLOCK FALSE
