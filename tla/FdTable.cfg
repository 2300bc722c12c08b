\* Two connections with a timeout, a served one, and a file of another thread.
SPECIFICATION FairSpec
CONSTANTS
  Numbers         = {5, 6, 7}
  Served          = {s1}
  Timed           = {t1, t2}
  Elsewhere       = {e1}
  Interval        = 1
  NsPerMs         = 1000000
  InlineThreshold = 1
  MaxBatch        = 1
  DeferredCap     = 1
  MaxEvents       = 2
  None            = None
  Listener        = Listener
CHECK_DEADLOCK FALSE
INVARIANTS TableRight DeferredIsHeld OwnEvents
PROPERTY NoneStaysIdle
