\* A timer, a connection and a graceful_stop(), all from other threads, fairly.
SPECIFICATION FairSpec
CONSTANTS
  Timers      = {t1}
  Delays      = {1, 2}
  Stops       = {g1}
  StopTimeout = 2
  Own         = {}
  Fds         = {f1}
  IdleTimeout = 2
  CacheMs     = 2
  MaxTime     = 5
INVARIANT TimeoutsRight
PROPERTIES ShutdownEnds EveryTimerFires
CHECK_DEADLOCK FALSE
