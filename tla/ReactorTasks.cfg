\* Two threads schedule and one stops the reactor, fairly.
SPECIFICATION FairSpec
CONSTANTS
  Schedulers = {s1, s2}
  Reactor    = r
  Stoppers   = {k1}
  StopsEarly = FALSE
  Capacity   = 2
  MaxCalls   = 2
INVARIANTS TypeOK NoLostWakeup WakeupProtocol
PROPERTIES TasksRunOrStrand RunReturns
CHECK_DEADLOCK FALSE
