\* Three reactors, two shutdowns, and two calls of the system that fail.
SPECIFICATION FairSpec
CONSTANTS
  Reactors = {1, 2, 3}
  MaxConnections = 1
  MaxTriggers = 2
  MaxFaults = 2
INVARIANTS LifecycleSafe AllOrNothing
PROPERTIES TriggerEndsRun FailedStartEnds
CHECK_DEADLOCK FALSE
