\* Two reactors and nothing that fails: SIGTERM arrives while the server runs.
SPECIFICATION FairSpec
CONSTANTS
  Reactors = {1, 2}
  MaxConnections = 1
  MaxTriggers = 1
  MaxFaults = 0
PROPERTY SignalEndsRun
CHECK_DEADLOCK FALSE
