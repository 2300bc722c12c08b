\* Two threads schedule a task each at the same time, and nobody stops the
\* reactor: one of the tasks may never be run.
SPECIFICATION FairSpec
CONSTANTS
  Schedulers = {s1, s2}
  Reactor    = r
  Stoppers   = {}
  StopsEarly = FALSE
  Capacity   = 2
  MaxCalls   = 1
PROPERTY EveryTaskRuns
CHECK_DEADLOCK FALSE
