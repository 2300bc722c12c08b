\* Requests in whole segments, pipelined; responses that are longer than the
\* send buffer.
SPECIFICATION FairSpec
CONSTANTS
  COMPACT_THRESHOLD = 20
  MAX_HEADER_SIZE   = 20
  Scripts      <- Pipelines
  Splits       = FALSE
  ResponseSize = 2
  ReadSize     = 20
  SendBuffer   = 1
INVARIANTS AnsweredAsSent BuffersRight WaitsForTheRightThing
PROPERTIES EveryRequestAnswered
CHECK_DEADLOCK FALSE
