\* A request that arrives in two segments.
SPECIFICATION Spec
CONSTANTS
  COMPACT_THRESHOLD = 20
  MAX_HEADER_SIZE   = 20
  Scripts      <- Posts
  Splits       = TRUE
  ResponseSize = 1
  ReadSize     = 20
  SendBuffer   = 1
INVARIANT AnsweredAsSent
CHECK_DEADLOCK FALSE
