\* One part after another, each with the bounds given here; the inputs of
\* the parts that are no containers are in PartsInputs.  The wheel has two
\* timers and three slots: a timeout within the first revolution, one of exactly
\* a revolution, and one in the second.
CONSTANTS
  Producers = {"p1", "p2"}
  Consumer = "c"
  MpscSizes = {0, 1, 2}
  SizeRange = 8
  MaxPushes = 2
  MaxNodes = 4
  InitialCapacity = 2
  CompactThreshold = 2
  IoLengths = {1, 2, 3, 5}
  IoMaxBytes = 9
  RingCapacities = {0, 3, 8}
  RingLengths = {1, 2, 3}
  RingMaxBytes = 9
  Arenas = {"a1", "a2"}
  Blocks = {1, 2, 3}
  BlockSize = 5
  MaxBlocks = 2
  MaxAlignment = 4
  ArenaSizes = {1, 4}
  ArenaAlignments = {1, 4}
  MaxLive = 2
  NotMade = "not made"
  Freed = "freed"
  Maps = {"m1", "m2"}
  KnownFields = {1, 2}
  UnknownNames = {3, 4}
  FieldValues = {"v"}
  NoValue = "null"
  RouterParameters = {"{x}", "{y}"}
  MaxRouteSegments = 2
  RouterTables <- RouteTables
  RequestMethods = {"get", "post", "put"}
  RequestUris <- RouterUris
  SchemaCount <- GraphSize
  DtoDocuments <- SchemaGraphs
  NameDocuments <- UnnamedSchemas
  MaxNameIndex = 6
  WHEEL_SIZE  = 3
  TICK_MS     = 2
  COMPACT_INTERVAL_TICKS = 2
  Generations = 5
  Timeouts    = {0, 6, 9}
  MaxAdds     = 2
  MaxLag      = 5
SPECIFICATION PartsSpec
INVARIANTS MpscSafe AllocationsSafe ContainersSafe RoutedRight GeneratedRight ApiKeepsItsContract ReadRight
INVARIANTS WheelRight CancelsItsOwn SleepIsBounded
PROPERTIES ContainersImplement KeepsTime
CHECK_DEADLOCK FALSE
