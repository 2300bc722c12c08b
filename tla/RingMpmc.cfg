\* Two producers and a consumer on the MPMC path, fairly scheduled.
SPECIFICATION FairSpec
CONSTANTS
  Producers = {p1, p2}
  Consumers = {c1}
  Blocking  = {}
  Capacity  = 2
  FastPath  = FALSE
  MaxPushes = 2
  None      = None
INVARIANTS SlotProtocol TypeOK SlotExclusion SlotLifetime
PROPERTIES ImplementsFifo EverythingDelivered
