CONSTANTS
  Query = {q1, q2}
  Conn = {d1, d2}
  None = None
  MaxDiscoveries = 1
  Client = {c1, c2}
  MaxRunning = 1
  MaxWaiting = 0

SPECIFICATION FairServiceSpec

SYMMETRY ClientsAndConnections

INVARIANT TypeOK
INVARIANT OnlyOwnDeadline
INVARIANT WatchdogOwnsConnection
INVARIANT OneClientLeavesAConnection
INVARIANT ConnectionNeedsSlot
PROPERTY HandlerReturns
