CONSTANTS
  Client = {c1, c2}
  Request = {r1, r2, r3}
  Slot = {s1, s2, s3}
  None = None
  MaxRunning = 1
  MaxWaiting = 1

SPECIFICATION FairSpec

INVARIANT TypeOK
INVARIANT OneGeneration
INVARIANT ReleaseNeverBlocks
INVARIANT NoIdleEntries

PROPERTY EveryRequestLeaves
PROPERTY ImplementsAdmissionControl
