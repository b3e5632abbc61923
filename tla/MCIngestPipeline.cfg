CONSTANTS
  Worker = {w1, w2}
  BatchSize = 2
  Inputs <- MCInputs

SPECIFICATION FairSpec

INVARIANT TypeOK
INVARIANT LikeSequential
INVARIANT DiscoveryAlone
INVARIANT BoundedLead
PROPERTY AlwaysReturns
