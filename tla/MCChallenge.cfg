CONSTANTS
  q1 = q1
  q2 = q2
  alias1 = alias1
  alias2 = alias2
  wrong = wrong
  Question <- MCQuestion
  Request = {r1, r2}
  Answer <- MCAnswer
  Accepted <- MCAccepted
  Manifests <- MCManifests
  Null = Null
  Cooldown = 1
  MaxCooldown = 3
  FreeAttempts = 1
  MaxTime = 3

SPECIFICATION Spec

SYMMETRY Symmetry

INVARIANT TypeOK
INVARIANT ProgressAvailable
PROPERTY CooldownHolds
PROPERTY SolvedStays
PROPERTY FlagEarned
PROPERTY OneAtATime
