CONSTANTS
  Tab = {t1, t2}
  Hunt = {h1, h2}
  Query = {q1, q2}
  MaxRecent = 2
  MaxRefused = 1
  MaxRestarts = 1
  MaxReloads = 1
  MaxUses = 4

CHECK_DEADLOCK FALSE

SPECIFICATION FairSpec

INVARIANT LibraryKept
PROPERTY PageSettles
