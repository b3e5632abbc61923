CONSTANTS
  d1 = d1
  d2 = d2
  p1 = p1
  Dataset <- MCDataset
  Path = {p1}
  Ordinary = ordinary
  Manifests <- MCManifests
  Null = Null
  MaxVersion = 3

SPECIFICATION Spec

INVARIANT TypeOK
INVARIANT FullTextCurrent
INVARIANT KeptIsCurrent
INVARIANT ReadyAsConfigured
