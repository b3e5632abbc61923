CONSTANTS
  Questions = 2
  Text = {right, wrong}
  Correct = {right}
  Empty = empty
  Null = Null
  MaxLoads = 3

SPECIFICATION Spec

INVARIANT TypeOK
INVARIANT LoadingEnds
PROPERTY ViewNeverGoesBack
PROPERTY DraftsSafe
