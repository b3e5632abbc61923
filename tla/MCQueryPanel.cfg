CONSTANTS
  q1 = q1
  q2 = q2
  Blank = blank
  Query <- MCQuery
  Null = Null

SPECIFICATION Spec

INVARIANT TypeOK
INVARIANT NoticeTruthful
INVARIANT ErrorsCurrent
PROPERTY CanceledStaysCanceled
