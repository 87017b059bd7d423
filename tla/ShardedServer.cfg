CONSTANTS
  Nodes = {n1, n2, n3}
  None = None
  Keys = {k}
  Values = {v1}
  NoValue = NoValue
  Ids = {w1, w2}
  MaxTroubles = 1
  MaxRank = 1
  MaxBehind = 1
  MaxHops = 2
  MaxRequests = 2
  MaxReads = 1

SPECIFICATION Spec

SYMMETRY Symmetry

INVARIANT TypeOK
INVARIANT Converges
INVARIANT OnlyCollisionsLoop
INVARIANT HonestAnswers
INVARIANT FreshReads
