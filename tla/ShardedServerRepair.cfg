CONSTANTS
  Nodes = {n1, n2}
  None = None
  Keys = {k}
  Values = {v1}
  NoValue = NoValue
  Ids = {w1}
  MaxTroubles = 0
  MaxRank = 1
  MaxBehind = 1
  MaxHops = 1
  MaxRequests = 1
  MaxReads = 1

SPECIFICATION FairSpec

PROPERTY ReadRepairEnds
