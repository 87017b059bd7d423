CONSTANTS
  NodeIDs = {a, b, c}
  Keys = {k}
  VirtualNodes = 2
  MaxHash = 2
  MaxReplicas = 3

SPECIFICATION FairSpec

INVARIANT TypeOK
INVARIANT RingIsComplete
INVARIANT ReplicasAreNearest
PROPERTY MinimalRebalancing
PROPERTY WalkEnds
