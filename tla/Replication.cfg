CONSTANTS
  Nodes = {n1,n2,n3}
  Boot = n1
  None = None
  Keys = {k}
  Values = {v1}
  NoValue = NoValue
  SnapshotThreshold = 2
  TrailingLogs = 1
  MaxTerm = 2
  MaxLog = 2

CHECK_DEADLOCK FALSE

SPECIFICATION Spec

SYMMETRY Symmetry

INVARIANT TypeOK
INVARIANT IInv
INVARIANT ReplayConverges
INVARIANT CallersOwnEntry
PROPERTY CommittedStays
PROPERTY KeepsGroupPromise
