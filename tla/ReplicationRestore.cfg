CONSTANTS
  Nodes = {n1, n2}
  Boot = n1
  None = None
  Keys = {k}
  Values = {v1}
  NoValue = NoValue
  SnapshotThreshold = 2
  TrailingLogs = 0
  MaxTerm = 2
  MaxLog = 3

CHECK_DEADLOCK FALSE

SPECIFICATION Spec

SYMMETRY Symmetry

INVARIANT RestoreIsNotNeeded
