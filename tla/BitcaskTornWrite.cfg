CONSTANTS
  Keys = {k1, k2}
  Values = {v1, v2}
  NoValue = NoValue
  NoRecord = NoRecord
  NoLoc = NoLoc
  Garbled = Garbled
  RecordSize <- Sizes
  MaxFileSize = 0
  MaxFileID = 2
  MaxFileLen = 3
  InitialDir = {}
  Faults = {}

SPECIFICATION Spec

SYMMETRY Symmetry

INVARIANT TornWriteKeepsStoreOpenable
