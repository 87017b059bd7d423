CONSTANTS
  Keys = {k1, k2}
  Values = {v1, v2}
  NoValue = NoValue
  NoRecord = NoRecord
  NoLoc = NoLoc
  Garbled = Garbled
  RecordSize <- Sizes
  MaxFileSize = 0
  MaxFileID = 3
  MaxFileLen = 3
  InitialDir = {}
  Faults = {"open"}

SPECIFICATION Spec

SYMMETRY Symmetry

INVARIANT TypeOK
INVARIANT IInv
INVARIANT IndexIsExact
PROPERTY CompactionReclaims
PROPERTY CompactionKeepsReads
PROPERTY KeepsPromise
