CONSTANTS
  Keys = {k1, k2}
  Values = {v1}
  NoValue = NoValue
  NoRecord = NoRecord
  NoLoc = NoLoc
  Garbled = Garbled
  RecordSize <- UnequalSizes
  MaxFileSize = 0
  MaxFileID = 2
  MaxFileLen = 3
  InitialDir = {}
  Faults = {"open", "write", "sync", "read", "remove"}

SPECIFICATION FairSpec

INVARIANT NoDanglingLocation
PROPERTY AppendOnly
PROPERTY CompactionNeverSwaps
PROPERTY LockReleased
