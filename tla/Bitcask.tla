------------------------------ MODULE Bitcask ------------------------------
(***************************************************************************)
(* The storage engine: storage/bitcask.go and storage/compaction.go.       *)
(*                                                                         *)
(* An append-only log of records spread over numbered data files, and an   *)
(* in-memory index (keyDir) from a key to the record that holds its value. *)
(* bc.mu serialises Put, Delete, Compact and Close, so one process         *)
(* variable, pc, says where the holder of the lock is ("idle": nobody      *)
(* holds it).  A crash may fall between any two of its steps.              *)
(*                                                                         *)
(* A file is a sequence of cells, pieces of equal length of its records;   *)
(* offsets and sizes count cells.  A record has as many as its length      *)
(* says, so a write may stop in the middle of it and an offset may lie     *)
(* there.  A Get changes nothing: it is the operator Get.                  *)
(***************************************************************************)
EXTENDS Integers, Sequences, FiniteSets

CONSTANTS
  Keys, Values,
  NoValue,          \* not a value
  NoRecord,         \* no record is being written
  NoLoc,            \* the index has no entry for the key
  Garbled,          \* what a Get makes of bytes that are no whole record
  RecordSize,       \* RecordSize[k][v]: the length of the record of k and v
  MaxFileSize,      \* bc.maxFileSize
  MaxFileID,        \* bound of the model: the highest file ID used
  MaxFileLen,       \* bound of the model: writes begin below this length
  InitialDir,       \* the IDs of the files (all empty) found at first start
  Faults            \* the system calls that may fail

ASSUME SentinelAssumption == NoValue \notin Values

ASSUME BoundAssumption ==
  /\ MaxFileSize \in Nat
  /\ MaxFileID \in Nat
  /\ MaxFileLen \in Nat
  /\ InitialDir \subseteq 0 .. MaxFileID

ASSUME FaultAssumption ==
  Faults \subseteq {"open", "write", "sync", "read", "remove"}

FileIDs == 0 .. MaxFileID
Stored == Values \cup {NoValue}

(* A tombstone is a record with NoValue: its value size is 0xFFFFFFFF and  *)
(* no value bytes follow.                                                  *)
Record == [key : Keys, val : Stored]
Location == [file : FileIDs, offset : Nat, size : Nat]

ASSUME NoLocAssumption == NoLoc \notin Location
ASSUME SizeAssumption == RecordSize \in [Keys -> [Stored -> Nat \ {0}]]

Size(r) == RecordSize[r.key][r.val]

(* Cell i of the record rec. *)
Cell == [rec : Record, part : Nat]
Cells(r) == [i \in 1 .. Size(r) |-> [rec |-> r, part |-> i]]

(* What an interrupted write may leave of some cells. *)
Torn(cells) == {SubSeq(cells, 1, m) : m \in 0 .. Len(cells) - 1}

EmptyKeyDir == [k \in Keys |-> NoLoc]

VARIABLES
  \* on disk
  dir,            \* the IDs of the data files in dataDir
  files,          \* files[f]: the cells of data-f.log, <<>> for no such file
  durable,        \* durable[f]: how many of them the last fsync has covered
  \* in memory: struct Bitcask
  keyDir, currentFileID, currentOffset,
  fileOpen,       \* bc.currentFile is an open handle
  \* local variables of the operation that holds bc.mu
  pc,
  record,         \* Put, Delete: the record being written
  mergedFileID, newKeyDir,   \* Compact
  todo,           \* Compact: the keys the copy loop has not reached
  left            \* Compact: the old files the delete loop has not reached

disk == <<dir, files, durable>>
memory == <<keyDir, currentFileID, currentOffset, fileOpen>>
compaction == <<mergedFileID, newKeyDir, todo, left>>
vars == <<disk, memory, pc, record, compaction>>

Running == {"idle", "rotate", "write", "sync", "merge", "remove"}
Locked == Running \ {"idle"}

(* The types of the struct's fields and of the locals of Put and Compact;  *)
(* that an offset never becomes negative is part of it.                    *)
TypeOK ==
  /\ dir \subseteq FileIDs
  /\ files \in [FileIDs -> Seq(Cell)]
  /\ durable \in [FileIDs -> Nat]
  /\ keyDir \in [Keys -> Location \cup {NoLoc}]
  /\ currentFileID \in FileIDs
  /\ currentOffset \in Nat
  /\ fileOpen \in BOOLEAN
  /\ pc \in Running \cup {"down", "refused"}
  /\ record \in IF pc \in {"rotate", "write", "sync"} THEN Record ELSE {NoRecord}
  /\ mergedFileID \in FileIDs
  /\ newKeyDir \in [Keys -> Location \cup {NoLoc}]
  /\ todo \subseteq Keys
  /\ left \subseteq FileIDs

-----------------------------------------------------------------------------
Init ==
  /\ dir = InitialDir
  /\ files = [f \in FileIDs |-> <<>>]
  /\ durable = [f \in FileIDs |-> 0]
  /\ pc = "down"
  /\ keyDir = EmptyKeyDir
  /\ currentFileID = 0
  /\ currentOffset = 0
  /\ fileOpen = FALSE
  /\ record = NoRecord
  /\ mergedFileID = 0
  /\ newKeyDir = EmptyKeyDir
  /\ todo = {}
  /\ left = {}

(* The end of a process: its variables are gone. *)
Die ==
  /\ pc' = "down"
  /\ keyDir' = EmptyKeyDir
  /\ currentFileID' = 0
  /\ currentOffset' = 0
  /\ fileOpen' = FALSE
  /\ record' = NoRecord
  /\ mergedFileID' = 0
  /\ newKeyDir' = EmptyKeyDir
  /\ todo' = {}
  /\ left' = {}

-----------------------------------------------------------------------------
(* The cells of f from offset n on are those of one record, or begin with  *)
(* them: what the sizes written there make readers take for the record.    *)
WholeAt(f, n) ==
  /\ n < Len(files[f])
  /\ files[f][n + 1].part = 1
  /\ LET r == files[f][n + 1].rec
     IN /\ n + Size(r) <= Len(files[f])
        /\ \A i \in 2 .. Size(r) : files[f][n + i] = [rec |-> r, part |-> i]

RecordAt(loc) == files[loc.file][loc.offset + 1].rec

Index == IF pc = "remove" THEN newKeyDir ELSE keyDir

(* Get takes the sizes from the file and looks at neither the size in the  *)
(* index nor the key stored there.  What it makes of anything but a whole  *)
(* record, an error or bytes of several records, is Garbled.               *)
Get(k) ==
  LET loc == Index[k]
  IN IF loc = NoLoc THEN NoValue
     ELSE IF WholeAt(loc.file, loc.offset) THEN RecordAt(loc).val
     ELSE Garbled

(* The copy loop of Compact goes by the size in the index. *)
InFile(loc) == loc.offset + loc.size <= Len(files[loc.file])
Bytes(loc) == SubSeq(files[loc.file], loc.offset + 1, loc.offset + loc.size)

(* The order of os.ReadDir: by name, so data-10.log is in front of         *)
(* data-2.log.  Pad compares the decimal digits of IDs below 1000 from the *)
(* left.                                                                   *)
Pad(i) == IF i < 10 THEN i * 100 ELSE IF i < 100 THEN i * 10 ELSE i
ListedBefore(i, j) == Pad(i) < Pad(j) \/ (Pad(i) = Pad(j) /\ i < j)

(* The whole records of the files in the directory, by location, and the   *)
(* order in which a log is meant to be read.                               *)
Placed(f, n) == [file |-> f, offset |-> n, size |-> Size(files[f][n + 1].rec)]
Offsets(f) == {n \in 0 .. Len(files[f]) : WholeAt(f, n)}
Log == UNION {{Placed(f, n) : n \in Offsets(f)} : f \in dir}
Records(k) == {loc \in Log : RecordAt(loc).key = k}
After(l, m) == l.file > m.file \/ (l.file = m.file /\ l.offset > m.offset)

-----------------------------------------------------------------------------
(* bc.mu.Lock() of a Put: rotate first when the active file is full.       *)
Put(k, v) ==
  /\ pc = "idle"
  /\ Len(files[currentFileID]) < MaxFileLen
  /\ \/ currentOffset > MaxFileSize /\ currentFileID < MaxFileID /\ pc' = "rotate"
     \/ currentOffset <= MaxFileSize /\ pc' = "write"
  /\ record' = [key |-> k, val |-> v]
  /\ UNCHANGED <<disk, memory, compaction>>

(* A Delete of a missing key returns an error; a Delete never rotates. *)
Delete(k) ==
  /\ pc = "idle"
  /\ Len(files[currentFileID]) < MaxFileLen
  /\ keyDir[k] # NoLoc
  /\ pc' = "write"
  /\ record' = [key |-> k, val |-> NoValue]
  /\ UNCHANGED <<disk, memory, compaction>>

(* The deferred bc.mu.Unlock(), with the operation's result. *)
Return ==
  /\ pc' = "idle"
  /\ record' = NoRecord

Rotate ==
  LET id == currentFileID + 1
  IN /\ pc = "rotate"
     /\ id \in FileIDs
     /\ dir' = dir \cup {id}
     /\ currentFileID' = id
     /\ currentOffset' = Len(files[id])
     /\ fileOpen' = TRUE
     /\ pc' = "write"
     /\ UNCHANGED <<files, durable, keyDir, record, compaction>>

(* The old file is closed and the ID is taken before the open fails. *)
RotateFails ==
  /\ pc = "rotate"
  /\ "open" \in Faults
  /\ currentFileID + 1 \in FileIDs
  /\ currentFileID' = currentFileID + 1
  /\ fileOpen' = FALSE
  /\ Return
  /\ UNCHANGED <<disk, keyDir, currentOffset, compaction>>

(* The writes of a record's sizes, key and value.  O_APPEND puts them at   *)
(* the end of the file, wherever currentOffset is.                         *)
AppendRecord ==
  /\ pc = "write"
  /\ fileOpen
  /\ files' = [files EXCEPT ![currentFileID] = @ \o Cells(record)]
  /\ pc' = "sync"
  /\ UNCHANGED <<dir, durable, memory, record, compaction>>

(* Mutant of WriteFails: an early return that forgets the unlock. *)
WriteFailsLocked ==
  /\ pc = "write"
  /\ ~fileOpen
  /\ UNCHANGED vars

(* A closed handle refuses the first write; an error after it leaves a     *)
(* part of the record behind.                                              *)
WriteFails ==
  /\ pc = "write"
  /\ \/ /\ ~fileOpen
        /\ UNCHANGED files
     \/ /\ fileOpen
        /\ "write" \in Faults
        /\ \E part \in Torn(Cells(record)) :
             files' = [files EXCEPT ![currentFileID] = @ \o part]
  /\ Return
  /\ UNCHANGED <<dir, durable, memory, compaction>>

(* Where Put believes the record to be. *)
RecordLocation == [file |-> currentFileID, offset |-> currentOffset, size |-> Size(record)]

(* Mutants of Sync: the offset moves back, it does not move, there is no   *)
(* fsync.                                                                  *)
SyncMutant(synced, offset) ==
  /\ pc = "sync"
  /\ durable' = [durable EXCEPT ![currentFileID] = synced]
  /\ keyDir' = [keyDir EXCEPT ![record.key] =
                  IF record.val = NoValue
                    THEN NoLoc
                    ELSE RecordLocation]
  /\ currentOffset' = offset
  /\ Return
  /\ UNCHANGED <<dir, files, currentFileID, fileOpen, compaction>>

SyncBackwards == SyncMutant(Len(files[currentFileID]), currentOffset - 1)
SyncInPlace == SyncMutant(Len(files[currentFileID]), currentOffset)
SyncSkipped == SyncMutant(durable[currentFileID], currentOffset + Size(record))

(* fsync, then the update of keyDir and currentOffset. *)
Sync ==
  /\ pc = "sync"
  /\ durable' = [durable EXCEPT ![currentFileID] = Len(files[currentFileID])]
  /\ keyDir' = [keyDir EXCEPT ![record.key] =
                  IF record.val = NoValue
                    THEN NoLoc
                    ELSE RecordLocation]
  /\ currentOffset' = currentOffset + Size(record)
  /\ Return
  /\ UNCHANGED <<dir, files, currentFileID, fileOpen, compaction>>

(* The record stays in the file; keyDir and currentOffset do not move. *)
SyncFails ==
  /\ pc = "sync"
  /\ "sync" \in Faults
  /\ Return
  /\ UNCHANGED <<disk, memory, compaction>>

Close ==
  /\ pc = "idle"
  /\ fileOpen
  /\ fileOpen' = FALSE
  /\ UNCHANGED <<disk, keyDir, currentFileID, currentOffset, pc, record, compaction>>

-----------------------------------------------------------------------------
(* Compact: nothing to do while the highest file ID is 0. *)
IsLast(f) == f \in dir /\ \A g \in dir : g <= f

(* Mutant of CompactBegin: the merge overwrites the last file. *)
CompactBeginInPlace ==
  \E last \in dir :
    /\ pc = "idle"
    /\ IsLast(last)
    /\ last # 0
    /\ mergedFileID' = last
    /\ files' = [files EXCEPT ![last] = <<>>]
    /\ durable' = [durable EXCEPT ![last] = 0]
    /\ newKeyDir' = EmptyKeyDir
    /\ todo' = {k \in Keys : keyDir[k] # NoLoc}
    /\ pc' = "merge"
    /\ UNCHANGED <<dir, memory, record, left>>

CompactBegin ==
  \E last \in dir :
    /\ pc = "idle"
    /\ IsLast(last)
    /\ last # 0
    /\ last + 1 \in FileIDs
    /\ mergedFileID' = last + 1
    /\ dir' = dir \cup {last + 1}
    /\ files' = [files EXCEPT ![last + 1] = <<>>]
    /\ durable' = [durable EXCEPT ![last + 1] = 0]
    /\ newKeyDir' = EmptyKeyDir
    /\ todo' = {k \in Keys : keyDir[k] # NoLoc}
    /\ pc' = "merge"
    /\ UNCHANGED <<memory, record, left>>

(* Compact opens the file of k's location and finds its bytes there. *)
Readable(loc) == loc # NoLoc /\ loc.file \in dir /\ InFile(loc)

(* Mutant of CopyRecord: the new index keeps the old offset. *)
CopyRecordOldOffset(k) ==
  LET loc == keyDir[k]
  IN /\ pc = "merge"
     /\ k \in todo
     /\ Readable(loc)
     /\ files' = [files EXCEPT ![mergedFileID] = @ \o Bytes(loc)]
     /\ newKeyDir' = [newKeyDir EXCEPT ![k] = [loc EXCEPT !.file = mergedFileID]]
     /\ todo' = todo \ {k}
     /\ UNCHANGED <<dir, durable, memory, pc, record, mergedFileID, left>>

(* Mutant of CopyRecord: one RecordLocation for all keys, filled in anew   *)
(* in each round of the loop.                                              *)
CopyRecordShared(k) ==
  LET loc == keyDir[k]
      shared == [file |-> mergedFileID, offset |-> Len(files[mergedFileID]), size |-> loc.size]
  IN /\ pc = "merge"
     /\ k \in todo
     /\ Readable(loc)
     /\ files' = [files EXCEPT ![mergedFileID] = @ \o Bytes(loc)]
     /\ newKeyDir' = [j \in Keys |->
                        IF j = k \/ newKeyDir[j] # NoLoc THEN shared ELSE NoLoc]
     /\ todo' = todo \ {k}
     /\ UNCHANGED <<dir, durable, memory, pc, record, mergedFileID, left>>

(* newOffset is the sum of the sizes copied, the length of the file.       *)
CopyRecord(k) ==
  LET loc == keyDir[k]
      newOffset == Len(files[mergedFileID])
  IN /\ pc = "merge"
     /\ k \in todo
     /\ Readable(loc)
     /\ files' = [files EXCEPT ![mergedFileID] = @ \o Bytes(loc)]
     /\ newKeyDir' = [newKeyDir EXCEPT ![k] =
                        [file |-> mergedFileID, offset |-> newOffset, size |-> loc.size]]
     /\ todo' = todo \ {k}
     /\ UNCHANGED <<dir, durable, memory, pc, record, mergedFileID, left>>

(* The record cannot be opened or read: the loop goes on without the key. *)
SkipRecord(k) ==
  /\ pc = "merge"
  /\ k \in todo
  /\ "read" \in Faults \/ ~Readable(keyDir[k])
  /\ todo' = todo \ {k}
  /\ UNCHANGED <<disk, memory, pc, record, mergedFileID, newKeyDir, left>>

(* A write to the merged file or its fsync fails: Compact returns, and     *)
(* leaves the merged file in the directory.                                *)
CompactGivesUp ==
  /\ pc = "merge"
  /\ \/ /\ "write" \in Faults
        /\ \E k \in todo :
             /\ Readable(keyDir[k])
             /\ \E part \in Torn(Bytes(keyDir[k])) :
                  files' = [files EXCEPT ![mergedFileID] = @ \o part]
     \/ /\ todo = {}
        /\ "sync" \in Faults
        /\ UNCHANGED files
  /\ mergedFileID' = 0
  /\ newKeyDir' = EmptyKeyDir
  /\ todo' = {}
  /\ Return
  /\ UNCHANGED <<dir, durable, memory, left>>

(* Mutants of SyncMerged: the active file is spared, the merged file is    *)
(* not.                                                                    *)
SyncMergedSparing(old) ==
  /\ pc = "merge"
  /\ todo = {}
  /\ durable' = [durable EXCEPT ![mergedFileID] = Len(files[mergedFileID])]
  /\ fileOpen' = (fileOpen /\ currentFileID = mergedFileID)
  /\ left' = old
  /\ pc' = "remove"
  /\ UNCHANGED <<dir, files, keyDir, currentFileID, currentOffset, record,
                 mergedFileID, newKeyDir, todo>>

SyncMergedKeepingActive == SyncMergedSparing({f \in dir : f < mergedFileID /\ f # currentFileID})
SyncMergedDroppingAll == SyncMergedSparing({f \in dir : f <= mergedFileID})

SyncMerged ==
  /\ pc = "merge"
  /\ todo = {}
  /\ durable' = [durable EXCEPT ![mergedFileID] = Len(files[mergedFileID])]
  /\ fileOpen' = (fileOpen /\ currentFileID = mergedFileID)
  /\ left' = {f \in dir : f < mergedFileID}
  /\ pc' = "remove"
  /\ UNCHANGED <<dir, files, keyDir, currentFileID, currentOffset, record,
                 mergedFileID, newKeyDir, todo>>

(* os.Remove, file by file in the order of the listing; an error is logged *)
(* and the file stays.                                                     *)
RemoveFile ==
  \E f \in left :
    /\ pc = "remove"
    /\ \A g \in left : g = f \/ ListedBefore(f, g)
    /\ left' = left \ {f}
    /\ \/ /\ dir' = dir \ {f}
          /\ files' = [files EXCEPT ![f] = <<>>]
          /\ durable' = [durable EXCEPT ![f] = 0]
       \/ /\ "remove" \in Faults
          /\ UNCHANGED disk
    /\ UNCHANGED <<memory, pc, record, mergedFileID, newKeyDir, todo>>

(* The new index is installed before the merged file is reopened: when the *)
(* open fails the closed handle of the old file stays in place.            *)
Install ==
  /\ pc = "remove"
  /\ left = {}
  /\ keyDir' = newKeyDir
  /\ currentFileID' = mergedFileID
  /\ currentOffset' = Len(files[mergedFileID])
  /\ \/ fileOpen' = TRUE
     \/ "open" \in Faults /\ UNCHANGED fileOpen
  /\ mergedFileID' = 0
  /\ newKeyDir' = EmptyKeyDir
  /\ Return
  /\ UNCHANGED <<disk, todo, left>>

-----------------------------------------------------------------------------
(* The process is killed.  What it wrote stays in the page cache; between  *)
(* the writes of one record only a part of it is in the file.              *)
Kill ==
  /\ pc \in Running
  /\ \/ UNCHANGED files
     \/ /\ pc = "write"
        /\ fileOpen
        /\ \E part \in Torn(Cells(record)) :
             files' = [files EXCEPT ![currentFileID] = @ \o part]
  /\ Die
  /\ UNCHANGED <<dir, durable>>

(* What may be left of a file of which the first n cells were synced. *)
Survivors(s, n) == {SubSeq(s, 1, m) : m \in n .. Len(s)}

Unsynced == {f \in dir : durable[f] < Len(files[f])}

(* The machine loses power: of the cells no fsync has covered a prefix     *)
(* reaches the disk.                                                       *)
PowerLoss ==
  /\ pc \in Running \cup {"down"}
  /\ pc \in Running \/ Unsynced # {}
  /\ \E rest \in [Unsynced -> UNION {Survivors(files[f], durable[f]) : f \in Unsynced}] :
       /\ \A f \in Unsynced : rest[f] \in Survivors(files[f], durable[f])
       /\ files' = [f \in FileIDs |-> IF f \in Unsynced THEN rest[f] ELSE files[f]]
  /\ durable' = [f \in FileIDs |-> Len(files'[f])]
  /\ Die
  /\ UNCHANGED dir

-----------------------------------------------------------------------------
ReplayedBefore(l, m) ==   \* mutant of ReplayedAfter: the first record wins
  ListedBefore(l.file, m.file) \/ (l.file = m.file /\ l.offset < m.offset)

(* recover(): every file of the listing is replayed, in the order of the   *)
(* listing; a later record of a key replaces an earlier one.               *)
ReplayedAfter(l, m) ==
  ListedBefore(m.file, l.file) \/ (l.file = m.file /\ l.offset > m.offset)

ReplayedLast(k) == {l \in Records(k) : \A m \in Records(k) : ~ReplayedAfter(m, l)}

Recovered ==
  [k \in Keys |-> IF ReplayedLast(k) = {} THEN NoLoc ELSE CHOOSE l \in ReplayedLast(k) : TRUE]

(* A file was cut short, or mixed up by a copy of the wrong size. *)
CutShort ==
  LET log == Log
  IN \E f \in dir : \E n \in 1 .. Len(files[f]) :
       \A loc \in log : loc.file = f => n \notin loc.offset + 1 .. loc.offset + loc.size

(* readDataFile knows no tombstone: it takes 0xFFFFFFFF for the length of  *)
(* a value and runs into the end of the file, as it does in a torn record. *)
(* (Were enough bytes to follow either, the sizes read next would be       *)
(* arbitrary; such a store counts as refused too.)                         *)
HasTombstone == \E loc \in Log : RecordAt(loc).val = NoValue

Replayable == ~CutShort /\ ~HasTombstone

(* NewBitcask: recover(), then openCurrentFile() on the highest file ID,   *)
(* 0 when there is none.  Nothing is synced.                               *)
Restart ==
  /\ pc = "down"
  /\ Replayable
  /\ \/ dir = {} /\ currentFileID' = 0
     \/ \E last \in dir : IsLast(last) /\ currentFileID' = last
  /\ keyDir' = Recovered
  /\ dir' = dir \cup {currentFileID'}
  /\ currentOffset' = Len(files[currentFileID'])
  /\ fileOpen' = TRUE
  /\ pc' = "idle"
  /\ UNCHANGED <<files, durable, record, compaction>>

(* log.Fatalf: the process exits, and so does every one started after it. *)
RestartRefused ==
  /\ pc \in {"down", "refused"}
  /\ ~Replayable
  /\ pc' = "refused"
  /\ UNCHANGED <<disk, memory, record, compaction>>

-----------------------------------------------------------------------------
LockHolder ==
  \/ Rotate \/ RotateFails
  \/ AppendRecord \/ WriteFails \/ Sync \/ SyncFails
  \/ \E k \in Keys : CopyRecord(k) \/ SkipRecord(k)
  \/ CompactGivesUp \/ SyncMerged \/ RemoveFile \/ Install

Caller ==
  \/ \E k \in Keys, v \in Values : Put(k, v)
  \/ \E k \in Keys : Delete(k)
  \/ CompactBegin \/ Close

Environment == Kill \/ PowerLoss \/ Restart \/ RestartRefused

Next == LockHolder \/ Caller \/ Environment

Spec == Init /\ [][Next]_vars

(* A goroutine that holds bc.mu is scheduled until it returns. *)
Fairness == WF_vars(LockHolder)

FairSpec == Spec /\ Fairness

-----------------------------------------------------------------------------
(* The values the log holds, read in the order it was written. *)
Newest(k) ==
  {l \in Records(k) : \A m \in Records(k) : ~After(m, l)}

(* What a Get returns is what a replay of the log in the order it was      *)
(* written would put into keyDir, at every step of every operation, and    *)
(* right after a recovery (bitcask.go:139 "latest record wins").  Only a   *)
(* record that is in the file and not yet in the index is ahead of it.     *)
IndexIsExact ==
  pc \in Running =>
    \A k \in Keys :
      \/ pc = "sync" /\ k = record.key
      \/ /\ \A loc \in Newest(k) : Get(k) = RecordAt(loc).val
         /\ Records(k) = {} => Get(k) = NoValue

(* Whatever calls fail, a running store never loses sight of its files:    *)
(* each location of the index lies within a file of the directory, also    *)
(* when failed writes have left the offsets behind the end of the file,    *)
(* and the file behind an open handle is in the directory.                 *)
NoDanglingLocation ==
  /\ \A k \in Keys : Index[k] # NoLoc => Index[k].file \in dir /\ InFile(Index[k])
  /\ fileOpen => currentFileID \in dir

(* The log is append-only (README.md:49) whatever calls fail: a step of a  *)
(* running process removes a whole file or extends it, and never rewrites  *)
(* or truncates what is in it.                                             *)
Extends(s, t) == Len(s) <= Len(t) /\ \A i \in 1 .. Len(s) : s[i] = t[i]

AppendOnly ==
  [][(pc \in Running /\ pc' \in Running) =>
       \A f \in dir \cap dir' : Extends(files[f], files'[f])]_vars

(* A compaction that returns leaves one file with exactly one record of    *)
(* each live key (compaction.go:26).                                       *)
Live == {k \in Keys : keyDir[k] # NoLoc}

CompactionReclaims ==
  [][(pc = "remove" /\ pc' = "idle") =>
       /\ Log' = {keyDir'[k] : k \in Live'}
       /\ Cardinality(Log') = Cardinality(Live')
       /\ dir' = {currentFileID'}]_vars

(* No reader sees a compaction: what a Get returned before a step of it is *)
(* what a Get returns after, up to the release of the lock.                *)
CompactionKeepsReads ==
  [][(pc \in {"merge", "remove"} /\ pc' \in Running) =>
       \A k \in Keys : Get(k)' = Get(k)]_vars

(* The record that the bytes of k's location, offset and size, are: none   *)
(* when a failed write has left a location that begins or ends inside a    *)
(* record.                                                                 *)
Reading(k) == {r \in Record : Index[k] # NoLoc /\ Bytes(Index[k]) = Cells(r)}

(* A compaction that meets records it cannot read, files it cannot remove  *)
(* or locations that are wrong may lose a key for good (compaction.go:92), *)
(* but it never gives a key another record than the one it had, older or   *)
(* another key's, nor a record to a key that had none.  (A Get through a   *)
(* location whose size is wrong may change: only that many bytes are       *)
(* copied, and what follows them is not what followed before.)             *)
CompactionNeverSwaps ==
  [][(pc \in {"merge", "remove"} /\ pc' \in Running) =>
       \A k \in Keys : Reading(k)' \subseteq Reading(k)]_vars

(* "Deletes are marked with a special value size" (DESIGN_GUIDE.md:254):   *)
(* a store is refused only because of a torn record, never because of the  *)
(* tombstone of a Delete.                                                  *)
DeleteKeepsStoreOpenable == pc = "refused" => CutShort

(* "Append-only writes are atomic (either complete or not)"                *)
(* (DESIGN_GUIDE.md:166): a store is refused only because of a tombstone,  *)
(* never because of a record that was cut short.                           *)
TornWriteKeepsStoreOpenable == pc = "refused" => HasTombstone

(* "Skip the key (we already know it)" (bitcask.go:272): a location of the *)
(* index leads to a record of that very key.                               *)
LocationsHoldTheirKey ==
  \A k \in Keys : LET loc == Index[k] IN
    loc # NoLoc => WholeAt(loc.file, loc.offset) /\ RecordAt(loc).key = k

(* An operation that took bc.mu releases it, unless the process dies. *)
LockReleased == pc \in Locked ~> pc \notin Locked

-----------------------------------------------------------------------------
(* The storage engine keeps the promise of KVStore. *)
InFlight == IF pc = "sync" THEN {RecordLocation} ELSE {}

OnDisk(k) ==
  IF Records(k) = {} THEN NoValue ELSE RecordAt(CHOOSE l \in Newest(k) : TRUE).val

(* The values that may be the newest of k once the power has failed. *)
Outcomes(k) ==
  LET synced == {l \in Records(k) : l.offset + l.size <= durable[l.file]}
      latest == {l \in Records(k) \ InFlight : \A m \in synced : ~After(m, l)}
  IN {RecordAt(l).val : l \in latest} \cup IF synced = {} THEN {NoValue} ELSE {}

Store == [k \in Keys |-> IF pc \in Running THEN Get(k) ELSE OnDisk(k)]
Pending == IF pc \in {"rotate", "write", "sync"} THEN {record} ELSE {}
Status == IF pc \in Running THEN "up" ELSE pc

Promise == INSTANCE KVStore WITH
  store    <- Store,
  outcomes <- [k \in Keys |-> Outcomes(k)],
  pending  <- Pending,
  status   <- Status

(* Every behaviour of the storage engine is one of KVStore: acknowledged   *)
(* writes survive crashes, an interrupted write happened or did not, reads *)
(* never move otherwise (DESIGN_GUIDE.md:166-167).                         *)
KeepsPromise == Promise!Spec
=============================================================================
