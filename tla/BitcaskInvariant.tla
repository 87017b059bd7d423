-------------------------- MODULE BitcaskInvariant --------------------------
(***************************************************************************)
(* The inductive invariant behind IndexIsExact.  It holds while no file    *)
(* operation but an open fails and while file IDs have one digit, so that  *)
(* the listing of the directory is in the order the files were written.    *)
(***************************************************************************)
EXTENDS Bitcask

(* The location idx gives for k is that of the newest record of k; it      *)
(* gives none when k was never written or the newest record is a           *)
(* tombstone.                                                              *)
Exact(idx, k) ==
  /\ idx[k] # NoLoc => idx[k] \in Newest(k) /\ RecordAt(idx[k]).val # NoValue
  /\ idx[k] = NoLoc => \A l \in Newest(k) : RecordAt(l).val = NoValue

(* A file that is not there holds nothing when it is created. *)
AbsentFilesEmpty == \A f \in FileIDs \ dir : files[f] = <<>>

(* Outside Compact no file is newer than the active one, and an open       *)
(* handle is that of the active file, with the offset at its end.          *)
ActiveFileIsLast ==
  pc \in {"idle", "rotate", "write", "sync"} =>
    /\ \A f \in dir : f <= currentFileID
    /\ fileOpen => currentFileID \in dir
    /\ fileOpen /\ pc # "sync" => currentOffset = Len(files[currentFileID])

IndexAtRest ==
  pc \in {"idle", "rotate", "write"} => \A k \in Keys : Exact(keyDir, k)

(* Between the append and the index update the record is the last one of   *)
(* the active file, where the index will say it is.                        *)
RecordInFlight ==
  pc = "sync" =>
    /\ fileOpen
    /\ Len(files[currentFileID]) = currentOffset + Size(record)
    /\ RecordLocation \in Log
    /\ RecordAt(RecordLocation) = record
    /\ \A k \in Keys \ {record.key} : Exact(keyDir, k)

(* During the copy loop the merged file is the newest file.  keyDir is     *)
(* exact for the files below it, newKeyDir for the keys already copied.    *)
MergeInProgress ==
  pc = "merge" =>
    /\ mergedFileID \in dir
    /\ \A f \in dir : f <= mergedFileID
    /\ fileOpen => currentFileID # mergedFileID
    /\ todo \subseteq Live
    /\ \A k \in Keys \ (Live \ todo) :
         /\ Exact(keyDir, k)
         /\ newKeyDir[k] = NoLoc
         /\ \A l \in Records(k) : l.file # mergedFileID
    /\ \A k \in Live \ todo :
         /\ newKeyDir[k] # NoLoc
         /\ newKeyDir[k].file = mergedFileID
         /\ Exact(newKeyDir, k)
         /\ keyDir[k] \in Log
         /\ RecordAt(keyDir[k]) = RecordAt(newKeyDir[k])

(* During the delete loop the merged file alone answers every read, and    *)
(* the old files go in the order they were written.                        *)
RemovalInProgress ==
  pc = "remove" =>
    /\ ~fileOpen
    /\ mergedFileID \notin left
    /\ dir = left \cup {mergedFileID}
    /\ \A f \in left : f < mergedFileID
    /\ \A k \in Keys :
         /\ Exact(newKeyDir, k)
         /\ newKeyDir[k] # NoLoc => newKeyDir[k].file = mergedFileID

(* What Put, Delete, Compact and NewBitcask keep between them, and what    *)
(* makes every read exact.                                                 *)
IInv ==
  /\ TypeOK
  /\ AbsentFilesEmpty
  /\ ActiveFileIsLast
  /\ IndexAtRest
  /\ RecordInFlight
  /\ MergeInProgress
  /\ RemovalInProgress
=============================================================================
