--------------------------- MODULE BitcaskProofs ---------------------------
(***************************************************************************)
(* Proofs about the storage engine that hold whatever system calls fail:   *)
(* its variables keep their types, the log is append-only, the index never *)
(* leaves it, and a compaction gives no key another record.                *)
(***************************************************************************)
EXTENDS BitcaskInvariant, SequenceTheorems, TLAPS

(* The cells of a record are a sequence as long as the record. *)
LEMMA CellsType ==
  ASSUME NEW r \in Record
  PROVE  /\ Size(r) \in Nat \ {0}
         /\ Cells(r) \in Seq(Cell) /\ Len(Cells(r)) = Size(r)
         /\ \A i \in 1 .. Size(r) : Cells(r)[i] = [rec |-> r, part |-> i]
<1>1. Size(r) \in Nat \ {0}
  BY SizeAssumption DEF Size, Record
<1>2. Cells(r) \in [1 .. Size(r) -> Cell]
  BY <1>1 DEF Cells, Cell
<1>3. Cells(r) \in Seq(Cell)
  BY <1>1, <1>2, SeqDef
<1>4. Len(Cells(r)) = Size(r)
  BY <1>1, <1>3, LenProperties DEF Cells
<1> QED BY <1>1, <1>3, <1>4 DEF Cells

(* A prefix of a file is a file. *)
LEMMA PrefixType ==
  ASSUME NEW s \in Seq(Cell), NEW m \in 0 .. Len(s)
  PROVE  /\ SubSeq(s, 1, m) \in Seq(Cell) /\ Len(SubSeq(s, 1, m)) = m
         /\ \A i \in 1 .. m : SubSeq(s, 1, m)[i] = s[i]
<1>1. Len(s) \in Nat
  BY LenProperties
<1>2. \A i \in 1 .. m : s[i] \in Cell
  BY <1>1, ElementOfSeq
<1> QED BY <1>1, <1>2, SubSeqProperties, Z3

(* So is what a power failure leaves of it, and what an interrupted write  *)
(* leaves of some cells.                                                   *)
LEMMA SurvivorsType ==
  ASSUME NEW s \in Seq(Cell)
  PROVE  /\ \A n \in Nat : \A t \in Survivors(s, n) : t \in Seq(Cell)
         /\ \A t \in Torn(s) : t \in Seq(Cell)
<1>1. Len(s) \in Nat
  BY LenProperties
<1> QED BY <1>1, PrefixType DEF Survivors, Torn

(* The cells at a location inside a file. *)
LEMMA BytesType ==
  ASSUME TypeOK, NEW loc \in Location, InFile(loc)
  PROVE  /\ Bytes(loc) \in Seq(Cell) /\ Len(Bytes(loc)) = loc.size
         /\ \A i \in 1 .. loc.size : Bytes(loc)[i] = files[loc.file][loc.offset + i]
<1>1. PICK s \in Seq(Cell), o \in Nat, n \in Nat :
        s = files[loc.file] /\ o = loc.offset /\ n = loc.size
  BY DEF TypeOK, Location
<1>2. Len(s) \in Nat /\ o + n <= Len(s)
  BY <1>1, LenProperties DEF InFile
<1>3. \A i \in o + 1 .. o + n : s[i] \in Cell
  BY <1>2, ElementOfSeq
<1>4. /\ SubSeq(s, o + 1, o + n) \in Seq(Cell)
      /\ Len(SubSeq(s, o + 1, o + n)) = n
      /\ \A i \in 1 .. n : SubSeq(s, o + 1, o + n)[i] = s[o + i]
  BY <1>3, SubSeqProperties, Z3
<1> QED BY <1>1, <1>4 DEF Bytes

(* The length of a file is a number. *)
LEMMA LenType ==
  ASSUME NEW fs \in [FileIDs -> Seq(Cell)], NEW f \in FileIDs
  PROVE  Len(fs[f]) \in Nat
BY LenProperties

(* Cells put at the end of others leave those where they are. *)
LEMMA ConcatParts ==
  ASSUME NEW s \in Seq(Cell), NEW t \in Seq(Cell)
  PROVE  /\ s \o t \in Seq(Cell) /\ Len(s \o t) = Len(s) + Len(t)
         /\ \A i \in 1 .. Len(s) : (s \o t)[i] = s[i]
         /\ \A i \in 1 .. Len(t) : (s \o t)[Len(s) + i] = t[i]
<1>1. PICK n \in Nat, m \in Nat, u \in Seq(Cell) : n = Len(s) /\ m = Len(t) /\ u = s \o t
  BY LenProperties, ConcatProperties
<1>2. \A i \in 1 .. n + m : u[i] = IF i <= n THEN s[i] ELSE t[i - n]
  BY <1>1, ConcatProperties
<1>3. \A i \in 1 .. n : u[i] = s[i]
  BY <1>2
<1>4. ASSUME NEW i \in 1 .. m PROVE u[n + i] = t[i]
  <2>1. n + i \in 1 .. n + m /\ ~(n + i <= n) /\ (n + i) - n = i
    OBVIOUS
  <2> QED BY <1>2, <2>1
<1> QED BY <1>1, <1>3, <1>4, ConcatProperties

(* They are found behind them. *)
LEMMA ConcatTail ==
  ASSUME NEW s \in Seq(Cell), NEW t \in Seq(Cell)
  PROVE  SubSeq(s \o t, Len(s) + 1, Len(s) + Len(t)) = t
<1>1. PICK u \in Seq(Cell), n \in Nat, m \in Nat : u = s \o t /\ n = Len(s) /\ m = Len(t)
  BY ConcatParts, LenProperties
<1>2. Len(u) = n + m /\ \A i \in 1 .. m : u[n + i] = t[i]
  BY <1>1, ConcatParts
<1>3. \A i \in n + 1 .. n + m : u[i] \in Cell
  BY <1>2, ElementOfSeq
<1>4. /\ SubSeq(u, n + 1, n + m) \in Seq(Cell)
      /\ Len(SubSeq(u, n + 1, n + m)) = m
      /\ \A i \in 1 .. m : SubSeq(u, n + 1, n + m)[i] = u[n + i]
  BY <1>3, SubSeqProperties, Z3
<1>5. PICK v \in Seq(Cell) : v = SubSeq(u, n + 1, n + m)
  BY <1>4
<1>6. Len(v) = Len(t) /\ \A i \in 1 .. Len(v) : v[i] = t[i]
  BY <1>1, <1>2, <1>4, <1>5
<1>7. v = t
  BY <1>6, SeqEqual
<1> QED BY <1>1, <1>5, <1>7

(* A file with more cells at its end is a file. *)
LEMMA AppendType ==
  ASSUME NEW fs \in [FileIDs -> Seq(Cell)], NEW f \in FileIDs, NEW t \in Seq(Cell)
  PROVE  [fs EXCEPT ![f] = @ \o t] \in [FileIDs -> Seq(Cell)]
BY ConcatProperties

(* A whole record lies within its file. *)
LEMMA WholeType ==
  ASSUME TypeOK, NEW f \in FileIDs, NEW n \in Nat, WholeAt(f, n)
  PROVE  LET r == files[f][n + 1].rec
         IN /\ r \in Record /\ Size(r) \in Nat \ {0}
            /\ n + Size(r) <= Len(files[f])
            /\ \A i \in 1 .. Size(r) : files[f][n + i] = [rec |-> r, part |-> i]
<1>1. PICK s \in Seq(Cell) : s = files[f]
  BY DEF TypeOK
<1>2. Len(s) \in Nat /\ n < Len(s)
  BY <1>1, LenProperties DEF WholeAt
<1>3. PICK c \in Cell : c = s[n + 1]
  BY <1>2, ElementOfSeq
<1>4. c = [rec |-> c.rec, part |-> 1] /\ c.rec \in Record
  BY <1>1, <1>3 DEF Cell, WholeAt
<1>5. Size(c.rec) \in Nat \ {0}
  BY <1>4, CellsType
<1>6. /\ n + Size(c.rec) <= Len(s)
      /\ \A i \in 2 .. Size(c.rec) : s[n + i] = [rec |-> c.rec, part |-> i]
  BY <1>1, <1>3 DEF WholeAt
<1>7. ASSUME NEW i \in 1 .. Size(c.rec)
      PROVE  s[n + i] = [rec |-> c.rec, part |-> i]
  BY <1>3, <1>4, <1>5, <1>6
<1> QED BY <1>1, <1>3, <1>4, <1>5, <1>6, <1>7

(* What is in the log is in a file of the directory. *)
LEMMA LogLocation ==
  ASSUME TypeOK
  PROVE  \A loc \in Log :
           /\ loc \in Location /\ loc.file \in dir
           /\ InFile(loc)
           /\ WholeAt(loc.file, loc.offset)
           /\ loc.size = Size(RecordAt(loc)) /\ RecordAt(loc) \in Record
<1> SUFFICES ASSUME NEW loc \in Log
    PROVE  /\ loc \in Location /\ loc.file \in dir
           /\ InFile(loc)
           /\ WholeAt(loc.file, loc.offset)
           /\ loc.size = Size(RecordAt(loc)) /\ RecordAt(loc) \in Record
  OBVIOUS
<1>1. PICK f \in dir : \E n \in Offsets(f) : loc = Placed(f, n)
  BY DEF Log
<1>2. f \in FileIDs /\ Len(files[f]) \in Nat
  BY LenType DEF TypeOK
<1>3. PICK n \in 0 .. Len(files[f]) : WholeAt(f, n) /\ loc = Placed(f, n)
  BY <1>1 DEF Offsets
<1>4. PICK r : r = files[f][n + 1].rec
  OBVIOUS
<1>5. r \in Record /\ Size(r) \in Nat \ {0} /\ n + Size(r) <= Len(files[f])
  BY <1>2, <1>3, <1>4, WholeType
<1>6. loc = [file |-> f, offset |-> n, size |-> Size(r)]
  BY <1>3, <1>4 DEF Placed
<1> QED BY <1>2, <1>3, <1>4, <1>5, <1>6 DEF Location, InFile, RecordAt

(* The values that variables start with have their types. *)
LEMMA ConstantTypes ==
  /\ EmptyKeyDir \in [Keys -> Location \cup {NoLoc}]
  /\ 0 \in FileIDs
BY BoundAssumption DEF EmptyKeyDir, FileIDs

(* Each step keeps every variable in its type. *)
LEMMA TypeStep == TypeOK /\ [Next]_vars => TypeOK'
<1> SUFFICES ASSUME TypeOK, [Next]_vars PROVE TypeOK'
  OBVIOUS
<1> USE DEF TypeOK, Running
<1>1. ASSUME NEW k \in Keys, NEW v \in Values, Put(k, v) PROVE TypeOK'
  <2>1. record' \in Record
    BY <1>1 DEF Put, Record, Stored
  <2> QED BY <1>1, <2>1 DEF Put, disk, memory, compaction
<1>2. ASSUME NEW k \in Keys, Delete(k) PROVE TypeOK'
  <2>1. record' \in Record
    BY <1>2 DEF Delete, Record, Stored
  <2> QED BY <1>2, <2>1 DEF Delete, disk, memory, compaction
<1>3. CASE Rotate
  BY <1>3, LenType DEF Rotate, compaction
<1>4. CASE RotateFails
  BY <1>4 DEF RotateFails, Return, disk, compaction
<1>5. CASE AppendRecord
  <2>1. files' \in [FileIDs -> Seq(Cell)]
    BY <1>5, AppendType, CellsType DEF AppendRecord
  <2> QED BY <1>5, <2>1 DEF AppendRecord, memory, compaction
<1>6. ASSUME NEW s \in Seq(Cell), NEW f \in FileIDs, NEW t \in Torn(s)
      PROVE  [files EXCEPT ![f] = @ \o t] \in [FileIDs -> Seq(Cell)]
  BY <1>6, SurvivorsType, AppendType
<1>7. CASE WriteFails
  <2>1. Cells(record) \in Seq(Cell)
    BY <1>7, CellsType DEF WriteFails
  <2>2. files' \in [FileIDs -> Seq(Cell)]
    <3>1. CASE UNCHANGED files
      BY <3>1
    <3>2. CASE \E t \in Torn(Cells(record)) : files' = [files EXCEPT ![currentFileID] = @ \o t]
      BY <1>6, <2>1, <3>2
    <3> QED BY <1>7, <3>1, <3>2 DEF WriteFails
  <2> QED BY <1>7, <2>2 DEF WriteFails, Return, memory, compaction
<1>8. CASE Sync
  <2>0. record \in Record /\ Size(record) \in Nat
    BY <1>8, CellsType DEF Sync
  <2>1. RecordLocation \in Location
    BY <2>0 DEF Location, RecordLocation
  <2>2. keyDir' \in [Keys -> Location \cup {NoLoc}]
    BY <1>8, <2>1 DEF Sync
  <2>3. durable' \in [FileIDs -> Nat]
    BY <1>8, LenType DEF Sync
  <2> QED BY <1>8, <2>0, <2>2, <2>3 DEF Sync, Return, compaction
<1>9. CASE SyncFails
  BY <1>9 DEF SyncFails, Return, disk, memory, compaction
<1>10. CASE Close
  BY <1>10 DEF Close, disk, compaction
<1>11. CASE CompactBegin
  BY <1>11, ConstantTypes DEF CompactBegin, memory
<1>12. ASSUME NEW loc \in Location \cup {NoLoc}, Readable(loc)
       PROVE  loc \in Location /\ Bytes(loc) \in Seq(Cell)
  BY <1>12, BytesType DEF Readable
<1>13. ASSUME NEW k \in Keys, CopyRecord(k) PROVE TypeOK'
  <2>1. keyDir[k] \in Location /\ Bytes(keyDir[k]) \in Seq(Cell)
    BY <1>12, <1>13 DEF CopyRecord
  <2>2. files' \in [FileIDs -> Seq(Cell)]
    BY <1>13, <2>1, AppendType DEF CopyRecord
  <2>3. [file |-> mergedFileID, offset |-> Len(files[mergedFileID]),
         size |-> keyDir[k].size] \in Location
    BY <2>1, LenType DEF Location
  <2> QED BY <1>13, <2>2, <2>3 DEF CopyRecord, memory
<1>14. ASSUME NEW k \in Keys, SkipRecord(k) PROVE TypeOK'
  BY <1>14 DEF SkipRecord, disk, memory
<1>15. CASE CompactGivesUp
  <2>1. files' \in [FileIDs -> Seq(Cell)]
    <3>1. CASE UNCHANGED files
      BY <3>1
    <3>2. CASE ~UNCHANGED files
      <4>1. PICK k \in todo : /\ Readable(keyDir[k])
                              /\ \E t \in Torn(Bytes(keyDir[k])) :
                                   files' = [files EXCEPT ![mergedFileID] = @ \o t]
        BY <1>15, <3>2 DEF CompactGivesUp
      <4>2. Bytes(keyDir[k]) \in Seq(Cell)
        BY <1>12, <4>1
      <4> QED BY <1>6, <4>1, <4>2
    <3> QED BY <3>1, <3>2
  <2> QED BY <1>15, <2>1, ConstantTypes DEF CompactGivesUp, Return, memory
<1>16. CASE SyncMerged
  BY <1>16, LenType DEF SyncMerged
<1>17. CASE RemoveFile
  <2>1. PICK f \in left :
          /\ pc = "remove"
          /\ left' = left \ {f}
          /\ \/ /\ dir' = dir \ {f}
                /\ files' = [files EXCEPT ![f] = <<>>]
                /\ durable' = [durable EXCEPT ![f] = 0]
             \/ UNCHANGED disk
          /\ UNCHANGED <<memory, pc, record, mergedFileID, newKeyDir, todo>>
    BY <1>17 DEF RemoveFile
  <2>2. <<>> \in Seq(Cell)
    BY EmptySeq
  <2>3. files' \in [FileIDs -> Seq(Cell)]
    BY <2>1, <2>2 DEF disk
  <2>4. durable' \in [FileIDs -> Nat]
    <3>1. [durable EXCEPT ![f] = 0] \in [FileIDs -> Nat]
      OBVIOUS
    <3>2. durable' = [durable EXCEPT ![f] = 0] \/ durable' = durable
      BY <2>1 DEF disk
    <3> QED BY <3>1, <3>2
  <2>5. dir' \subseteq FileIDs
    BY <2>1 DEF disk
  <2> QED BY <2>1, <2>3, <2>4, <2>5 DEF memory
<1>18. CASE Install
  BY <1>18, LenType, ConstantTypes DEF Install, Return, disk
<1>19. CASE Kill
  <2>1. files' \in [FileIDs -> Seq(Cell)]
    <3>1. CASE UNCHANGED files
      BY <3>1
    <3>2. CASE ~UNCHANGED files
      <4>1. pc = "write" /\ \E t \in Torn(Cells(record)) :
                                files' = [files EXCEPT ![currentFileID] = @ \o t]
        BY <1>19, <3>2 DEF Kill
      <4>2. Cells(record) \in Seq(Cell)
        BY <4>1, CellsType
      <4> QED BY <1>6, <4>1, <4>2
    <3> QED BY <3>1, <3>2
  <2> QED BY <1>19, <2>1, ConstantTypes DEF Kill, Die
<1>20. CASE PowerLoss
  <2>1. files' \in [FileIDs -> Seq(Cell)]
    <3>1. \A f \in Unsynced : \A t \in Survivors(files[f], durable[f]) : t \in Seq(Cell)
      BY SurvivorsType DEF Unsynced
    <3> QED BY <1>20, <3>1 DEF PowerLoss
  <2>2. durable' \in [FileIDs -> Nat]
    BY <1>20, <2>1, LenType DEF PowerLoss
  <2> QED BY <1>20, <2>1, <2>2, ConstantTypes DEF PowerLoss, Die
<1>21. CASE Restart
  <2>1. Recovered \in [Keys -> Location \cup {NoLoc}]
    BY LogLocation DEF Recovered, ReplayedLast, Records
  <2>2. currentFileID' \in FileIDs
    BY <1>21, ConstantTypes DEF Restart, IsLast
  <2> QED BY <1>21, <2>1, <2>2, LenType DEF Restart, compaction
<1>22. CASE RestartRefused
  BY <1>22 DEF RestartRefused, disk, memory, compaction
<1>23. CASE UNCHANGED vars
  BY <1>23 DEF vars, disk, memory, compaction
<1> QED
  BY <1>1, <1>2, <1>3, <1>4, <1>5, <1>7, <1>8, <1>9, <1>10, <1>11, <1>13, <1>14,
     <1>15, <1>16, <1>17, <1>18, <1>19, <1>20, <1>21, <1>22, <1>23
     DEF Next, LockHolder, Caller, Environment

(* The variables of the storage engine keep their types, whatever calls    *)
(* fail and wherever a crash falls.                                        *)
THEOREM TypeCorrect == Spec => []TypeOK
<1>0. <<>> \in Seq(Cell)
  BY EmptySeq
<1>1. Init => TypeOK
  BY <1>0, ConstantTypes, BoundAssumption DEF Init, TypeOK, FileIDs, Running
<1> QED BY <1>1, TypeStep, PTL DEF Spec

-----------------------------------------------------------------------------

(* One file of a directory grows, the others stay. *)
LEMMA AppendExtends ==
  ASSUME NEW fs \in [FileIDs -> Seq(Cell)], NEW f \in FileIDs, NEW t \in Seq(Cell),
         NEW g \in FileIDs
  PROVE  Extends(fs[g], [fs EXCEPT ![f] = @ \o t][g])
<1> DEFINE new == [fs EXCEPT ![f] = @ \o t][g]
<1>1. fs[g] \in Seq(Cell) /\ Len(fs[g]) \in Nat /\ Len(t) \in Nat
  BY LenProperties
<1>2. CASE g = f
  <2>1. new = fs[g] \o t
    BY <1>2
  <2> HIDE DEF new
  <2>2. /\ Len(new) = Len(fs[g]) + Len(t)
        /\ \A i \in 1 .. Len(fs[g]) : new[i] = fs[g][i]
    BY <1>1, <2>1, ConcatParts
  <2> QED BY <1>1, <2>2 DEF Extends
<1>3. CASE g # f
  BY <1>1, <1>3 DEF Extends
<1> QED BY <1>2, <1>3

(* A file extends itself. *)
LEMMA ExtendsItself ==
  ASSUME TypeOK, NEW f \in FileIDs
  PROVE  Extends(files[f], files[f])
BY LenProperties DEF TypeOK, Extends

(* Files that stay are only extended. *)
Kept == \A f \in dir \cap dir' : Extends(files[f], files'[f])

(* A step of a running process keeps the files it does not remove. *)
LEMMA StepKeepsLog ==
  TypeOK /\ [Next]_vars => (pc \in Running /\ pc' \in Running => Kept)
<1> SUFFICES ASSUME TypeOK, [Next]_vars, pc \in Running, pc' \in Running PROVE Kept
  OBVIOUS
<1>0. dir \subseteq FileIDs
  BY DEF TypeOK
<1>1. CASE UNCHANGED files
  BY <1>0, <1>1, ExtendsItself DEF Kept
<1>2. ASSUME NEW f \in FileIDs, NEW t \in Seq(Cell), files' = [files EXCEPT ![f] = @ \o t]
      PROVE  Kept
  BY <1>0, <1>2, AppendExtends DEF Kept, TypeOK
<1>3. pc = "write" => Cells(record) \in Seq(Cell)
  BY CellsType DEF TypeOK
<1>4. CASE AppendRecord
  BY <1>2, <1>3, <1>4 DEF AppendRecord, TypeOK
<1>5. CASE WriteFails
  <2>1. CASE \E t \in Torn(Cells(record)) : files' = [files EXCEPT ![currentFileID] = @ \o t]
    BY <1>2, <1>3, <1>5, <2>1, SurvivorsType DEF WriteFails, TypeOK
  <2> QED BY <1>1, <1>5, <2>1 DEF WriteFails
<1>6. CASE CompactBegin
  <2>1. PICK last \in dir : IsLast(last) /\ files' = [files EXCEPT ![last + 1] = <<>>]
    BY <1>6 DEF CompactBegin
  <2>2. last + 1 \notin dir
    BY <1>0, <2>1 DEF IsLast, FileIDs
  <2>3. \A f \in dir : files'[f] = files[f]
    BY <1>0, <2>1, <2>2 DEF TypeOK
  <2> QED BY <1>0, <2>3, ExtendsItself DEF Kept
<1>7. ASSUME NEW k \in Keys, Readable(keyDir[k]) PROVE Bytes(keyDir[k]) \in Seq(Cell)
  BY <1>7, BytesType DEF Readable, TypeOK
<1>8. ASSUME NEW k \in Keys, CopyRecord(k) PROVE Kept
  BY <1>2, <1>7, <1>8 DEF CopyRecord, TypeOK
<1>9. CASE CompactGivesUp
  <2>1. ASSUME NEW k \in todo, Readable(keyDir[k]), NEW t \in Torn(Bytes(keyDir[k])),
               files' = [files EXCEPT ![mergedFileID] = @ \o t]
        PROVE  Kept
    <3>1. Bytes(keyDir[k]) \in Seq(Cell)
      BY <1>7, <2>1 DEF TypeOK
    <3> QED BY <1>2, <2>1, <3>1, SurvivorsType DEF TypeOK
  <2> QED BY <1>1, <1>9, <2>1 DEF CompactGivesUp
<1>10. CASE RemoveFile
  <2>1. PICK f \in left : \/ dir' = dir \ {f} /\ files' = [files EXCEPT ![f] = <<>>]
                          \/ UNCHANGED files
    BY <1>10 DEF RemoveFile, disk
  <2>2. CASE dir' = dir \ {f} /\ files' = [files EXCEPT ![f] = <<>>]
    <3>1. \A g \in dir \cap dir' : files'[g] = files[g]
      BY <1>0, <2>2 DEF TypeOK
    <3> QED BY <1>0, <3>1, ExtendsItself DEF Kept
  <2> QED BY <1>1, <2>1, <2>2
<1>11. ASSUME Kill \/ PowerLoss PROVE FALSE
  BY <1>11 DEF Kill, PowerLoss, Die, Running
<1>12. ASSUME NEW k \in Keys, NEW v \in Values, Put(k, v) PROVE UNCHANGED files
  BY <1>12 DEF Put, disk
<1>13. ASSUME NEW k \in Keys, Delete(k) \/ SkipRecord(k) PROVE UNCHANGED files
  BY <1>13 DEF Delete, SkipRecord, disk
<1>14. ASSUME Rotate \/ RotateFails \/ Sync \/ SyncFails \/ Close \/ SyncMerged \/ Install
       PROVE  UNCHANGED files
  BY <1>14 DEF Rotate, RotateFails, Sync, SyncFails, Close, SyncMerged, Install, disk
<1>15. ASSUME Restart \/ RestartRefused \/ UNCHANGED vars PROVE UNCHANGED files
  BY <1>15 DEF Restart, RestartRefused, vars, disk
<1> QED
  BY <1>1, <1>4, <1>5, <1>6, <1>8, <1>9, <1>10, <1>11, <1>12, <1>13, <1>14, <1>15
     DEF Next, LockHolder, Caller, Environment

(* A step of a running process never rewrites or truncates a data file     *)
(* (README.md:49), for any failing system calls.                           *)
THEOREM LogIsAppendOnly == Spec => AppendOnly
<1>1. TypeOK /\ [Next]_vars =>
        [(pc \in Running /\ pc' \in Running) =>
           \A f \in dir \cap dir' : Extends(files[f], files'[f])]_vars
  BY StepKeepsLog DEF Kept
<1> QED BY <1>1, TypeCorrect, PTL DEF Spec, AppendOnly

(* So what lies at a location of a file that stays can still be read.      *)
LEMMA KeptBytes ==
  ASSUME TypeOK, TypeOK', Kept,
         NEW loc \in Location, loc.file \in dir \cap dir', InFile(loc)
  PROVE  InFile(loc)' /\ Bytes(loc)' = Bytes(loc)
<1>1. PICK s \in Seq(Cell), t \in Seq(Cell) : s = files[loc.file] /\ t = files'[loc.file]
  BY DEF TypeOK, Location
<1>2. /\ Len(s) \in Nat /\ Len(t) \in Nat /\ Len(s) <= Len(t)
      /\ \A i \in 1 .. Len(s) : s[i] = t[i]
  BY <1>1, LenProperties DEF Kept, Extends
<1>3. loc.offset \in Nat /\ loc.size \in Nat /\ loc.offset + loc.size <= Len(s)
  BY <1>1 DEF Location, InFile
<1>4. InFile(loc)'
  BY <1>1, <1>2, <1>3 DEF InFile
<1>5. /\ Bytes(loc) \in Seq(Cell) /\ Len(Bytes(loc)) = loc.size
      /\ \A i \in 1 .. loc.size : Bytes(loc)[i] = s[loc.offset + i]
  BY <1>1, BytesType
<1>6. /\ Bytes(loc)' \in Seq(Cell) /\ Len(Bytes(loc)') = loc.size
      /\ \A i \in 1 .. loc.size : Bytes(loc)'[i] = t[loc.offset + i]
  <2>1. /\ SubSeq(t, loc.offset + 1, loc.offset + loc.size) \in Seq(Cell)
        /\ Len(SubSeq(t, loc.offset + 1, loc.offset + loc.size)) = loc.size
        /\ \A i \in 1 .. loc.size :
             SubSeq(t, loc.offset + 1, loc.offset + loc.size)[i] = t[loc.offset + i]
    <3>1. PICK o \in Nat, n \in Nat : o = loc.offset /\ n = loc.size
      BY <1>3
    <3>2. \A i \in o + 1 .. o + n : t[i] \in Cell
      BY <1>2, <1>3, <3>1, ElementOfSeq
    <3>3. /\ SubSeq(t, o + 1, o + n) \in Seq(Cell)
          /\ Len(SubSeq(t, o + 1, o + n)) = n
          /\ \A i \in 1 .. n : SubSeq(t, o + 1, o + n)[i] = t[o + i]
      BY <3>2, SubSeqProperties, Z3
    <3> QED BY <3>1, <3>3
  <2> QED BY <1>1, <2>1 DEF Bytes
<1>7. \A i \in 1 .. loc.size : s[loc.offset + i] = t[loc.offset + i]
  BY <1>2, <1>3
<1> QED BY <1>3, <1>4, <1>5, <1>6, <1>7, SeqEqual

-----------------------------------------------------------------------------
(* The strengthening of NoDanglingLocation.  An open handle never has its  *)
(* offset behind the end of the file, for a failed write leaves the file   *)
(* longer.  While files are removed the old index is stale; the new one,   *)
(* and a handle that is still open, point to the merged file, which the    *)
(* delete loop does not reach.                                             *)
Held(loc) == loc # NoLoc => loc.file \in dir /\ InFile(loc)

Anchored ==
  /\ TypeOK
  /\ fileOpen =>
       /\ currentFileID \in dir
       /\ currentOffset <= Len(files[currentFileID])
  /\ pc = "sync" =>
       /\ fileOpen
       /\ currentOffset + Size(record) <= Len(files[currentFileID])
  /\ pc # "remove" => \A k \in Keys : Held(keyDir[k])
  /\ pc \in {"merge", "remove"} =>
       /\ mergedFileID \in dir
       /\ \A k \in Keys :
            /\ Held(newKeyDir[k])
            /\ newKeyDir[k] # NoLoc => newKeyDir[k].file = mergedFileID
  /\ pc = "remove" => mergedFileID \notin left /\ (fileOpen => currentFileID = mergedFileID)

(* A new map has no key. *)
LEMMA EmptyIndex == \A k \in Keys : EmptyKeyDir[k] = NoLoc
BY DEF EmptyKeyDir

(* Nothing is indexed at first. *)
LEMMA AnchoredInit == Init => Anchored
<1> SUFFICES ASSUME Init PROVE Anchored
  OBVIOUS
<1>1. <<>> \in Seq(Cell)
  BY EmptySeq
<1>2. TypeOK
  BY <1>1, ConstantTypes, BoundAssumption DEF Init, TypeOK, FileIDs, Running
<1> QED BY <1>2, EmptyIndex DEF Init, Anchored, Held

(* What locations, old or new, and the open handle had before a step of a  *)
(* running process, they have after it.                                    *)
LEMMA StepKeepsLocations ==
  ASSUME TypeOK, TypeOK', Kept
  PROVE  /\ \A loc \in Location \cup {NoLoc} :
              Held(loc) /\ (loc # NoLoc => loc.file \in dir') => Held(loc)'
         /\ \A f \in dir \cap dir' : \A n \in Nat : n <= Len(files[f]) => n <= Len(files'[f])
<1>1. \A f \in FileIDs : Len(files[f]) \in Nat /\ Len(files'[f]) \in Nat
  BY LenType DEF TypeOK
<1>2. \A f \in dir \cap dir' : Len(files[f]) <= Len(files'[f])
  BY DEF Kept, Extends
<1>3. dir \subseteq FileIDs
  BY DEF TypeOK
<1>4. ASSUME NEW loc \in Location \cup {NoLoc}, Held(loc), loc # NoLoc => loc.file \in dir'
      PROVE  Held(loc)'
  BY <1>4, KeptBytes DEF Held
<1> QED BY <1>1, <1>2, <1>3, <1>4

(* A step that leaves the index, the handle and the directory alone keeps  *)
(* the invariant.                                                          *)
LEMMA QuietStep ==
  ASSUME Anchored, TypeOK', Kept, pc # "remove", pc' \notin {"sync", "merge", "remove"},
         dir \subseteq dir', UNCHANGED <<keyDir, currentFileID, currentOffset>>,
         fileOpen' => fileOpen
  PROVE  Anchored'
<1>0. TypeOK
  BY DEF Anchored
<1>1. /\ \A loc \in Location \cup {NoLoc} :
           Held(loc) /\ (loc # NoLoc => loc.file \in dir') => Held(loc)'
      /\ \A f \in dir : \A n \in Nat : n <= Len(files[f]) => n <= Len(files'[f])
  BY <1>0, StepKeepsLocations
<1>2. (\A k \in Keys : Held(keyDir[k]))'
  <2> SUFFICES ASSUME NEW k \in Keys PROVE Held(keyDir[k])'
    OBVIOUS
  <2>1. PICK loc \in Location \cup {NoLoc} : loc = keyDir[k]
    BY <1>0 DEF TypeOK
  <2>2. Held(loc) /\ (loc # NoLoc => loc.file \in dir')
    BY <2>1 DEF Anchored, Held
  <2>3. Held(loc)'
    BY <1>1, <2>2
  <2> QED BY <2>1, <2>3 DEF Held, InFile
<1>3. fileOpen' => currentFileID \in dir' /\ currentOffset <= Len(files'[currentFileID])
  BY <1>1 DEF Anchored, TypeOK
<1> QED BY <1>2, <1>3 DEF Anchored

(* The bytes copied to the end of the merged file are those the location   *)
(* of the old index had, as many as it says.                               *)
LEMMA CopiedBytes ==
  ASSUME Anchored, TypeOK', NEW key \in Keys, CopyRecord(key)
  PROVE  /\ newKeyDir'[key] \in Location
         /\ newKeyDir'[key].file = mergedFileID
         /\ InFile(newKeyDir[key])'
         /\ Bytes(newKeyDir[key])' = Bytes(keyDir[key])
<1>1. PICK loc \in Location, m \in FileIDs, s \in Seq(Cell), b \in Seq(Cell) :
        /\ loc = keyDir[key] /\ m = mergedFileID /\ s = files[mergedFileID] /\ b = Bytes(loc)
        /\ Len(b) = loc.size
  <2>1. keyDir[key] \in Location /\ InFile(keyDir[key])
    BY DEF CopyRecord, Readable, Anchored, TypeOK
  <2> QED BY <2>1, BytesType DEF Anchored, TypeOK
<1>2. Len(s) \in Nat /\ loc.size \in Nat
  BY LenProperties DEF Location
<1>3. PICK new \in Location : new = [file |-> m, offset |-> Len(s), size |-> loc.size]
  BY <1>2 DEF Location
<1>4. newKeyDir'[key] = new
  BY <1>1, <1>3 DEF CopyRecord, Anchored, TypeOK
<1>5. files'[m] = s \o b
  BY <1>1 DEF CopyRecord, Anchored, TypeOK
<1>6. Len(s \o b) = Len(s) + Len(b) /\ SubSeq(s \o b, Len(s) + 1, Len(s) + Len(b)) = b
  BY ConcatParts, ConcatTail
<1>7. new.file = m /\ new.offset = Len(s) /\ new.size = Len(b)
  BY <1>1, <1>3
<1>8. new.offset + new.size <= Len(files'[new.file])
  <2>1. Len(files'[new.file]) = Len(s) + Len(b)
    BY <1>5, <1>6, <1>7
  <2>2. Len(s) + Len(b) \in Nat
    BY <1>1, <1>2
  <2> QED BY <1>7, <2>1, <2>2
<1>9. SubSeq(files'[new.file], new.offset + 1, new.offset + new.size) = b
  BY <1>5, <1>6, <1>7
<1>10. InFile(newKeyDir[key])' /\ Bytes(newKeyDir[key])' = b
  BY <1>4, <1>8, <1>9 DEF InFile, Bytes
<1> QED BY <1>1, <1>4, <1>7, <1>10

(* Every action keeps the invariant, whatever calls fail. *)
LEMMA AnchoredStep == Anchored /\ [Next]_vars => Anchored'
<1> SUFFICES ASSUME Anchored, [Next]_vars PROVE Anchored'
  OBVIOUS
<1>0. TypeOK /\ TypeOK' /\ (pc \in Running /\ pc' \in Running => Kept)
  BY TypeStep, StepKeepsLog DEF Anchored
<1>1. ASSUME NEW k \in Keys, NEW v \in Values, Put(k, v) PROVE Anchored'
  BY <1>0, <1>1, QuietStep DEF Put, disk, memory, Running
<1>2. ASSUME NEW k \in Keys, Delete(k) PROVE Anchored'
  BY <1>0, <1>2, QuietStep DEF Delete, disk, memory, Running
<1>3. ASSUME pc \in Running, pc' \in Running, pc # "remove"
      PROVE  /\ \A loc \in Location \cup {NoLoc} :
                  Held(loc) /\ (loc # NoLoc => loc.file \in dir') => Held(loc)'
             /\ \A f \in dir \cap dir' : \A n \in Nat : n <= Len(files[f]) => n <= Len(files'[f])
             /\ dir \subseteq dir' /\ keyDir' = keyDir => (\A k \in Keys : Held(keyDir[k]))'
  <2>1. /\ \A loc \in Location \cup {NoLoc} :
             Held(loc) /\ (loc # NoLoc => loc.file \in dir') => Held(loc)'
        /\ \A f \in dir \cap dir' : \A n \in Nat : n <= Len(files[f]) => n <= Len(files'[f])
    BY <1>0, <1>3, StepKeepsLocations
  <2>2. ASSUME dir \subseteq dir', keyDir' = keyDir, NEW k \in Keys PROVE Held(keyDir[k])'
    <3>1. PICK loc \in Location \cup {NoLoc} : loc = keyDir[k]
      BY <1>0 DEF TypeOK
    <3>2. Held(loc) /\ (loc # NoLoc => loc.file \in dir')
      BY <1>3, <2>2, <3>1 DEF Anchored, Held
    <3> QED BY <2>1, <2>2, <3>1, <3>2 DEF Held, InFile
  <2> QED BY <2>1, <2>2
<1>4. CASE Rotate
  <2>1. (\A k \in Keys : Held(keyDir[k]))'
    BY <1>3, <1>4 DEF Rotate, Running
  <2>2. currentFileID' \in dir' /\ currentOffset' <= Len(files'[currentFileID'])
    <3>1. currentFileID' \in dir' /\ currentOffset' = Len(files'[currentFileID'])
      BY <1>4 DEF Rotate
    <3> QED BY <1>0, <3>1, LenType DEF TypeOK
  <2> QED BY <1>0, <1>4, <2>1, <2>2 DEF Rotate, Anchored
<1>5. CASE RotateFails
  <2>1. (\A k \in Keys : Held(keyDir[k]))'
    BY <1>3, <1>5 DEF RotateFails, Return, disk, Running
  <2> QED BY <1>0, <1>5, <2>1 DEF RotateFails, Return, disk, Anchored
<1>6. CASE AppendRecord
  <2>1. (\A k \in Keys : Held(keyDir[k]))'
    BY <1>3, <1>6 DEF AppendRecord, memory, Running
  <2>2. currentFileID \in dir /\ currentOffset <= Len(files[currentFileID])
    BY <1>6 DEF AppendRecord, Anchored
  <2>3. currentOffset + Size(record) <= Len(files'[currentFileID])
    <3>1. PICK s \in Seq(Cell), t \in Seq(Cell) :
            s = files[currentFileID] /\ t = Cells(record) /\ Len(t) = Size(record)
      BY <1>0, <1>6, CellsType DEF TypeOK, AppendRecord
    <3>2. files'[currentFileID] = s \o t
      BY <1>0, <1>6, <3>1 DEF AppendRecord, TypeOK
    <3>3. Len(s \o t) = Len(s) + Len(t) /\ Len(s) \in Nat /\ Len(t) \in Nat
      BY ConcatParts, LenProperties
    <3> QED BY <1>0, <2>2, <3>1, <3>2, <3>3 DEF TypeOK
  <2>4. Size(record) \in Nat
    BY <1>0, <1>6, CellsType DEF AppendRecord, TypeOK
  <2>5. Len(files'[currentFileID]) \in Nat
    BY <1>0, LenType DEF TypeOK
  <2>6. currentOffset <= Len(files'[currentFileID])
    BY <1>0, <2>3, <2>4, <2>5 DEF TypeOK
  <2>7. /\ pc' = "sync" /\ fileOpen' /\ dir' = dir /\ UNCHANGED <<currentFileID, currentOffset, record>>
    BY <1>6 DEF AppendRecord, memory
  <2>8. Size(record)' = Size(record)
    BY <2>7 DEF Size
  <2> QED BY <1>0, <2>1, <2>2, <2>3, <2>6, <2>7, <2>8 DEF Anchored
<1>7. CASE WriteFails
  BY <1>0, <1>7, QuietStep DEF WriteFails, Return, memory, Running
<1>8. CASE Sync
  <2>1. /\ currentFileID \in dir /\ record \in Record /\ fileOpen
        /\ currentOffset + Size(record) <= Len(files[currentFileID])
        /\ pc = "sync" /\ pc' = "idle" /\ UNCHANGED <<dir, files, currentFileID, fileOpen>>
        /\ currentOffset' = currentOffset + Size(record)
    BY <1>0, <1>8 DEF Sync, Return, Anchored, TypeOK
  <2>2. Held(RecordLocation) /\ RecordLocation \in Location
    BY <1>0, <2>1, CellsType DEF Held, RecordLocation, InFile, Location, TypeOK
  <2>3. \A k \in Keys : keyDir'[k] \in {keyDir[k], NoLoc, RecordLocation}
    BY <1>0, <1>8 DEF Sync, TypeOK
  <2>4. \A k \in Keys : Held(keyDir[k])
    BY <2>1 DEF Anchored
  <2>5. (\A k \in Keys : Held(keyDir[k]))'
    <3> SUFFICES ASSUME NEW k \in Keys PROVE Held(keyDir[k])'
      OBVIOUS
    <3>1. PICK new : new = keyDir'[k]
      OBVIOUS
    <3>2. Held(new)
      BY <2>2, <2>3, <2>4, <3>1 DEF Held
    <3> QED BY <2>1, <3>1, <3>2 DEF Held, InFile
  <2> QED BY <1>0, <2>1, <2>5 DEF Anchored
<1>9. CASE SyncFails
  BY <1>0, <1>9 DEF SyncFails, Return, disk, memory, Anchored, Held, InFile
<1>10. CASE Close
  BY <1>0, <1>10, QuietStep DEF Close, disk, Running
<1>11. CASE CompactBegin
  <2>1. (\A k \in Keys : Held(keyDir[k]))'
    BY <1>3, <1>11 DEF CompactBegin, memory, Running
  <2>2. fileOpen' => currentFileID' \in dir' /\ currentOffset' <= Len(files'[currentFileID'])
    BY <1>0, <1>3, <1>11 DEF CompactBegin, memory, Running, Anchored, TypeOK
  <2>3. mergedFileID' \in dir' /\ newKeyDir' = EmptyKeyDir /\ pc' = "merge"
    BY <1>11 DEF CompactBegin
  <2> QED BY <1>0, <2>1, <2>2, <2>3, EmptyIndex DEF Anchored, Held
<1>12. ASSUME pc = "merge", pc' \in {"idle", "merge", "remove"},
              UNCHANGED <<dir, keyDir, currentFileID, currentOffset>>,
              pc' \in {"merge", "remove"} => UNCHANGED <<mergedFileID, newKeyDir>>,
              fileOpen' => fileOpen,
              pc' = "remove" =>
                mergedFileID \notin left' /\ (fileOpen' => currentFileID = mergedFileID)
       PROVE  Anchored'
  <2>1. (\A k \in Keys : Held(keyDir[k]))'
    BY <1>3, <1>12 DEF Running
  <2>2. fileOpen' => currentFileID' \in dir' /\ currentOffset' <= Len(files'[currentFileID'])
    BY <1>0, <1>3, <1>12 DEF Running, Anchored, TypeOK
  <2>3. ASSUME pc' # "idle", NEW k \in Keys
        PROVE  Held(newKeyDir[k])' /\ (newKeyDir'[k] # NoLoc => newKeyDir'[k].file = mergedFileID')
    <3>1. PICK loc \in Location \cup {NoLoc} : loc = newKeyDir[k]
      BY <1>0 DEF TypeOK
    <3>2. Held(loc) /\ (loc # NoLoc => loc.file = mergedFileID)
      BY <1>12, <3>1 DEF Anchored
    <3>3. Held(loc)'
      BY <1>3, <1>12, <3>2 DEF Running, Held
    <3> QED BY <1>12, <2>3, <3>1, <3>2, <3>3 DEF Held, InFile
  <2> QED BY <1>0, <1>12, <2>1, <2>2, <2>3 DEF Anchored
<1>13. ASSUME NEW key \in Keys, CopyRecord(key) PROVE Anchored'
  <2>1. /\ pc = "merge" /\ pc' = "merge"
        /\ UNCHANGED <<dir, keyDir, currentFileID, currentOffset, fileOpen, mergedFileID>>
    BY <1>13 DEF CopyRecord, memory
  <2>2. (\A k \in Keys : Held(keyDir[k]))'
    BY <1>3, <2>1 DEF Running
  <2>3. fileOpen' => currentFileID' \in dir' /\ currentOffset' <= Len(files'[currentFileID'])
    BY <1>0, <1>3, <2>1 DEF Running, Anchored, TypeOK
  <2>4. ASSUME NEW k \in Keys
        PROVE  Held(newKeyDir[k])' /\ (newKeyDir'[k] # NoLoc => newKeyDir'[k].file = mergedFileID)
    <3>1. CASE k = key
      BY <1>0, <1>13, <2>1, <3>1, CopiedBytes DEF Held, Anchored
    <3>2. CASE k # key
      <4>1. PICK loc \in Location \cup {NoLoc} : loc = newKeyDir[k] /\ loc = newKeyDir'[k]
        BY <1>0, <1>13, <3>2 DEF CopyRecord, TypeOK
      <4>2. Held(loc) /\ (loc # NoLoc => loc.file = mergedFileID)
        BY <2>1, <4>1 DEF Anchored
      <4>3. Held(loc)'
        BY <1>3, <2>1, <4>2 DEF Running, Held
      <4> QED BY <4>1, <4>2, <4>3 DEF Held, InFile
    <3> QED BY <3>1, <3>2
  <2> QED BY <1>0, <2>1, <2>2, <2>3, <2>4 DEF Anchored
<1>14. ASSUME NEW k \in Keys, SkipRecord(k) PROVE Anchored'
  BY <1>12, <1>14 DEF SkipRecord, disk, memory
<1>15. CASE CompactGivesUp
  BY <1>12, <1>15 DEF CompactGivesUp, Return, memory
<1>16. CASE SyncMerged
  <2>1. mergedFileID \notin left'
    BY <1>0, <1>16 DEF SyncMerged, TypeOK, FileIDs
  <2> QED BY <1>12, <1>16, <2>1 DEF SyncMerged
<1>17. CASE RemoveFile
  <2>1. PICK f \in left :
          /\ pc = "remove" /\ pc' = pc
          /\ left' = left \ {f}
          /\ dir' = dir \ {f} \/ dir' = dir
          /\ files' = [files EXCEPT ![f] = <<>>] \/ files' = files
          /\ UNCHANGED <<memory, mergedFileID, newKeyDir>>
    BY <1>17 DEF RemoveFile, disk
  <2>2. f # mergedFileID /\ mergedFileID \in dir' /\ mergedFileID \notin left'
    BY <2>1 DEF Anchored
  <2>3. files'[mergedFileID] = files[mergedFileID]
    BY <1>0, <2>1, <2>2 DEF TypeOK
  <2>4. fileOpen' => currentFileID' = mergedFileID /\ currentOffset <= Len(files'[mergedFileID])
    BY <2>1, <2>3 DEF memory, Anchored
  <2>5. ASSUME NEW k \in Keys
        PROVE  Held(newKeyDir[k])' /\ (newKeyDir'[k] # NoLoc => newKeyDir'[k].file = mergedFileID')
    BY <2>1, <2>2, <2>3 DEF Anchored, Held, InFile
  <2> QED BY <1>0, <2>1, <2>2, <2>4, <2>5 DEF memory, Anchored
<1>18. CASE Install
  <2>1. /\ pc = "remove" /\ pc' = "idle" /\ UNCHANGED <<dir, files>>
        /\ keyDir' = newKeyDir /\ currentFileID' = mergedFileID
        /\ currentOffset' = Len(files[mergedFileID])
    BY <1>18 DEF Install, Return, disk
  <2>2. Len(files[mergedFileID]) \in Nat
    BY <1>0, LenType DEF TypeOK
  <2>3. (\A k \in Keys : Held(keyDir[k]))'
    BY <2>1 DEF Anchored, Held, InFile
  <2> QED BY <1>0, <2>1, <2>2, <2>3 DEF Anchored
<1>19. CASE Kill
  BY <1>0, <1>19, EmptyIndex DEF Kill, Die, Anchored, Held
<1>20. CASE PowerLoss
  BY <1>0, <1>20, EmptyIndex DEF PowerLoss, Die, Anchored, Held
<1>21. CASE Restart
  <2>1. /\ pc' = "idle" /\ keyDir' = Recovered /\ files' = files /\ dir \subseteq dir'
        /\ currentFileID' \in dir' /\ currentOffset' = Len(files[currentFileID'])
    BY <1>21 DEF Restart
  <2>2. (\A k \in Keys : Held(keyDir[k]))'
    <3> SUFFICES ASSUME NEW k \in Keys, Recovered[k] # NoLoc
                 PROVE  Recovered[k].file \in dir' /\ InFile(Recovered[k])
      BY <2>1 DEF Held, InFile
    <3>1. ReplayedLast(k) \subseteq Log
      BY DEF ReplayedLast, Records
    <3>2. Recovered[k] \in Log
      BY <3>1 DEF Recovered
    <3> QED BY <1>0, <2>1, <3>2, LogLocation
  <2>3. Len(files[currentFileID']) \in Nat
    BY <1>0, LenType DEF TypeOK
  <2> QED BY <1>0, <2>1, <2>2, <2>3 DEF Anchored
<1>22. CASE RestartRefused
  BY <1>0, <1>22 DEF RestartRefused, disk, memory, compaction, Anchored, Held, InFile
<1>23. CASE UNCHANGED vars
  BY <1>0, <1>23 DEF vars, disk, memory, compaction, Anchored, Held, InFile, Size
<1> QED
  BY <1>1, <1>2, <1>4, <1>5, <1>6, <1>7, <1>8, <1>9, <1>10, <1>11, <1>13, <1>14, <1>15,
     <1>16, <1>17, <1>18, <1>19, <1>20, <1>21, <1>22, <1>23
     DEF Next, LockHolder, Caller, Environment

(* The invariant says where locations and the open handle are. *)
LEMMA AnchoredSafe == Anchored => NoDanglingLocation
<1> SUFFICES ASSUME Anchored PROVE NoDanglingLocation
  OBVIOUS
<1> QED BY DEF Anchored, NoDanglingLocation, Index, Held

(* The index and the open handle stay inside the files of the directory,   *)
(* for any failing system calls and any crashes (compaction.go:126-168     *)
(* installs the index only after the old files are gone).                  *)
THEOREM LocationsAreAnchored == Spec => []NoDanglingLocation
BY AnchoredInit, AnchoredStep, AnchoredSafe, PTL DEF Spec
-----------------------------------------------------------------------------
(* What the copy loop has put into the new index are the bytes the old one *)
(* leads to, as many as it says.                                           *)
Copied ==
  /\ Anchored
  /\ pc = "merge" =>
       \A k \in Keys : newKeyDir[k] # NoLoc =>
         /\ keyDir[k] # NoLoc
         /\ Bytes(newKeyDir[k]) = Bytes(keyDir[k])

(* The bytes at a location held before a step of a running process are     *)
(* there after it, unless the file is removed.                             *)
LEMMA StepKeepsBytes ==
  ASSUME Anchored, [Next]_vars, pc \in Running, pc' \in Running,
         NEW loc \in Location \cup {NoLoc}, loc # NoLoc => Held(loc) /\ loc.file \in dir'
  PROVE  loc # NoLoc => Bytes(loc)' = Bytes(loc)
<1>1. TypeOK /\ TypeOK' /\ Kept
  BY TypeStep, StepKeepsLog DEF Anchored
<1> QED BY <1>1, KeptBytes DEF Held

(* The copy of one record. *)
LEMMA CopyKeepsCopied ==
  ASSUME Copied, [Next]_vars, NEW key \in Keys, CopyRecord(key), NEW k \in Keys,
         newKeyDir'[k] # NoLoc
  PROVE  keyDir'[k] # NoLoc /\ Bytes(newKeyDir[k])' = Bytes(keyDir[k])'
<1>1. Anchored /\ TypeOK /\ TypeOK'
  BY TypeStep DEF Copied, Anchored
<1>2. /\ pc = "merge" /\ pc' = "merge" /\ UNCHANGED <<dir, keyDir>>
      /\ Readable(keyDir[key])
  BY DEF CopyRecord, memory
<1>3. ASSUME keyDir[k] # NoLoc
      PROVE  Bytes(keyDir[k])' = Bytes(keyDir[k])
  <2>1. PICK loc \in Location \cup {NoLoc} : loc = keyDir[k]
    BY <1>1 DEF TypeOK
  <2>2. Bytes(loc)' = Bytes(loc)
    BY <1>1, <1>2, <1>3, <2>1, StepKeepsBytes DEF Anchored, Held, Running
  <2> QED BY <1>2, <2>1, <2>2 DEF Bytes
<1>4. CASE k = key
  BY <1>1, <1>2, <1>3, <1>4, CopiedBytes DEF Readable
<1>5. CASE k # key
  <2>1. newKeyDir'[k] = newKeyDir[k]
    BY <1>1, <1>5 DEF CopyRecord, TypeOK
  <2>2. PICK new \in Location \cup {NoLoc} : new = newKeyDir[k]
    BY <1>1 DEF TypeOK
  <2>3. keyDir[k] # NoLoc /\ Bytes(new) = Bytes(keyDir[k])
    BY <1>2, <2>1, <2>2 DEF Copied
  <2>4. Bytes(new)' = Bytes(new)
    BY <1>1, <1>2, <2>1, <2>2, StepKeepsBytes DEF Anchored, Held, Running
  <2>5. Bytes(newKeyDir[k])' = Bytes(new)'
    BY <2>1, <2>2 DEF Bytes
  <2> QED BY <1>2, <1>3, <2>3, <2>4, <2>5
<1> QED BY <1>4, <1>5

(* The copy loop is the only place where Copied is at stake. *)
LEMMA CopiedStep == Copied /\ [Next]_vars => Copied'
<1> SUFFICES ASSUME Copied, [Next]_vars PROVE Copied'
  OBVIOUS
<1>1. Anchored /\ Anchored'
  BY AnchoredStep DEF Copied
<1>2. CASE pc' # "merge"
  BY <1>1, <1>2 DEF Copied
<1>3. CASE CompactBegin
  BY <1>1, <1>3, EmptyIndex DEF CompactBegin, Copied
<1>4. ASSUME NEW k \in Keys, CopyRecord(k) PROVE Copied'
  BY <1>1, <1>4, CopyKeepsCopied DEF Copied
<1>5. ASSUME pc = "merge", UNCHANGED <<files, keyDir, newKeyDir>>
      PROVE  Copied'
  BY <1>1, <1>5 DEF Copied, Bytes
<1>6. ASSUME NEW k \in Keys, SkipRecord(k) PROVE Copied'
  BY <1>5, <1>6 DEF SkipRecord, disk, memory
<1>7. CASE UNCHANGED vars
  BY <1>2, <1>5, <1>7 DEF vars, disk, memory, compaction
<1>8. ASSUME pc' = "merge"
      PROVE  \/ CompactBegin \/ UNCHANGED vars
             \/ \E k \in Keys : CopyRecord(k) \/ SkipRecord(k)
  BY <1>8 DEF Next, LockHolder, Caller, Environment, Put, Delete, Rotate, RotateFails,
              AppendRecord, WriteFails, Sync, SyncFails, Close, CompactGivesUp, SyncMerged,
              RemoveFile, Install, Kill, PowerLoss, Die, Restart, RestartRefused, Return
<1> QED BY <1>2, <1>3, <1>4, <1>6, <1>7, <1>8

(* While Compact holds bc.mu, only it takes steps, unless the process dies. *)
LEMMA CompactionSteps ==
  ASSUME [Next]_vars, pc \in {"merge", "remove"}, pc' \in Running
  PROVE  \/ CompactGivesUp \/ SyncMerged \/ RemoveFile \/ Install \/ UNCHANGED vars
         \/ \E key \in Keys : CopyRecord(key) \/ SkipRecord(key)
BY DEF Next, LockHolder, Caller, Environment, Put, Delete, Rotate, RotateFails,
       AppendRecord, WriteFails, Sync, SyncFails, Close, CompactBegin,
       Kill, PowerLoss, Die, Restart, RestartRefused, Running

(* Each step of a compaction reads for a key the bytes the step before     *)
(* did, or nothing.                                                        *)
LEMMA StepNeverSwaps ==
  ASSUME Copied, [Next]_vars, pc \in {"merge", "remove"}, pc' \in Running, NEW k \in Keys
  PROVE  Reading(k)' \subseteq Reading(k)
<1>1. TypeOK /\ Anchored /\ pc \in Running
  BY DEF Copied, Anchored, Running
<1>2. ASSUME NEW idx \in [Keys -> Location \cup {NoLoc}], idx = Index, idx = Index',
             idx[k] # NoLoc => Held(idx[k]) /\ idx[k].file \in dir'
      PROVE  Reading(k)' \subseteq Reading(k)
  <2>1. PICK loc \in Location \cup {NoLoc} : loc = idx[k]
    OBVIOUS
  <2>2. loc # NoLoc => Bytes(loc)' = Bytes(loc)
    BY <1>1, <1>2, <2>1, StepKeepsBytes
  <2>3. Reading(k) = {r \in Record : loc # NoLoc /\ Bytes(loc) = Cells(r)}
    BY <1>2, <2>1 DEF Reading
  <2>4. Reading(k)' = {r \in Record : loc # NoLoc /\ Bytes(loc)' = Cells(r)}
    BY <1>2, <2>1 DEF Reading, Bytes
  <2> QED BY <2>2, <2>3, <2>4
<1>3. ASSUME pc = "merge", pc' # "remove", dir' = dir, keyDir' = keyDir
      PROVE  Reading(k)' \subseteq Reading(k)
  <2>1. Index = keyDir /\ Index' = keyDir /\ Held(keyDir[k])
    BY <1>1, <1>3 DEF Index, Anchored
  <2> QED BY <1>1, <1>2, <1>3, <2>1 DEF TypeOK, Held
<1>4. ASSUME NEW key \in Keys, CopyRecord(key) \/ SkipRecord(key)
      PROVE  Reading(k)' \subseteq Reading(k)
  BY <1>3, <1>4 DEF CopyRecord, SkipRecord, disk, memory
<1>5. CASE CompactGivesUp
  BY <1>3, <1>5 DEF CompactGivesUp, Return, memory
<1>6. CASE SyncMerged
  <2>1. /\ pc = "merge" /\ pc' = "remove" /\ UNCHANGED <<files, keyDir, newKeyDir>>
        /\ Index = keyDir /\ Index' = newKeyDir
    BY <1>6 DEF SyncMerged, Index
  <2>2. newKeyDir[k] # NoLoc => keyDir[k] # NoLoc /\ Bytes(newKeyDir[k]) = Bytes(keyDir[k])
    BY <2>1 DEF Copied
  <2>3. Reading(k) = {r \in Record : keyDir[k] # NoLoc /\ Bytes(keyDir[k]) = Cells(r)}
    BY <2>1 DEF Reading
  <2>4. Reading(k)' = {r \in Record : newKeyDir[k] # NoLoc /\ Bytes(newKeyDir[k]) = Cells(r)}
    BY <2>1 DEF Reading, Bytes
  <2> QED BY <2>2, <2>3, <2>4
<1>7. ASSUME pc = "remove", mergedFileID \in dir', newKeyDir = Index, newKeyDir = Index'
      PROVE  Reading(k)' \subseteq Reading(k)
  <2>1. newKeyDir[k] # NoLoc => Held(newKeyDir[k]) /\ newKeyDir[k].file = mergedFileID
    BY <1>1, <1>7 DEF Anchored
  <2> QED BY <1>1, <1>2, <1>7, <2>1 DEF TypeOK
<1>8. CASE RemoveFile
  <2>1. pc = "remove" /\ pc' = "remove" /\ newKeyDir' = newKeyDir /\ mergedFileID \in dir'
    <3>1. PICK f \in left : dir' = dir \ {f} \/ dir' = dir
      BY <1>8 DEF RemoveFile, disk
    <3> QED BY <1>1, <1>8, <3>1 DEF RemoveFile, Anchored
  <2> QED BY <1>7, <2>1 DEF Index
<1>9. CASE Install
  BY <1>1, <1>7, <1>9 DEF Install, Return, Index, disk, Anchored
<1>10. CASE UNCHANGED vars
  BY <1>10 DEF vars, disk, memory, compaction, Index, Reading, Bytes
<1>11. \/ CompactGivesUp \/ SyncMerged \/ RemoveFile \/ Install \/ UNCHANGED vars
       \/ \E key \in Keys : CopyRecord(key) \/ SkipRecord(key)
  BY CompactionSteps
<1> QED BY <1>4, <1>5, <1>6, <1>8, <1>9, <1>10, <1>11

(* A compaction may lose a key whose record it cannot read                 *)
(* (compaction.go:92), but whatever calls fail, and whatever sizes they    *)
(* have made the index hold, it never gives a key another record than the  *)
(* one it had, nor a record to a key that had none.                        *)
THEOREM CompactionSwapsNothing == Spec => CompactionNeverSwaps
<1>1. Init => Copied
  BY AnchoredInit DEF Init, Copied
<1>2. Copied /\ [Next]_vars =>
        [(pc \in {"merge", "remove"} /\ pc' \in Running) =>
           \A k \in Keys : Reading(k)' \subseteq Reading(k)]_vars
  BY StepNeverSwaps
<1> QED BY <1>1, <1>2, CopiedStep, PTL DEF Spec, CompactionNeverSwaps
=============================================================================
