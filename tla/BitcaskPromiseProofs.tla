------------------------ MODULE BitcaskPromiseProofs ------------------------
(***************************************************************************)
(* The storage engine implements KVStore: what it does with files, offsets *)
(* and an index is, step by step, what KVStore promises to a caller.       *)
(***************************************************************************)
EXTENDS BitcaskIndexProofs, WellFoundedInduction

(* A non-empty set of naturals that a number bounds has a greatest element. *)
LEMMA GreatestExists ==
  ASSUME NEW S \in SUBSET Nat, S # {}, NEW n \in Nat, \A x \in S : x <= n
  PROVE  \E x \in S : \A y \in S : y <= x
<1> DEFINE R == OpToRel(<, Nat)
           T == {x \in Nat : n - x \in S}
<1>1. IsWellFoundedOn(R, Nat)
  BY NatLessThanWellFounded
<1>2. \A x, y \in Nat : <<x, y>> \in R <=> x < y
  BY DEF OpToRel
<1>3. T \subseteq Nat /\ T # {}
  <2>1. PICK x \in S : TRUE
    OBVIOUS
  <2>2. x \in Nat /\ x <= n
    OBVIOUS
  <2>3. n - x \in Nat /\ n - (n - x) = x
    BY <2>2
  <2>4. n - x \in T
    BY <2>1, <2>3
  <2> QED BY <2>4
<1> HIDE DEF R
<1>4. PICK x \in T : \A y \in T : ~(<<y, x>> \in R)
  BY <1>1, <1>3, WFMin
<1>5. n - x \in S /\ x \in Nat
  OBVIOUS
<1>6. ASSUME NEW y \in S PROVE y <= n - x
  <2>1. y \in Nat /\ y <= n
    BY <1>6
  <2>2. n - y \in Nat /\ n - (n - y) = y
    BY <2>1
  <2>3. n - y \in T
    BY <1>6, <2>2
  <2>4. ~(n - y < x)
    BY <1>2, <1>4, <1>5, <2>2, <2>3
  <2> QED BY <1>5, <2>1, <2>4
<1> QED BY <1>5, <1>6

-----------------------------------------------------------------------------
(* The newest record of a key. *)

(* A key with a record has a newest one. *)
LEMMA NewestExists ==
  ASSUME TypeOK, NEW k, Records(k) # {}
  PROVE  Newest(k) # {}
<1> DEFINE F == {l.file : l \in Records(k)}
<1>1. \A l \in Records(k) : l \in Log /\ l \in Location /\ WholeAt(l.file, l.offset)
  BY LogLocation DEF Records
<1>2. F \in SUBSET Nat /\ F # {} /\ \A f \in F : f <= MaxFileID /\ f \in FileIDs
  BY <1>1, BoundAssumption DEF Location, FileIDs
<1>3. PICK f \in F : \A g \in F : g <= f
  BY <1>2, GreatestExists, BoundAssumption
<1> DEFINE N == {l.offset : l \in {m \in Records(k) : m.file = f}}
<1>4. /\ N \in SUBSET Nat /\ N # {} /\ Len(files[f]) \in Nat
      /\ \A n \in N : n <= Len(files[f])
  <2>1. N \in SUBSET Nat /\ N # {}
    BY <1>1 DEF Location
  <2>2. Len(files[f]) \in Nat
    BY <1>2, LenType DEF TypeOK
  <2>3. \A m \in Records(k) : m.file = f => m.offset < Len(files[f]) /\ m.offset \in Nat
    BY <1>1 DEF WholeAt, Location
  <2> QED BY <2>1, <2>2, <2>3
<1>5. PICK n \in N : \A o \in N : o <= n
  BY <1>4, GreatestExists
<1>6. PICK l \in Records(k) : l.file = f /\ l.offset = n
  OBVIOUS
<1>7. ASSUME NEW m \in Records(k) PROVE ~After(m, l)
  <2>1. m.file <= f /\ m.file \in Nat /\ f \in Nat
    BY <1>2, <1>3
  <2>2. m.file = f => m.offset <= n /\ m.offset \in Nat /\ n \in Nat
    BY <1>4, <1>5
  <2> QED BY <1>6, <2>1, <2>2 DEF After
<1> QED BY <1>6, <1>7 DEF Newest

(* What the log says of k: the value of its newest record, if it has one.  *)
Says(k, v) ==
  /\ \A l \in Newest(k) : RecordAt(l).val = v
  /\ Records(k) = {} => v = NoValue

(* It says one thing. *)
LEMMA SaysOne ==
  ASSUME TypeOK, NEW k, NEW v, NEW w, Says(k, v), Says(k, w)
  PROVE  v = w
BY NewestExists DEF Says

(* A dead process leaves what the log says. *)
LEMMA OnDiskSays ==
  ASSUME TypeOK, NEW k
  PROVE  Says(k, OnDisk(k))
<1>1. CASE Records(k) = {}
  BY <1>1 DEF Says, OnDisk, Newest
<1>2. CASE Records(k) # {}
  <2>1. PICK l : l = CHOOSE m \in Newest(k) : TRUE
    OBVIOUS
  <2>2. l \in Newest(k)
    BY <1>2, <2>1, NewestExists
  <2>3. \A m \in Newest(k) : m = l
    BY <2>2, NewestIsUnique
  <2> QED BY <1>2, <2>1, <2>3 DEF Says, OnDisk
<1> QED BY <1>1, <1>2

(* What a caller sees is what the log says, up to the record in flight. *)
LEMMA StoreSays ==
  ASSUME IInv, NEW k \in Keys, ~(pc = "sync" /\ k = record.key)
  PROVE  Says(k, Store[k])
<1>1. CASE pc \in Running
  <2>1. IndexIsExact
    BY IInvImpliesExact
  <2> QED BY <1>1, <2>1 DEF IndexIsExact, Says, Store
<1>2. CASE pc \notin Running
  BY <1>2, OnDiskSays DEF IInv, Store
<1> QED BY <1>1, <1>2

(* The same in the next state. *)
LEMMA StoreSaysNext ==
  IInv' => (\A k \in Keys : (pc = "sync" /\ k = record.key) \/ Says(k, Store[k]))'
<1>1. IInv => \A k \in Keys : (pc = "sync" /\ k = record.key) \/ Says(k, Store[k])
  BY StoreSays
<1> QED BY <1>1, PTL

(* One log, one store. *)
LEMMA SameStore ==
  ASSUME IInv, IInv', pc # "sync", pc' # "sync", LogUnchanged
  PROVE  Store' = Store
<1>1. ASSUME NEW k \in Keys PROVE Store'[k] = Store[k]
  <2>1. Says(k, Store[k])
    BY StoreSays
  <2>2. Says(k, Store[k])'
    BY StoreSaysNext
  <2>3. PICK v, w : v = Store[k] /\ w = Store'[k]
    OBVIOUS
  <2>4. Says(k, v) /\ Says(k, w)'
    BY <2>1, <2>2, <2>3 DEF Says
  <2>5. Says(k, w)
    BY <2>4, SameLogSameNewest DEF Says
  <2> QED BY <2>3, <2>4, <2>5, SaysOne DEF IInv
<1> QED BY <1>1 DEF Store

-----------------------------------------------------------------------------
(* The values that a power failure may leave. *)

(* The records of k that an fsync has covered, and those that may be the   *)
(* newest once the others are gone: the two sets behind Outcomes.          *)
Synced(k) == {l \in Records(k) : l.offset + l.size <= durable[l.file]}
Candidates(k) == {l \in Records(k) \ InFlight : \A m \in Synced(k) : ~After(m, l)}

(* Outcomes in their terms. *)
LEMMA OutcomesAre ==
  ASSUME NEW k
  PROVE  Outcomes(k) = {RecordAt(l).val : l \in Candidates(k)}
                         \cup IF Synced(k) = {} THEN {NoValue} ELSE {}
BY DEF Outcomes, Candidates, Synced

(* The same in the next state. *)
LEMMA OutcomesAreNext ==
  ASSUME NEW k
  PROVE  Outcomes(k)' = {RecordAt(l)'.val : l \in Candidates(k)'}
                          \cup IF Synced(k)' = {} THEN {NoValue} ELSE {}
BY OutcomesAre DEF Outcomes, Candidates, Synced

(* The record in flight, if any, is one of the key that is being written.  *)
LEMMA InFlightIs ==
  ASSUME IInv, NEW k, NEW l \in InFlight \cap Records(k)
  PROVE  pc = "sync" /\ record.key = k /\ RecordAt(l) = record
<1>1. pc = "sync" /\ l = RecordLocation
  BY DEF InFlight
<1>2. RecordAt(l) = record
  BY <1>1 DEF IInv, RecordInFlight
<1> QED BY <1>1, <1>2 DEF Records

(* The value of the newest record is a possible one. *)
LEMMA SaysOutcome ==
  ASSUME IInv, NEW k, ~(pc = "sync" /\ k = record.key), NEW v, Says(k, v)
  PROVE  v \in Outcomes(k)
<1>1. CASE Records(k) = {}
  BY <1>1, OutcomesAre DEF Says, Synced
<1>2. CASE Records(k) # {}
  <2>1. PICK l \in Newest(k) : RecordAt(l).val = v
    BY <1>2, NewestExists DEF Says, IInv
  <2>2. l \in Candidates(k)
    BY <2>1, InFlightIs DEF Newest, Candidates, Synced
  <2> QED BY <2>1, <2>2, OutcomesAre
<1> QED BY <1>1, <1>2

(* The same in the next state, of the store. *)
LEMMA StoreIsOutcomeNext ==
  IInv' => (\A k \in Keys : (pc = "sync" /\ k = record.key) \/ Store[k] \in Outcomes(k))'
<1>1. IInv => \A k \in Keys : (pc = "sync" /\ k = record.key) \/ Store[k] \in Outcomes(k)
  BY StoreSays, SaysOutcome
<1> QED BY <1>1, PTL

(* A possible value stays one only as the value of a candidate, or while   *)
(* no record is synced.                                                    *)
LEMMA OutcomesShrink ==
  ASSUME NEW k,
         \A l \in Candidates(k)' : l \in Records(k) \ InFlight /\ RecordAt(l)' = RecordAt(l),
         Synced(k) \subseteq Synced(k)'
  PROVE  Outcomes(k)' \subseteq Outcomes(k)
<1>1. \A l, m : After(l, m)' <=> After(l, m)
  BY DEF After
<1>2. \A l \in Candidates(k)' : l \in Candidates(k) /\ RecordAt(l)' = RecordAt(l)
  BY <1>1 DEF Candidates
<1> QED BY <1>2, OutcomesAre, OutcomesAreNext

(* Nothing changes for a key whose records are neither moved nor synced.   *)
LEMMA SameOutcomes ==
  ASSUME NEW k,
         (Records(k) \ InFlight)' = Records(k) \ InFlight,
         \A l \in Records(k) \ InFlight : RecordAt(l)' = RecordAt(l),
         Synced(k)' = Synced(k)
  PROVE  Outcomes(k)' = Outcomes(k)
<1>1. \A l, m : After(l, m)' <=> After(l, m)
  BY DEF After
<1>2. Candidates(k)' = Candidates(k) /\ \A l \in Candidates(k) : RecordAt(l)' = RecordAt(l)
  BY <1>1 DEF Candidates
<1> QED BY <1>2, OutcomesAre, OutcomesAreNext

-----------------------------------------------------------------------------
(* An fsync covers cells that are there,  and the merged file as a whole   *)
(* before an old file is removed.                                          *)
SyncedBound ==
  /\ \A f \in FileIDs : durable[f] <= Len(files[f])
  /\ pc = "remove" => durable[mergedFileID] = Len(files[mergedFileID])

(* Every action keeps the bound. *)
LEMMA SyncedBoundStep ==
  ASSUME IInv, IInv', SyncedBound, [Next]_vars, Faults \subseteq {"open"}
  PROVE  SyncedBound'
<1>1. /\ TypeOK /\ TypeOK'
      /\ \A f \in FileIDs : Len(files[f]) \in Nat /\ Len(files'[f]) \in Nat /\ durable[f] \in Nat
  BY LenType DEF IInv, TypeOK
<1>2. ASSUME UNCHANGED <<files, durable>>, pc' # "remove" \/ UNCHANGED <<pc, mergedFileID>>
      PROVE  SyncedBound'
  BY <1>2 DEF SyncedBound
<1>3. ASSUME NEW f \in FileIDs, NEW t \in Seq(Cell), pc' # "remove", UNCHANGED durable,
             files' = [files EXCEPT ![f] = @ \o t]
      PROVE  SyncedBound'
  <2>1. files'[f] = files[f] \o t /\ \A g \in FileIDs \ {f} : files'[g] = files[g]
    BY <1>1, <1>3 DEF TypeOK
  <2>2. Len(files'[f]) = Len(files[f]) + Len(t) /\ Len(t) \in Nat
    BY <1>1, <2>1, ConcatParts, LenProperties DEF TypeOK
  <2>3. \A g \in FileIDs : Len(files[g]) <= Len(files'[g])
    BY <1>1, <2>1, <2>2
  <2> QED BY <1>1, <1>3, <2>3 DEF SyncedBound
<1>4. ASSUME NEW f \in FileIDs, UNCHANGED files, pc' # "remove" \/ mergedFileID' = f,
             durable' = [durable EXCEPT ![f] = Len(files[f])]
      PROVE  SyncedBound'
  BY <1>1, <1>4 DEF SyncedBound, TypeOK
<1>5. ASSUME NEW f \in FileIDs, durable' = [durable EXCEPT ![f] = 0],
             files' = [files EXCEPT ![f] = <<>>],
             pc' # "remove" \/ (f # mergedFileID /\ UNCHANGED <<pc, mergedFileID>>)
      PROVE  SyncedBound'
  <2>1. files'[f] = <<>> /\ durable'[f] = 0 /\ Len(<<>>) = 0
    BY <1>1, <1>5 DEF TypeOK
  <2>2. \A g \in FileIDs \ {f} : files'[g] = files[g] /\ durable'[g] = durable[g]
    BY <1>1, <1>5 DEF TypeOK
  <2>3. mergedFileID \in FileIDs
    BY <1>1 DEF TypeOK
  <2> QED BY <1>5, <2>1, <2>2, <2>3 DEF SyncedBound
<1>6. ASSUME NEW k \in Keys, NEW v \in Values, Put(k, v) PROVE SyncedBound'
  BY <1>2, <1>6 DEF Put, disk
<1>7. ASSUME NEW k \in Keys, Delete(k) PROVE SyncedBound'
  BY <1>2, <1>7 DEF Delete, disk
<1>8. ASSUME Rotate \/ RotateFails \/ WriteFails \/ Close \/ Install \/ Restart \/ RestartRefused
      PROVE  SyncedBound'
  BY <1>2, <1>8
     DEF Rotate, RotateFails, WriteFails, Close, Install, Restart, RestartRefused, Return, disk
<1>9. CASE AppendRecord
  <2>1. record \in Record
    BY <1>1, <1>9 DEF AppendRecord, TypeOK
  <2> QED BY <1>1, <1>3, <1>9, <2>1, CellsType DEF AppendRecord, TypeOK
<1>10. CASE Sync
  BY <1>1, <1>4, <1>10 DEF Sync, Return, TypeOK
<1>11. CASE CompactBegin
  BY <1>5, <1>11 DEF CompactBegin
<1>12. ASSUME NEW k \in Keys, CopyRecord(k) PROVE SyncedBound'
  <2>1. Bytes(keyDir[k]) \in Seq(Cell)
    BY <1>1, <1>12, BytesType DEF CopyRecord, Readable, TypeOK
  <2> QED BY <1>1, <1>3, <1>12, <2>1 DEF CopyRecord, TypeOK
<1>13. CASE SyncMerged
  BY <1>1, <1>4, <1>13 DEF SyncMerged, TypeOK
<1>14. CASE RemoveFile
  <2>1. PICK f \in left :
          /\ pc = "remove" /\ UNCHANGED <<pc, mergedFileID>>
          /\ durable' = [durable EXCEPT ![f] = 0] /\ files' = [files EXCEPT ![f] = <<>>]
    BY <1>14 DEF RemoveFile
  <2>2. f \in FileIDs /\ f # mergedFileID
    BY <1>1, <2>1 DEF IInv, RemovalInProgress, TypeOK
  <2> QED BY <1>5, <2>1, <2>2
<1>15. CASE Kill
  <2>1. pc' = "down" /\ UNCHANGED durable
    BY <1>15 DEF Kill, Die
  <2>2. ASSUME NEW part \in Torn(Cells(record)), pc = "write",
               files' = [files EXCEPT ![currentFileID] = @ \o part]
        PROVE  SyncedBound'
    <3>1. record \in Record /\ currentFileID \in FileIDs
      BY <1>1, <2>2 DEF TypeOK
    <3>2. part \in Seq(Cell)
      BY <3>1, CellsType, SurvivorsType
    <3> QED BY <1>3, <2>1, <2>2, <3>1, <3>2
  <2>3. CASE UNCHANGED files
    BY <1>2, <2>1, <2>3
  <2> QED BY <1>15, <2>2, <2>3 DEF Kill
<1>16. CASE PowerLoss
  <2>1. pc' = "down" /\ \A f \in FileIDs : durable'[f] = Len(files'[f])
    BY <1>16 DEF PowerLoss, Die
  <2> QED BY <1>1, <2>1 DEF SyncedBound
<1>17. CASE UNCHANGED vars
  BY <1>2, <1>17 DEF vars, disk, compaction
<1>18. ~SyncFails /\ ~CompactGivesUp /\ \A k \in Keys : ~SkipRecord(k)
  BY NothingIsSkipped DEF SyncFails, CompactGivesUp
<1> QED
  BY <1>6, <1>7, <1>8, <1>9, <1>10, <1>11, <1>12, <1>13, <1>14, <1>15, <1>16, <1>17, <1>18
     DEF Next, LockHolder, Caller, Environment

-----------------------------------------------------------------------------
(* What KVStore asks of the next values. *)

(* What the log says is a value. *)
LEMMA SaysType ==
  ASSUME TypeOK, NEW k, NEW v, Says(k, v)
  PROVE  v \in Stored
<1>1. CASE Records(k) = {}
  BY <1>1 DEF Says, Stored
<1>2. CASE Records(k) # {}
  <2>1. PICK l \in Newest(k) : RecordAt(l).val = v
    BY <1>2, NewestExists DEF Says
  <2>2. RecordAt(l) \in Record
    BY <2>1, LogLocation DEF Newest, Records
  <2> QED BY <2>1, <2>2 DEF Record
<1> QED BY <1>1, <1>2

(* What a caller sees, and what a power failure leaves, are values. *)
LEMMA StoreType ==
  ASSUME IInv, pc # "sync"
  PROVE  /\ Store \in [Keys -> Stored]
         /\ [k \in Keys |-> Outcomes(k)] \in [Keys -> SUBSET Stored]
<1>1. TypeOK
  BY DEF IInv
<1>2. ASSUME NEW k \in Keys PROVE Store[k] \in Stored
  BY <1>1, StoreSays, SaysType
<1>3. ASSUME NEW k \in Keys PROVE Outcomes(k) \subseteq Stored
  <2>1. \A l \in Candidates(k) : RecordAt(l) \in Record
    BY <1>1, LogLocation DEF Candidates, Records
  <2>2. \A r \in Record : r.val \in Stored
    BY DEF Record
  <2> QED BY <2>1, <2>2, OutcomesAre DEF Stored
<1> QED BY <1>2, <1>3 DEF Store

(* The same in the next state. *)
LEMMA StoreTypeNext ==
  (IInv /\ pc # "sync" =>
     /\ Store \in [Keys -> Stored]
     /\ [k \in Keys |-> Outcomes(k)] \in [Keys -> SUBSET Stored])'
<1>1. IInv /\ pc # "sync" =>
        /\ Store \in [Keys -> Stored]
        /\ [k \in Keys |-> Outcomes(k)] \in [Keys -> SUBSET Stored]
  BY StoreType
<1> QED BY <1>1, PTL

(* Outcomes go, none comes, and the store is one of them. *)
LEMMA NarrowedNext ==
  ASSUME IInv', pc' # "sync", NEW outs,
         \A k \in Keys : Outcomes(k)' \subseteq outs[k]
  PROVE  <<Store, [k \in Keys |-> Outcomes(k)]>>' \in Promise!Narrowed(outs)
<1>1. /\ Store' \in [Keys -> Stored]
      /\ [k \in Keys |-> Outcomes(k)]' \in [Keys -> SUBSET Stored]
  BY StoreTypeNext
<1>2. \A k \in Keys : Store'[k] \in Outcomes(k)'
  BY StoreIsOutcomeNext
<1>3. PICK st, oc : st = Store' /\ oc = [k \in Keys |-> Outcomes(k)]'
  OBVIOUS
<1>4. \A k \in Keys : oc[k] \subseteq outs[k] /\ st[k] \in oc[k]
  BY <1>2, <1>3
<1>5. <<st, oc>> \in Promise!Narrowed(outs)
  BY <1>1, <1>3, <1>4 DEF Promise!Narrowed, Promise!Stored, Stored
<1> QED BY <1>3, <1>5

(* A step that leaves the log, its fsyncs and the record in flight alone. *)
LEMMA SameAll ==
  ASSUME IInv, IInv', pc # "sync", pc' # "sync", LogUnchanged,
         \A f \in dir : durable'[f] = durable[f]
  PROVE  Store' = Store /\ UNCHANGED [k \in Keys |-> Outcomes(k)]
<1>1. Store' = Store
  BY SameStore
<1>2. ASSUME NEW k \in Keys PROVE Outcomes(k)' = Outcomes(k)
  <2>1. Records(k)' = Records(k) /\ \A l \in Records(k) : RecordAt(l)' = RecordAt(l)
    BY SameLogSameNewest DEF LogUnchanged, Records
  <2>2. \A l \in Records(k) : l.file \in dir
    BY LogLocation DEF IInv, Records
  <2>3. Synced(k)' = Synced(k)
    BY <2>1, <2>2 DEF Synced
  <2>4. (Records(k) \ InFlight)' = Records(k) \ InFlight
    BY <2>1 DEF InFlight
  <2> QED BY <2>1, <2>3, <2>4, SameOutcomes
<1> QED BY <1>1, <1>2

-----------------------------------------------------------------------------
(* The actions, one by one. *)

(* Put and Delete begin a write; a Delete finds the key. *)
LEMMA BeginMapped ==
  ASSUME IInv, IInv',
         \/ \E k \in Keys, v \in Values : Put(k, v)
         \/ \E k \in Keys : Delete(k)
  PROVE  Promise!Begin
<1>1. /\ pc = "idle" /\ pc' \in {"rotate", "write"}
      /\ UNCHANGED <<dir, files, durable, keyDir>>
  BY DEF Put, Delete, disk, memory
<1>2. Store' = Store /\ UNCHANGED [k \in Keys |-> Outcomes(k)]
  BY <1>1, UnchangedDisk, SameAll
<1>3. /\ Pending = {} /\ Pending' = {record'}
      /\ Status = "up" /\ Status' = "up"
  BY <1>1 DEF Pending, Status, Running
<1>4. record' \in Promise!Write /\ (record'.val = NoValue => Store[record'.key] # NoValue)
  <2>1. ASSUME NEW k \in Keys, NEW v \in Values, Put(k, v)
        PROVE  record' = [key |-> k, val |-> v] /\ v # NoValue
    BY <2>1, SentinelAssumption DEF Put
  <2>2. ASSUME NEW k \in Keys, Delete(k)
        PROVE  record' = [key |-> k, val |-> NoValue] /\ Store[k] # NoValue
    <3>1. keyDir[k] # NoLoc /\ Exact(keyDir, k)
      BY <1>1, <2>2 DEF Delete, IInv, IndexAtRest
    <3>2. /\ WholeAt(keyDir[k].file, keyDir[k].offset)
          /\ RecordAt(keyDir[k]).val # NoValue
      BY <3>1, LogLocation DEF Exact, Newest, Records, IInv
    <3>3. Get(k) # NoValue
      BY <1>1, <3>1, <3>2 DEF Get, Index
    <3> QED BY <1>1, <2>2, <3>3 DEF Delete, Store, Running
  <2> QED BY <2>1, <2>2 DEF Promise!Write, Promise!Stored
<1> QED BY <1>2, <1>3, <1>4 DEF Promise!Begin

(* A write that fails has no effect. *)
LEMMA FailMapped ==
  ASSUME IInv, IInv', RotateFails \/ (WriteFails /\ UNCHANGED files)
  PROVE  Promise!Fail
<1>1. /\ pc \in {"rotate", "write"} /\ pc' = "idle"
      /\ UNCHANGED <<dir, files, durable>>
  BY DEF RotateFails, WriteFails, Return, disk
<1>2. Store' = Store /\ UNCHANGED [k \in Keys |-> Outcomes(k)]
  BY <1>1, UnchangedDisk, SameAll
<1>3. /\ Pending = {record} /\ Pending' = {}
      /\ Status = "up" /\ Status' = "up"
  BY <1>1 DEF Pending, Status, Running
<1> QED BY <1>2, <1>3 DEF Promise!Fail

(* A rotation and the creation of the merged file add an empty file. *)
LEMMA QuietMapped ==
  ASSUME IInv, IInv', Rotate \/ Close \/ CompactBegin \/ Install
  PROVE  UNCHANGED Promise!kvVars
<1>1. /\ pc \in {"idle", "rotate", "remove"} /\ pc' \in {"idle", "write", "merge"}
      /\ pc = "rotate" <=> pc' = "write"
      /\ pc = "rotate" => UNCHANGED record
  BY DEF Rotate, Close, CompactBegin, Install, Return
<1>2. LogUnchanged /\ \A f \in dir : durable'[f] = durable[f]
  <2>1. CASE Rotate
    <3>1. PICK id : id = currentFileID + 1
      OBVIOUS
    <3>2. /\ id \in FileIDs /\ dir' = dir \cup {id} /\ UNCHANGED <<files, durable>>
          /\ \A f \in dir : f <= currentFileID
      BY <2>1, <3>1 DEF Rotate, IInv, ActiveFileIsLast
    <3>3. id \notin dir
      BY <3>1, <3>2 DEF IInv, TypeOK, FileIDs
    <3>4. files'[id] = <<>>
      BY <3>2, <3>3 DEF IInv, AbsentFilesEmpty
    <3> QED BY <3>2, <3>3, <3>4, NewFileStep DEF IInv
  <2>2. CASE CompactBegin
    <3>1. PICK last \in dir : IsLast(last) /\ mergedFileID' = last + 1
      BY <2>2 DEF CompactBegin
    <3>2. PICK id : id = last + 1
      OBVIOUS
    <3>3. /\ id \in FileIDs /\ dir' = dir \cup {id}
          /\ files' = [files EXCEPT ![id] = <<>>] /\ durable' = [durable EXCEPT ![id] = 0]
      BY <2>2, <3>1, <3>2 DEF CompactBegin
    <3>4. id \notin dir
      BY <3>1, <3>2 DEF IsLast, IInv, TypeOK, FileIDs
    <3>5. files'[id] = <<>> /\ \A f \in dir : files'[f] = files[f] /\ durable'[f] = durable[f]
      BY <3>3, <3>4 DEF IInv, TypeOK
    <3> QED BY <3>3, <3>4, <3>5, NewFileStep DEF IInv
  <2>3. CASE Close \/ Install
    BY <2>3, UnchangedDisk DEF Close, Install, disk
  <2> QED BY <2>1, <2>2, <2>3
<1>3. Store' = Store /\ UNCHANGED [k \in Keys |-> Outcomes(k)]
  BY <1>1, <1>2, SameAll
<1>4. UNCHANGED <<Pending, Status>>
  BY <1>1 DEF Pending, Status, Running
<1> QED BY <1>3, <1>4 DEF Promise!kvVars

(* A restart opens the store as it was left, or refuses it. *)
LEMMA OpenMapped ==
  ASSUME IInv, IInv', Restart
  PROVE  Promise!Open
<1>1. /\ pc = "down" /\ pc' = "idle" /\ UNCHANGED <<files, durable>>
      /\ dir' = dir \cup {currentFileID'} /\ currentFileID' \in FileIDs
  BY DEF Restart, IInv, TypeOK
<1>2. LogUnchanged
  <2>1. CASE currentFileID' \in dir
    <3>1. dir' = dir
      BY <1>1, <2>1
    <3> QED BY <1>1, <3>1, UnchangedDisk
  <2>2. CASE currentFileID' \notin dir
    <3>1. files'[currentFileID'] = <<>>
      BY <1>1, <2>2 DEF IInv, AbsentFilesEmpty
    <3> QED BY <1>1, <2>2, <3>1, NewFileStep DEF IInv
  <2> QED BY <2>1, <2>2
<1>3. Store' = Store /\ UNCHANGED [k \in Keys |-> Outcomes(k)]
  BY <1>1, <1>2, SameAll
<1>4. /\ Pending = {} /\ Pending' = {}
      /\ Status = "down" /\ Status' = "up"
  BY <1>1 DEF Pending, Status, Running
<1> QED BY <1>3, <1>4 DEF Promise!Open

(* A store that is refused stays as it is. *)
LEMMA RefuseMapped ==
  ASSUME IInv, IInv', RestartRefused
  PROVE  Promise!Refuse \/ UNCHANGED Promise!kvVars
<1>1. /\ pc \in {"down", "refused"} /\ pc' = "refused"
      /\ UNCHANGED <<dir, files, durable>>
  BY DEF RestartRefused, disk
<1>2. Store' = Store /\ UNCHANGED [k \in Keys |-> Outcomes(k)]
  BY <1>1, UnchangedDisk, SameAll
<1>3. /\ Pending = {} /\ Pending' = {}
      /\ Status = pc /\ Status' = "refused"
  BY <1>1 DEF Pending, Status, Running
<1> QED BY <1>1, <1>2, <1>3 DEF Promise!Refuse, Promise!kvVars

(* A record that is appended is neither synced nor read yet. *)
LEMMA AppendMapped ==
  ASSUME IInv, IInv', SyncedBound, AppendRecord
  PROVE  UNCHANGED Promise!kvVars
<1>1. PICK new : new = [file |-> currentFileID, offset |-> Len(files[currentFileID]),
                        size |-> Size(record)]
  OBVIOUS
<1>2. /\ pc = "write" /\ pc' = "sync" /\ fileOpen
      /\ files' = [files EXCEPT ![currentFileID] = @ \o Cells(record)]
      /\ UNCHANGED <<dir, durable, keyDir, currentFileID, currentOffset, record>>
  BY DEF AppendRecord, memory
<1>3. currentFileID \in dir /\ currentOffset = Len(files[currentFileID])
  BY <1>2 DEF IInv, ActiveFileIsLast
<1>4. TypeOK /\ TypeOK' /\ record \in Record
  BY <1>2 DEF IInv, TypeOK
<1>5. /\ new \notin Log /\ Log' = Log \cup {new} /\ RecordAt(new)' = record
      /\ \A l \in Log : RecordAt(l)' = RecordAt(l)
  BY <1>1, <1>2, <1>3, <1>4, AppendStep
<1>6. InFlight = {} /\ InFlight' = {new}
  BY <1>1, <1>2, <1>3 DEF InFlight, RecordLocation, Size
<1>7. ~(new.offset + new.size <= durable[new.file])
  <2>1. durable[currentFileID] <= Len(files[currentFileID]) /\ durable[currentFileID] \in Nat
    BY <1>4 DEF SyncedBound, TypeOK
  <2>2. Len(files[currentFileID]) \in Nat
    BY <1>4, LenType DEF TypeOK
  <2>3. Size(record) \in Nat \ {0}
    BY <1>4, CellsType
  <2> QED BY <1>1, <2>1, <2>2, <2>3
<1>8. ASSUME NEW k \in Keys PROVE Outcomes(k)' = Outcomes(k)
  <2>1. (Records(k) \ InFlight)' = Records(k) \ InFlight
    BY <1>5, <1>6 DEF Records
  <2>2. \A l \in Records(k) : RecordAt(l)' = RecordAt(l)
    BY <1>5 DEF Records
  <2>3. Synced(k)' = Synced(k)
    BY <1>2, <1>5, <1>7 DEF Synced, Records
  <2> QED BY <2>1, <2>2, <2>3, SameOutcomes
<1>9. ASSUME NEW k \in Keys PROVE Store'[k] = Store[k]
  <2>1. Index[k] = keyDir[k] /\ Index'[k] = keyDir[k] /\ Index' = keyDir
    BY <1>2 DEF Index
  <2>2. keyDir[k] # NoLoc => keyDir[k] \in Log
    BY <1>2 DEF IInv, IndexAtRest, Exact, Newest, Records
  <2>3. Index[k] # NoLoc => RecordAt(Index[k])' = RecordAt(Index[k])
    BY <1>5, <2>1, <2>2 DEF RecordAt
  <2>4. Get(k)' = Get(k)
    BY <1>4, <1>5, <2>1, <2>2, <2>3, SameRead
  <2> QED BY <1>2, <2>4 DEF Store, Running
<1>10. UNCHANGED <<Pending, Status>>
  BY <1>2 DEF Pending, Status, Running
<1>11. UNCHANGED <<Store, [k \in Keys |-> Outcomes(k)]>>
  BY <1>8, <1>9 DEF Store
<1> QED BY <1>10, <1>11 DEF Promise!kvVars

(* The fsync makes the record the only outcome of its key. *)
LEMMA SyncMapped ==
  ASSUME IInv, IInv', SyncedBound, Sync
  PROVE  Promise!Acknowledge
<1>1. PICK new, w : new = RecordLocation /\ w = record
  OBVIOUS
<1>2. /\ pc = "sync" /\ pc' = "idle" /\ UNCHANGED <<dir, files>>
      /\ durable' = [durable EXCEPT ![currentFileID] = Len(files[currentFileID])]
  BY DEF Sync, Return
<1>3. /\ currentFileID \in dir
      /\ Len(files[currentFileID]) = currentOffset + Size(w)
      /\ new \in Log /\ RecordAt(new) = w
      /\ \A f \in dir : f <= currentFileID
  BY <1>1, <1>2 DEF IInv, ActiveFileIsLast, RecordInFlight
<1>4. /\ TypeOK /\ TypeOK' /\ w \in Record /\ currentOffset \in Nat
      /\ currentFileID \in FileIDs /\ w.key \in Keys /\ Size(w) \in Nat
      /\ new.file = currentFileID /\ new.offset = currentOffset /\ new.size = Size(w)
  BY <1>1, <1>2, CellsType DEF IInv, TypeOK, Record, RecordLocation
<1>5. new \in Newest(w.key) /\ RecordAt(new) = w
  BY <1>3, <1>4, LastIsNewest
<1>6. LogUnchanged
  BY <1>2, UnchangedDisk
<1>7. /\ \A k : Records(k)' = Records(k) /\ Newest(k)' = Newest(k)
      /\ \A k : \A l \in Records(k) : RecordAt(l)' = RecordAt(l)
  BY <1>6, SameLogSameNewest DEF LogUnchanged, Records
<1>8. InFlight = {new} /\ InFlight' = {}
  BY <1>1, <1>2 DEF InFlight
<1>9. \A k : Synced(k) \subseteq Synced(k)'
  <2>1. \A f \in FileIDs :
          /\ durable[f] \in Nat /\ Len(files[f]) \in Nat /\ durable[f] <= Len(files[f])
          /\ durable'[f] = durable[f] \/ durable'[f] = Len(files[f])
    BY <1>2, <1>4, LenType DEF SyncedBound, TypeOK
  <2>2. \A k : \A l \in Records(k) :
          l.file \in FileIDs /\ l.offset \in Nat /\ l.size \in Nat
    BY <1>4, LogLocation DEF Records, Location
  <2>3. \A k : \A l \in Records(k) :
          l.offset + l.size <= durable[l.file] => l.offset + l.size <= durable'[l.file]
    BY <2>1, <2>2
  <2> QED BY <1>7, <2>3 DEF Synced
<1>10. new \in Synced(w.key)'
  <2>1. durable'[currentFileID] = currentOffset + Size(w)
    BY <1>2, <1>3, <1>4 DEF TypeOK
  <2>2. new \in Records(w.key)
    BY <1>5 DEF Newest
  <2> QED BY <1>4, <1>7, <2>1, <2>2 DEF Synced
<1>11. ASSUME NEW k \in Keys, k # w.key
       PROVE  Outcomes(k)' \subseteq Outcomes(k)
  <2>1. new \notin Records(k)
    BY <1>5, <1>11 DEF Records
  <2> QED BY <1>7, <1>8, <1>9, <2>1, OutcomesShrink DEF Candidates
<1>12. Outcomes(w.key)' \subseteq {w.val}
  <2>1. ASSUME NEW l \in Candidates(w.key)' PROVE l = new
    <3>1. l \in Records(w.key) /\ ~After(new, l)
      BY <1>7, <1>10, <2>1 DEF Candidates, After
    <3>2. ~After(l, new)
      BY <1>5, <3>1 DEF Newest
    <3>3. l \in Log
      BY <3>1 DEF Records
    <3> QED BY <1>3, <1>4, <3>1, <3>2, <3>3, AfterIsTotal
  <2>2. Synced(w.key)' # {} /\ RecordAt(new)' = w
    BY <1>5, <1>7, <1>10 DEF Newest
  <2>3. \A l \in Candidates(w.key)' : RecordAt(l)' = w
    BY <2>1, <2>2 DEF RecordAt
  <2> QED BY <2>2, <2>3, OutcomesAreNext
<1>13. Store' = [Store EXCEPT ![w.key] = w.val]
  <2>1. ASSUME NEW k \in Keys PROVE Store'[k] = IF k = w.key THEN w.val ELSE Store[k]
    <3>1. Says(k, Store[k])'
      BY <1>2, StoreSaysNext
    <3>2. PICK v : v = Store'[k]
      OBVIOUS
    <3>3. Says(k, v)
      BY <1>7, <3>1, <3>2 DEF Says, Newest
    <3>4. CASE k = w.key
      BY <1>5, <3>2, <3>3, <3>4 DEF Says
    <3>5. CASE k # w.key
      <4>1. Says(k, Store[k])
        BY <1>1, <3>5, StoreSays
      <4> QED BY <1>4, <3>2, <3>3, <3>5, <4>1, SaysOne
    <3> QED BY <3>4, <3>5
  <2>2. Store = [k \in Keys |-> Store[k]] /\ Store' = [k \in Keys |-> Store'[k]]
    BY DEF Store
  <2> QED BY <2>1, <2>2
<1>14. PICK outs : outs = [[k \in Keys |-> Outcomes(k)] EXCEPT ![w.key] = {w.val}]
  OBVIOUS
<1>15. <<Store, [k \in Keys |-> Outcomes(k)]>>' \in Promise!Narrowed(outs)
  <2>1. \A k \in Keys : Outcomes(k)' \subseteq outs[k]
    BY <1>11, <1>12, <1>14
  <2> QED BY <1>2, <2>1, NarrowedNext
<1>16. /\ Pending = {w} /\ Pending' = {}
       /\ Status = "up" /\ Status' = "up"
  BY <1>1, <1>2 DEF Pending, Status, Running
<1> QED BY <1>13, <1>14, <1>15, <1>16 DEF Promise!Acknowledge

(* No step of a compaction moves the store. *)
LEMMA CompactionStore ==
  ASSUME IInv, IInv', [Next]_vars, Faults \subseteq {"open"},
         pc \in {"merge", "remove"}, pc' \in {"merge", "remove"}
  PROVE  /\ Store' = Store
         /\ Pending' = Pending /\ Status = "up" /\ Status' = "up"
<1>1. \A k \in Keys : Get(k)' = Get(k)
  BY StepKeepsReads DEF Running
<1> QED BY <1>1 DEF Store, Pending, Status, Running

(* A copy that is not synced yet adds no outcome: it has the value of the  *)
(* newest record.                                                          *)
LEMMA CopyMapped ==
  ASSUME IInv, IInv', SyncedBound, Faults \subseteq {"open"}, NEW key \in Keys, CopyRecord(key)
  PROVE  Promise!Settle
<1>1. PICK new, c : /\ new = [file |-> mergedFileID, offset |-> Len(files[mergedFileID]),
                                size |-> Size(c)]
                    /\ c = RecordAt(keyDir[key])
  OBVIOUS
<1>2. /\ pc = "merge" /\ pc' = "merge" /\ key \in todo
      /\ files' = [files EXCEPT ![mergedFileID] = @ \o Bytes(keyDir[key])]
      /\ keyDir[key] # NoLoc
      /\ UNCHANGED <<dir, durable>>
  BY DEF CopyRecord, Readable
<1>3. mergedFileID \in dir /\ Exact(keyDir, key) /\ keyDir[key] \in Log
  BY <1>2 DEF IInv, MergeInProgress, Exact, Newest, Records
<1>4. /\ TypeOK /\ TypeOK' /\ c \in Record /\ Size(c) \in Nat \ {0}
      /\ files' = [files EXCEPT ![mergedFileID] = @ \o Cells(c)]
  BY <1>1, <1>2, <1>3, LogLocation, LogBytes, CellsType DEF IInv
<1>5. keyDir[key] \in Newest(key) /\ c.key = key
  BY <1>1, <1>2, <1>3 DEF Exact, Newest, Records
<1>6. /\ new \notin Log /\ Log' = Log \cup {new} /\ RecordAt(new)' = c
      /\ \A l \in Log : RecordAt(l)' = RecordAt(l)
  BY <1>1, <1>2, <1>3, <1>4, AppendStep
<1>7. InFlight = {} /\ InFlight' = {}
  BY <1>2 DEF InFlight
<1>8. ~(new.offset + new.size <= durable[new.file])
  <2>1. durable[mergedFileID] <= Len(files[mergedFileID]) /\ durable[mergedFileID] \in Nat
    BY <1>4 DEF SyncedBound, TypeOK
  <2>2. Len(files[mergedFileID]) \in Nat
    BY <1>4, LenType DEF TypeOK
  <2> QED BY <1>1, <1>4, <2>1, <2>2
<1>9. \A k : Synced(k)' = Synced(k)
  BY <1>2, <1>6, <1>8 DEF Synced, Records
<1>10. ASSUME NEW k \in Keys PROVE Outcomes(k)' \subseteq Outcomes(k)
  <2>1. CASE k # key
    <3>1. Records(k)' = Records(k) /\ \A l \in Records(k) : RecordAt(l)' = RecordAt(l)
      BY <1>5, <1>6, <2>1 DEF Records
    <3> QED BY <1>7, <1>9, <3>1, SameOutcomes
  <2>2. CASE k = key
    <3>1. c.val \in Outcomes(k)
      <4>1. Says(k, c.val)
        <5>1. \A l \in Newest(k) : l = keyDir[key]
          BY <1>4, <1>5, <2>2, NewestIsUnique
        <5> QED BY <1>1, <1>5, <2>2, <5>1 DEF Says, Newest
      <4> QED BY <1>2, <4>1, SaysOutcome
    <3>2. ASSUME NEW l \in Candidates(k)', l # new
          PROVE  l \in Candidates(k) /\ RecordAt(l)' = RecordAt(l)
      <4>1. l \in Log /\ RecordAt(l)' = RecordAt(l) /\ l \in Records(k)
        BY <1>6, <3>2 DEF Candidates, Records
      <4>2. \A m \in Synced(k) : ~After(m, l)
        BY <1>9, <3>2 DEF Candidates, After
      <4> QED BY <1>7, <4>1, <4>2 DEF Candidates
    <3>3. \A l \in Candidates(k)' : RecordAt(l)'.val \in Outcomes(k)
      BY <1>6, <3>1, <3>2, OutcomesAre DEF RecordAt
    <3>4. Synced(k)' = {} => NoValue \in Outcomes(k)
      BY <1>9, OutcomesAre
    <3> QED BY <3>3, <3>4, OutcomesAreNext
  <2> QED BY <2>1, <2>2
<1>11. <<Store, [k \in Keys |-> Outcomes(k)]>>' \in Promise!Narrowed([k \in Keys |-> Outcomes(k)])
  <2>1. PICK outs : outs = [k \in Keys |-> Outcomes(k)]
    OBVIOUS
  <2>2. \A k \in Keys : Outcomes(k)' \subseteq outs[k]
    BY <1>10, <2>1
  <2> QED BY <1>2, <2>1, <2>2, NarrowedNext
<1>12. [Next]_vars
  BY DEF Next, LockHolder
<1> QED BY <1>2, <1>11, <1>12, CompactionStore DEF Promise!Settle

(* The fsync of the merged file leaves the newest records alone. *)
LEMMA SyncMergedMapped ==
  ASSUME IInv, IInv', SyncedBound, Faults \subseteq {"open"}, SyncMerged
  PROVE  Promise!Settle
<1>1. /\ pc = "merge" /\ pc' = "remove" /\ UNCHANGED <<dir, files>>
      /\ durable' = [durable EXCEPT ![mergedFileID] = Len(files[mergedFileID])]
  BY DEF SyncMerged
<1>2. TypeOK
  BY DEF IInv
<1>3. /\ \A k : Records(k)' = Records(k)
      /\ \A k : \A l \in Records(k) : RecordAt(l)' = RecordAt(l)
  BY <1>1, UnchangedDisk, SameLogSameNewest DEF LogUnchanged, Records
<1>4. \A k : Synced(k) \subseteq Synced(k)'
  <2>1. \A f \in FileIDs :
          /\ durable[f] \in Nat /\ Len(files[f]) \in Nat /\ durable[f] <= Len(files[f])
          /\ durable'[f] = durable[f] \/ durable'[f] = Len(files[f])
    BY <1>1, <1>2, LenType DEF SyncedBound, TypeOK
  <2>2. \A k : \A l \in Records(k) :
          l.file \in FileIDs /\ l.offset \in Nat /\ l.size \in Nat
    BY <1>2, LogLocation DEF Records, Location
  <2>3. \A k : \A l \in Records(k) :
          l.offset + l.size <= durable[l.file] => l.offset + l.size <= durable'[l.file]
    BY <2>1, <2>2
  <2> QED BY <1>3, <2>3 DEF Synced
<1>5. ASSUME NEW k \in Keys PROVE Outcomes(k)' \subseteq Outcomes(k)
  <2>1. InFlight = {}
    BY <1>1 DEF InFlight
  <2> QED BY <1>3, <1>4, <2>1, OutcomesShrink DEF Candidates
<1>6. <<Store, [k \in Keys |-> Outcomes(k)]>>' \in Promise!Narrowed([k \in Keys |-> Outcomes(k)])
  <2>1. PICK outs : outs = [k \in Keys |-> Outcomes(k)]
    OBVIOUS
  <2>2. \A k \in Keys : Outcomes(k)' \subseteq outs[k]
    BY <1>5, <2>1
  <2> QED BY <1>1, <2>1, <2>2, NarrowedNext
<1>7. [Next]_vars
  BY DEF Next, LockHolder
<1> QED BY <1>1, <1>6, <1>7, CompactionStore DEF Promise!Settle

(* An old file takes no outcome with it that a newer record did not, since *)
(* the merged file is synced.                                              *)
LEMMA RemoveFileMapped ==
  ASSUME IInv, IInv', SyncedBound, Faults \subseteq {"open"}, MaxFileID <= 9, RemoveFile
  PROVE  Promise!Settle
<1>1. PICK f \in left :
        /\ dir' = dir \ {f} /\ durable' = [durable EXCEPT ![f] = 0]
        /\ \A g \in dir' : f < g
        /\ \A l : l \in Log' <=> l \in Log /\ l.file # f
        /\ \A l \in Log' : RecordAt(l)' = RecordAt(l) /\ l.file \in dir'
  BY RemoveFileLog DEF IInv
<1>2. pc = "remove" /\ pc' = "remove" /\ InFlight = {}
  BY DEF RemoveFile, InFlight
<1>3. TypeOK /\ TypeOK' /\ mergedFileID \notin left
  BY <1>2 DEF IInv, RemovalInProgress
<1>4. \A k : \A l : l \in Records(k)' <=> l \in Records(k) /\ l.file # f
  BY <1>1 DEF Records
<1>5. \A k : \A l : l \in Synced(k)' <=> l \in Synced(k) /\ l.file # f
  <2>1. \A g \in FileIDs \ {f} : durable'[g] = durable[g]
    BY <1>1, <1>3 DEF TypeOK
  <2>2. \A k : \A l \in Records(k) : l.file \in FileIDs
    BY <1>3, LogLocation DEF Records, Location
  <2> QED BY <1>4, <2>1, <2>2 DEF Synced
<1>6. ASSUME NEW k \in Keys PROVE Outcomes(k)' \subseteq Outcomes(k)
  <2>1. ASSUME NEW l \in Candidates(k)' PROVE l \in Candidates(k) /\ RecordAt(l)' = RecordAt(l)
    <3>1. l \in Records(k)' /\ l \in Records(k) /\ \A m \in Synced(k)' : ~After(m, l)
      BY <1>4, <2>1 DEF Candidates, After
    <3>2. RecordAt(l)' = RecordAt(l) /\ f < l.file
      BY <1>1, <3>1 DEF Records
    <3>3. \A m \in Synced(k) : m.file = f => ~After(m, l)
      <4>1. f \in Int /\ l.file \in Int
        <5>1. l.file \in FileIDs
          BY <1>3, <3>1, LogLocation DEF Records, Location
        <5>2. f \in FileIDs
          BY <1>3 DEF TypeOK
        <5> QED BY <5>1, <5>2, BoundAssumption DEF FileIDs
      <4> QED BY <3>2, <4>1 DEF After
    <3> QED BY <1>2, <1>5, <3>1, <3>2, <3>3 DEF Candidates
  <2>2. ASSUME Synced(k)' = {} PROVE NoValue \in Outcomes(k)
    <3>1. /\ Exact(newKeyDir, k)
          /\ newKeyDir[k] # NoLoc => newKeyDir[k].file = mergedFileID
      BY <1>2 DEF IInv, RemovalInProgress
    <3>2. CASE newKeyDir[k] # NoLoc
      <4>1. newKeyDir[k] \in Records(k) /\ newKeyDir[k].file = mergedFileID
        BY <3>1, <3>2 DEF Exact, Newest
      <4>2. newKeyDir[k].offset + newKeyDir[k].size <= durable[mergedFileID]
        BY <1>2, <1>3, <4>1, LogLocation DEF SyncedBound, Records, InFile
      <4>3. newKeyDir[k] \in Synced(k)'
        BY <1>3, <1>5, <4>1, <4>2 DEF Synced
      <4> QED BY <2>2, <4>3
    <3>3. CASE newKeyDir[k] = NoLoc
      <4>1. Says(k, NoValue)
        BY <3>1, <3>3 DEF Exact, Says
      <4> QED BY <1>2, <4>1, SaysOutcome
    <3> QED BY <3>2, <3>3
  <2>3. \A l \in Candidates(k)' : RecordAt(l)'.val \in Outcomes(k)
    BY <2>1, OutcomesAre
  <2> QED BY <2>2, <2>3, OutcomesAreNext
<1>7. <<Store, [k \in Keys |-> Outcomes(k)]>>' \in Promise!Narrowed([k \in Keys |-> Outcomes(k)])
  <2>1. PICK outs : outs = [k \in Keys |-> Outcomes(k)]
    OBVIOUS
  <2>2. \A k \in Keys : Outcomes(k)' \subseteq outs[k]
    BY <1>6, <2>1
  <2> QED BY <1>2, <2>1, <2>2, NarrowedNext
<1>8. [Next]_vars
  BY DEF Next, LockHolder
<1> QED BY <1>2, <1>7, <1>8, CompactionStore DEF Promise!Settle

-----------------------------------------------------------------------------
(* Crashes. *)

(* A crash that keeps each synced record, and of the others only what was  *)
(* in the file, leaves one of the outcomes or the write that was under way. *)
LEMMA CrashMapped ==
  ASSUME IInv, IInv', pc \in Running \cup {"down"}, pc' = "down",
         \A k \in Keys : /\ \A l \in Candidates(k)' : l \in Records(k) /\ RecordAt(l)' = RecordAt(l)
                         /\ Synced(k) \subseteq Synced(k)'
  PROVE  Promise!Crash
<1>0. PICK before : before = [k \in Keys |-> Outcomes(k)]
  OBVIOUS
<1>1. PICK outs : outs = [k \in Keys |->
                            before[k] \cup {w.val : w \in {p \in Pending : p.key = k}}]
  OBVIOUS
<1>2. ASSUME NEW k \in Keys PROVE Outcomes(k)' \subseteq outs[k]
  <2>1. outs[k] = Outcomes(k) \cup {w.val : w \in {p \in Pending : p.key = k}}
    BY <1>0, <1>1
  <2>2. ASSUME NEW l \in Candidates(k)' PROVE RecordAt(l)'.val \in outs[k]
    <3>1. l \in Records(k) /\ RecordAt(l)' = RecordAt(l)
      BY <2>2
    <3>2. CASE l \in InFlight
      <4>1. pc = "sync" /\ record.key = k /\ RecordAt(l) = record
        BY <3>1, <3>2, InFlightIs
      <4> QED BY <2>1, <3>1, <4>1 DEF Pending
    <3>3. CASE l \notin InFlight
      <4>1. l \in Candidates(k)
        BY <2>2, <3>1, <3>3 DEF Candidates, After
      <4> QED BY <2>1, <3>1, <4>1, OutcomesAre
    <3> QED BY <3>2, <3>3
  <2>3. Synced(k)' = {} => NoValue \in outs[k]
    BY <2>1, OutcomesAre
  <2> QED BY <2>2, <2>3, OutcomesAreNext
<1>3. <<Store, [k \in Keys |-> Outcomes(k)]>>' \in Promise!Narrowed(outs)
  BY <1>2, NarrowedNext
<1>4. Status \in {"up", "down"} /\ Status' = "down" /\ Pending' = {}
  BY DEF Status, Pending, Running
<1> QED BY <1>0, <1>1, <1>3, <1>4 DEF Promise!Crash

(* A record of the log is one that the cells of a file hold. *)
LEMMA LogHolds ==
  ASSUME TypeOK
  PROVE  \A loc \in Location, r \in Record : loc.file \in dir =>
           (loc \in Log /\ RecordAt(loc) = r <=>
              loc.size = Size(r) /\ HoldsIn(loc.file, loc.offset, r))
<1> SUFFICES ASSUME NEW loc \in Location, NEW r \in Record, loc.file \in dir
    PROVE  loc \in Log /\ RecordAt(loc) = r <=>
             loc.size = Size(r) /\ HoldsIn(loc.file, loc.offset, r)
  OBVIOUS
<1>1. loc.file \in FileIDs /\ loc.offset \in Nat
  BY DEF Location
<1>2. loc \in Log => WholeAt(loc.file, loc.offset) /\ loc.size = Size(RecordAt(loc))
  BY LogLocation
<1>3. loc \in Log => HoldsIn(loc.file, loc.offset, RecordAt(loc))
  BY <1>1, <1>2, WholeHolds DEF HoldsIn, RecordAt
<1>4. HoldsIn(loc.file, loc.offset, r) =>
        WholeAt(loc.file, loc.offset) /\ RecordAt(loc) = r
  BY <1>1, HoldsWhole DEF HoldsIn, RecordAt
<1> QED BY <1>2, <1>3, <1>4, LogMembers

(* The same in the next state. *)
LEMMA LogHoldsNext ==
  TypeOK' => (\A loc \in Location, r \in Record : loc.file \in dir =>
                (loc \in Log /\ RecordAt(loc) = r <=>
                   loc.size = Size(r) /\ HoldsIn(loc.file, loc.offset, r)))'
<1>1. TypeOK => \A loc \in Location, r \in Record : loc.file \in dir =>
                  (loc \in Log /\ RecordAt(loc) = r <=>
                     loc.size = Size(r) /\ HoldsIn(loc.file, loc.offset, r))
  BY LogHolds
<1> QED BY <1>1, PTL

(* What is in the log next is in a file of the directory, and a record. *)
LEMMA LogLocationNext ==
  TypeOK' => (\A loc \in Log :
                loc \in Location /\ loc.file \in dir /\ RecordAt(loc) \in Record)'
<1>1. TypeOK => \A loc \in Log :
                  loc \in Location /\ loc.file \in dir /\ RecordAt(loc) \in Record
  BY LogLocation
<1> QED BY <1>1, PTL

(* Cells that are cut short at length m keep the records that end before.  *)
LEMMA PrefixHolds ==
  ASSUME NEW s \in Seq(Cell), NEW m \in 0 .. Len(s), NEW t, t = SubSeq(s, 1, m),
         NEW n \in Nat, NEW r \in Record
  PROVE  Holds(t, n, r) <=> Holds(s, n, r) /\ n + Size(r) <= m
<1>1. PICK size \in Nat \ {0}, len \in Nat : size = Size(r) /\ len = Len(s)
  BY CellsType, LenProperties
<1>2. Len(t) = m /\ m \in Nat /\ m <= len /\ \A i \in 1 .. m : t[i] = s[i]
  BY <1>1, PrefixType
<1>3. ASSUME n + size <= m, NEW i \in 1 .. size
      PROVE  Piece(t, n, r, i) <=> Piece(s, n, r, i)
  <2>1. n + i \in 1 .. m
    BY <1>2, <1>3
  <2> QED BY <1>2, <2>1 DEF Piece
<1>4. Holds(t, n, r) <=> n + size <= m /\ \A i \in 1 .. size : Piece(t, n, r, i)
  BY <1>1, <1>2 DEF Holds
<1>5. Holds(s, n, r) <=> n + size <= len /\ \A i \in 1 .. size : Piece(s, n, r, i)
  BY <1>1 DEF Holds
<1>6. n + size <= m => n + size <= len
  BY <1>2
<1> QED BY <1>1, <1>3, <1>4, <1>5, <1>6

(* The first cells of a record, but not all, make no record. *)
LEMMA TornHolds ==
  ASSUME NEW s \in Seq(Cell), NEW c \in Record, NEW part \in Torn(Cells(c)),
         NEW t, t = s \o part, NEW n \in Nat, NEW r \in Record
  PROVE  Holds(t, n, r) <=> Holds(s, n, r)
<1>1. PICK whole \in Seq(Cell), len \in Nat, size \in Nat \ {0}, q \in Nat \ {0} :
        /\ whole = Cells(c) /\ len = Len(s) /\ size = Size(c) /\ q = Size(r)
        /\ Len(whole) = size
  BY CellsType, LenProperties
<1>2. \A i \in 1 .. size : whole[i] = [rec |-> c, part |-> i]
  BY <1>1, CellsType
<1>3. PICK m \in 0 .. size - 1 : part = SubSeq(whole, 1, m)
  BY <1>1 DEF Torn
<1>4. /\ m \in Nat /\ m < size /\ part \in Seq(Cell) /\ Len(part) = m
      /\ \A i \in 1 .. m : part[i] = whole[i]
  <2>1. m \in 0 .. Len(whole)
    BY <1>1
  <2> QED BY <1>3, <2>1, PrefixType
<1>5. /\ Len(t) = len + m
      /\ \A i \in 1 .. len : t[i] = s[i]
      /\ \A i \in 1 .. m : t[len + i] = part[i]
  <2>1. /\ Len(s \o part) = Len(s) + Len(part)
        /\ \A i \in 1 .. Len(s) : (s \o part)[i] = s[i]
        /\ \A i \in 1 .. Len(part) : (s \o part)[Len(s) + i] = part[i]
    BY <1>4, ConcatParts
  <2> QED BY <1>1, <1>4, <2>1
<1>6. ASSUME n + q <= len, NEW i \in 1 .. q
      PROVE  Piece(t, n, r, i) <=> Piece(s, n, r, i)
  <2>1. n + i \in 1 .. len
    BY <1>6
  <2> QED BY <1>5, <2>1 DEF Piece
<1>7. Holds(t, n, r) <=> n + q <= len + m /\ \A i \in 1 .. q : Piece(t, n, r, i)
  BY <1>1, <1>5 DEF Holds
<1>8. Holds(s, n, r) <=> n + q <= len /\ \A i \in 1 .. q : Piece(s, n, r, i)
  BY <1>1 DEF Holds
<1>9. ASSUME Holds(t, n, r) PROVE n + q <= len
  <2> SUFFICES ASSUME n + q > len PROVE FALSE
    OBVIOUS
  <2>1. n + q <= len + m /\ Piece(t, n, r, q)
    BY <1>7, <1>9
  <2>2. PICK i \in 1 .. m : len + i = n + q
    <3>1. (n + q) - len \in 1 .. m /\ len + ((n + q) - len) = n + q
      BY <1>4, <2>1
    <3> QED BY <3>1
  <2>3. part[i] = [rec |-> c, part |-> i]
    <3>1. i \in 1 .. size
      BY <1>4
    <3> QED BY <1>2, <1>4, <3>1
  <2>4. t[n + q] = [rec |-> r, part |-> q] /\ t[n + q] = [rec |-> c, part |-> i]
    BY <1>5, <2>1, <2>2, <2>3 DEF Piece
  <2>5. [rec |-> r, part |-> q] = [rec |-> c, part |-> i]
    BY <2>4
  <2>6. r = c
    BY <2>5
  <2>7. q = i
    BY <2>5
  <2>8. size = q
    BY <1>1, <2>6
  <2> QED BY <1>4, <2>7, <2>8
<1>10. n + q <= len => n + q <= len + m
  BY <1>4
<1> QED BY <1>6, <1>7, <1>8, <1>9, <1>10

(* Files that hold the same records are the same log. *)
LEMMA SameHoldsSameLog ==
  ASSUME TypeOK, TypeOK', dir' = dir,
         \A f \in FileIDs, n \in Nat, r \in Record : HoldsIn(f, n, r)' <=> HoldsIn(f, n, r)
  PROVE  LogUnchanged
<1>1. ASSUME NEW l \in Log PROVE l \in Log' /\ RecordAt(l)' = RecordAt(l)
  <2>1. PICK r \in Record : r = RecordAt(l) /\ l \in Location /\ l.file \in dir
    BY LogLocation
  <2>2. l.size = Size(r) /\ HoldsIn(l.file, l.offset, r)
    BY <2>1, LogHolds
  <2>3. HoldsIn(l.file, l.offset, r)'
    BY <2>1, <2>2 DEF Location
  <2> QED BY <2>1, <2>2, <2>3, LogHoldsNext DEF Size
<1>2. ASSUME NEW l \in Log' PROVE l \in Log
  <2>1. PICK r \in Record : r = RecordAt(l)' /\ l \in Location /\ l.file \in dir
    BY <1>2, LogLocationNext
  <2>2. l.size = Size(r) /\ HoldsIn(l.file, l.offset, r)'
    BY <1>2, <2>1, LogHoldsNext DEF Size
  <2>3. HoldsIn(l.file, l.offset, r)
    BY <2>1, <2>2 DEF Location
  <2> QED BY <2>1, <2>2, <2>3, LogHolds
<1> QED BY <1>1, <1>2 DEF LogUnchanged

(* A kill leaves what was written, and at most a part of a record behind it. *)
LEMMA KillMapped ==
  ASSUME IInv, IInv', SyncedBound, Kill
  PROVE  Promise!Crash
<1>1. pc \in Running /\ pc' = "down" /\ UNCHANGED <<dir, durable>> /\ TypeOK /\ TypeOK'
  BY DEF Kill, Die, IInv
<1>2. LogUnchanged
  <2>1. CASE UNCHANGED files
    BY <1>1, <2>1, UnchangedDisk
  <2>2. ASSUME pc = "write", fileOpen, NEW part \in Torn(Cells(record)),
               files' = [files EXCEPT ![currentFileID] = @ \o part]
        PROVE  LogUnchanged
    <3>1. record \in Record /\ currentFileID \in FileIDs
      BY <1>1, <2>2 DEF TypeOK
    <3>2. ASSUME NEW f \in FileIDs, NEW n \in Nat, NEW r \in Record
          PROVE  HoldsIn(f, n, r)' <=> HoldsIn(f, n, r)
      <4>1. CASE f = currentFileID
        <5>1. PICK s \in Seq(Cell) : s = files[f] /\ files'[f] = s \o part
          BY <1>1, <2>2, <3>1, <4>1 DEF TypeOK
        <5>2. Holds(files'[f], n, r) <=> Holds(files[f], n, r)
          BY <3>1, <5>1, TornHolds
        <5> QED BY <5>2 DEF HoldsIn, Holds, Piece, Size
      <4>2. CASE f # currentFileID
        <5>1. files'[f] = files[f]
          BY <1>1, <2>2, <4>2 DEF TypeOK
        <5> QED BY <5>1 DEF HoldsIn, Holds, Piece, Size
      <4> QED BY <4>1, <4>2
    <3> QED BY <1>1, <3>2, SameHoldsSameLog
  <2> QED BY <2>1, <2>2 DEF Kill
<1>3. /\ \A k : Records(k)' = Records(k)
      /\ \A k : \A l \in Records(k) : RecordAt(l)' = RecordAt(l)
  BY <1>2, SameLogSameNewest DEF LogUnchanged, Records
<1>4. \A k : Synced(k)' = Synced(k)
  BY <1>1, <1>3 DEF Synced
<1> QED BY <1>1, <1>3, <1>4, CrashMapped DEF Candidates

(* A power failure leaves every synced record, and invents none. *)
LEMMA PowerLossMapped ==
  ASSUME IInv, IInv', SyncedBound, PowerLoss
  PROVE  Promise!Crash
<1>1. /\ pc \in Running \cup {"down"} /\ pc' = "down" /\ UNCHANGED dir
      /\ TypeOK /\ TypeOK'
  BY DEF PowerLoss, Die, IInv
<1>2. \A f \in FileIDs : /\ files[f] \in Seq(Cell) /\ Len(files[f]) \in Nat
                         /\ Len(files'[f]) \in Nat
                         /\ durable[f] \in Nat /\ durable[f] <= Len(files[f])
                         /\ durable'[f] = Len(files'[f])
  BY <1>1, LenType DEF TypeOK, SyncedBound, PowerLoss
<1>3. ASSUME NEW f \in dir
      PROVE  /\ durable[f] <= durable'[f]
             /\ \A n \in Nat, r \in Record : HoldsIn(f, n, r)' <=>
                  HoldsIn(f, n, r) /\ n + Size(r) <= durable'[f]
  <2>1. f \in FileIDs
    BY <1>1 DEF TypeOK
  <2>2. CASE f \in Unsynced
    <3>1. files'[f] \in Survivors(files[f], durable[f])
      BY <2>1, <2>2 DEF PowerLoss
    <3>2. PICK m \in durable[f] .. Len(files[f]) : files'[f] = SubSeq(files[f], 1, m)
      BY <3>1 DEF Survivors
    <3>3. m \in 0 .. Len(files[f]) /\ durable[f] <= m /\ durable'[f] = m
      BY <1>2, <2>1, <3>2, PrefixType
    <3>4. ASSUME NEW n \in Nat, NEW r \in Record
          PROVE  HoldsIn(f, n, r)' <=> HoldsIn(f, n, r) /\ n + Size(r) <= m
      <4>1. Holds(files'[f], n, r) <=> Holds(files[f], n, r) /\ n + Size(r) <= m
        BY <1>2, <2>1, <3>2, <3>3, PrefixHolds
      <4> QED BY <4>1 DEF HoldsIn, Holds, Piece, Size
    <3> QED BY <3>3, <3>4
  <2>3. CASE f \notin Unsynced
    <3>1. files'[f] = files[f]
      BY <2>1, <2>3 DEF PowerLoss
    <3>2. durable[f] <= durable'[f] /\ durable'[f] = Len(files[f])
      BY <1>2, <2>1, <3>1
    <3>3. ASSUME NEW n \in Nat, NEW r \in Record
          PROVE  HoldsIn(f, n, r)' <=> HoldsIn(f, n, r) /\ n + Size(r) <= Len(files[f])
      BY <3>1 DEF HoldsIn, Holds, Piece, Size
    <3> QED BY <3>2, <3>3
  <2> QED BY <2>2, <2>3
<1>4. ASSUME NEW l \in Log' PROVE l \in Log /\ RecordAt(l)' = RecordAt(l)
  <2>1. PICK r \in Record : r = RecordAt(l)' /\ l \in Location /\ l.file \in dir
    BY <1>1, <1>4, LogLocationNext
  <2>2. l.size = Size(r) /\ HoldsIn(l.file, l.offset, r)'
    BY <1>1, <1>4, <2>1, LogHoldsNext DEF Size
  <2>3. HoldsIn(l.file, l.offset, r)
    BY <1>3, <2>1, <2>2 DEF Location
  <2> QED BY <1>1, <2>1, <2>2, <2>3, LogHolds
<1>5. ASSUME NEW l \in Log, l.offset + l.size <= durable[l.file]
      PROVE  /\ l \in Log' /\ RecordAt(l)' = RecordAt(l)
             /\ l.offset + l.size <= durable'[l.file]
  <2>1. PICK r \in Record : r = RecordAt(l) /\ l \in Location /\ l.file \in dir
    BY <1>1, LogLocation
  <2>2. l.size = Size(r) /\ HoldsIn(l.file, l.offset, r)
    BY <1>1, <2>1, LogHolds
  <2>3. l.offset \in Nat /\ l.size \in Nat /\ l.file \in FileIDs
    BY <2>1 DEF Location
  <2>4. l.offset + l.size <= durable'[l.file]
    <3>1. durable[l.file] <= durable'[l.file]
      BY <1>3, <2>1
    <3>2. durable[l.file] \in Nat /\ durable'[l.file] \in Nat
      BY <1>2, <2>3
    <3> QED BY <1>5, <2>3, <3>1, <3>2
  <2>5. HoldsIn(l.file, l.offset, r)'
    BY <1>3, <2>1, <2>2, <2>3, <2>4
  <2> QED BY <1>1, <2>1, <2>2, <2>4, <2>5, LogHoldsNext DEF Size
<1>6. ASSUME NEW k \in Keys
      PROVE  /\ \A l \in Candidates(k)' : l \in Records(k) /\ RecordAt(l)' = RecordAt(l)
             /\ Synced(k) \subseteq Synced(k)'
  <2>1. \A l \in Records(k)' : l \in Records(k) /\ RecordAt(l)' = RecordAt(l)
    BY <1>4 DEF Records
  <2>2. \A l \in Synced(k) : l \in Synced(k)'
    BY <1>5 DEF Synced, Records
  <2> QED BY <2>1, <2>2 DEF Candidates
<1> QED BY <1>1, <1>6, CrashMapped

-----------------------------------------------------------------------------
(* The refinement. *)

(* The store is empty at first. *)
LEMMA InitMapped == Init => Promise!Init
<1> SUFFICES ASSUME Init PROVE Promise!Init
  OBVIOUS
<1>1. /\ \A f \in FileIDs : files[f] = <<>>
      /\ dir \subseteq FileIDs /\ pc = "down"
  BY BoundAssumption DEF Init, FileIDs
<1>2. Log = {}
  <2>1. Len(<<>>) = 0
    OBVIOUS
  <2>2. \A f \in dir : Offsets(f) = {}
    BY <1>1, <2>1 DEF Offsets, WholeAt
  <2> QED BY <2>2 DEF Log
<1>3. ASSUME NEW k \in Keys PROVE Store[k] = NoValue /\ Outcomes(k) = {NoValue}
  <2>1. Records(k) = {}
    BY <1>2 DEF Records
  <2> QED BY <1>1, <2>1 DEF Store, Outcomes, OnDisk, Running
<1>4. Store = [k \in Keys |-> NoValue]
  BY <1>3 DEF Store
<1>5. Pending = {} /\ Status = "down"
  BY <1>1 DEF Pending, Status, Running
<1> QED BY <1>3, <1>4, <1>5 DEF Promise!Init

(* Every step of the engine is one that KVStore allows. *)
LEMMA StepMapped ==
  ASSUME IInv, IInv', SyncedBound, [Next]_vars, Faults \subseteq {"open"}, MaxFileID <= 9
  PROVE  [Promise!Next]_Promise!kvVars
<1>1. \A k \in Keys : ~SkipRecord(k)
  BY NothingIsSkipped
<1>2. ~SyncFails /\ ~CompactGivesUp /\ (WriteFails => UNCHANGED files)
  BY DEF SyncFails, CompactGivesUp, WriteFails
<1>3. CASE UNCHANGED vars
  <2>1. /\ UNCHANGED <<Status, Pending, InFlight, Index>>
        /\ UNCHANGED <<pc, dir, files, durable>>
    BY <1>3
       DEF vars, disk, memory, compaction, Status, Pending, InFlight, RecordLocation, Size, Index
  <2>2. UNCHANGED <<Store, [k \in Keys |-> Outcomes(k)]>>
    BY <2>1 DEF Store, Get, WholeAt, OnDisk, Newest, Records, Log, Offsets, Placed, RecordAt,
                Size, After, Outcomes
  <2> QED BY <2>1, <2>2 DEF Promise!kvVars
<1>4. CASE Caller
  BY <1>4, BeginMapped, QuietMapped DEF Caller, Promise!Next
<1>5. CASE LockHolder
  BY <1>1, <1>2, <1>5, QuietMapped, FailMapped, AppendMapped, SyncMapped, CopyMapped,
     SyncMergedMapped, RemoveFileMapped DEF LockHolder, Promise!Next
<1>6. CASE Environment
  BY <1>6, KillMapped, PowerLossMapped, OpenMapped, RefuseMapped
     DEF Environment, Promise!Next
<1> QED BY <1>3, <1>4, <1>5, <1>6 DEF Next

(* The storage engine, with its rotations, compactions, kills, power       *)
(* failures and recoveries, is a KVStore: an acknowledged write survives   *)
(* every crash, an interrupted one happened or did not, and nothing else   *)
(* moves a read (DESIGN_GUIDE.md:166-167), provided that only opens of     *)
(* files fail and that file IDs keep to one digit.                         *)
THEOREM PromiseKept ==
  ASSUME Faults \subseteq {"open"}, MaxFileID <= 9
  PROVE  Spec => KeepsPromise
<1>1. Init => Promise!Init /\ SyncedBound
  <2>1. Init => SyncedBound
    <3>1. Len(<<>>) = 0
      OBVIOUS
    <3> QED BY <3>1 DEF Init, SyncedBound
  <2> QED BY <2>1, InitMapped
<1>2. IInv /\ IInv' /\ SyncedBound /\ [Next]_vars => SyncedBound'
  BY SyncedBoundStep
<1>3. IInv /\ IInv' /\ SyncedBound /\ [Next]_vars => [Promise!Next]_Promise!kvVars
  BY StepMapped
<1> QED BY <1>1, <1>2, <1>3, InvariantHolds, PTL DEF Spec, KeepsPromise, Promise!Spec
=============================================================================
