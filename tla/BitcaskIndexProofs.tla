------------------------ MODULE BitcaskIndexProofs -------------------------
(***************************************************************************)
(* The index is exact: IInv of BitcaskInvariant is inductive, and implies  *)
(* IndexIsExact.  A compaction is invisible to readers, and leaves one     *)
(* record of each live key.                                                *)
(***************************************************************************)
EXTENDS BitcaskProofs, FiniteSetTheorems

-----------------------------------------------------------------------------
(* The log and its order. *)

(* The log is the set of the locations of whole records in files of dir. *)
LEMMA LogMembers ==
  ASSUME TypeOK
  PROVE  \A loc : loc \in Log <=>
           /\ loc \in Location /\ loc.file \in dir
           /\ WholeAt(loc.file, loc.offset) /\ loc.size = Size(RecordAt(loc))
<1> SUFFICES ASSUME NEW loc \in Location, loc.file \in dir,
                    WholeAt(loc.file, loc.offset), loc.size = Size(RecordAt(loc))
    PROVE  loc \in Log
  BY LogLocation
<1>1. Len(files[loc.file]) \in Nat
  BY LenType DEF TypeOK, Location
<1>2. loc.offset \in 0 .. Len(files[loc.file])
  BY <1>1 DEF WholeAt, Location
<1>3. loc = Placed(loc.file, loc.offset)
  BY DEF Location, Placed, RecordAt
<1> QED BY <1>2, <1>3 DEF Log, Offsets

(* The same in the next state. *)
LEMMA LogMembersNext ==
  TypeOK' => (\A loc : loc \in Log <=>
                /\ loc \in Location /\ loc.file \in dir
                /\ WholeAt(loc.file, loc.offset) /\ loc.size = Size(RecordAt(loc)))'
<1>1. TypeOK => \A loc : loc \in Log <=>
                  /\ loc \in Location /\ loc.file \in dir
                  /\ WholeAt(loc.file, loc.offset) /\ loc.size = Size(RecordAt(loc))
  BY LogMembers
<1> QED BY <1>1, PTL

(* A file that stays as it is keeps its records. *)
LEMMA SameFile ==
  ASSUME NEW f, files'[f] = files[f]
  PROVE  /\ \A n : WholeAt(f, n)' <=> WholeAt(f, n)
         /\ \A loc : loc.file = f => RecordAt(loc)' = RecordAt(loc)
BY DEF WholeAt, RecordAt, Size

(* The cells of s from n on are those of the record r, or begin with them. *)
Piece(s, n, r, i) == s[n + i] = [rec |-> r, part |-> i]
Holds(s, n, r) == n + Size(r) <= Len(s) /\ \A i \in 1 .. Size(r) : Piece(s, n, r, i)

HoldsIn(f, n, r) == Holds(files[f], n, r)
HeldIn(f, n, r) == Holds(files[f], n, r) /\ files[f][n + 1].rec = r

(* That is what a whole record is. *)
LEMMA WholeHolds ==
  ASSUME TypeOK
  PROVE  \A f \in FileIDs, n \in Nat : WholeAt(f, n) =>
           /\ files[f][n + 1].rec \in Record
           /\ Holds(files[f], n, files[f][n + 1].rec)
<1> SUFFICES ASSUME NEW f \in FileIDs, NEW n \in Nat, WholeAt(f, n)
    PROVE  /\ files[f][n + 1].rec \in Record
           /\ Holds(files[f], n, files[f][n + 1].rec)
  OBVIOUS
<1> QED BY WholeType DEF Holds, Piece

(* And the other way around. *)
LEMMA HoldsWhole ==
  \A f \in FileIDs, n \in Nat, r \in Record :
    Holds(files[f], n, r) => WholeAt(f, n) /\ files[f][n + 1].rec = r
<1> SUFFICES ASSUME NEW f \in FileIDs, NEW n \in Nat, NEW r \in Record,
                    Holds(files[f], n, r)
    PROVE  WholeAt(f, n) /\ files[f][n + 1].rec = r
  OBVIOUS
<1>1. PICK size \in Nat \ {0} : size = Size(r)
  BY CellsType
<1>2. \A i \in 1 .. size : Piece(files[f], n, r, i)
  BY <1>1 DEF Holds
<1>3. Piece(files[f], n, r, 1)
  BY <1>1, <1>2
<1>4. files[f][n + 1].part = 1 /\ files[f][n + 1].rec = r
  BY <1>3 DEF Piece
<1>5. \A i \in 2 .. size : files[f][n + i] = [rec |-> r, part |-> i]
  <2>1. ASSUME NEW i \in 2 .. size PROVE Piece(files[f], n, r, i)
    <3>1. i \in 1 .. size
      BY <1>1
    <3> QED BY <1>2, <3>1
  <2> QED BY <2>1 DEF Piece
<1>6. n + size <= Len(files[f])
  BY <1>1 DEF Holds
<1>7. PICK len : len = Len(files[f])
  OBVIOUS
<1>8. n < Len(files[f])
  BY <1>1, <1>6, <1>7
<1> QED BY <1>1, <1>4, <1>5, <1>6, <1>8 DEF WholeAt

(* The same in the next state. *)
LEMMA WholeHoldsNext ==
  TypeOK' => (\A f \in FileIDs, n \in Nat :
                WholeAt(f, n) => \E r \in Record : HeldIn(f, n, r))'
<1>1. TypeOK => \A f \in FileIDs, n \in Nat :
        WholeAt(f, n) => \E r \in Record : HeldIn(f, n, r)
  BY WholeHolds DEF HeldIn
<1> QED BY <1>1, PTL

(* The same in the next state, the other way around. *)
LEMMA HoldsWholeNext ==
  (\A f \in FileIDs, n \in Nat, r \in Record :
     HoldsIn(f, n, r) => WholeAt(f, n) /\ HeldIn(f, n, r))'
<1>1. \A f \in FileIDs, n \in Nat, r \in Record :
        HoldsIn(f, n, r) => WholeAt(f, n) /\ HeldIn(f, n, r)
  BY HoldsWhole DEF HoldsIn, HeldIn
<1> QED BY <1>1, PTL

(* A location of the log leads to the cells of its record. *)
LEMMA LogBytes ==
  ASSUME TypeOK, NEW loc \in Log
  PROVE  Bytes(loc) = Cells(RecordAt(loc))
<1>1. /\ loc \in Location /\ loc.file \in dir /\ InFile(loc)
      /\ WholeAt(loc.file, loc.offset)
      /\ loc.size = Size(RecordAt(loc)) /\ RecordAt(loc) \in Record
  BY LogLocation
<1>2. PICK b \in Seq(Cell), c \in Seq(Cell), n \in Nat, r \in Record :
        /\ b = Bytes(loc) /\ c = Cells(RecordAt(loc)) /\ n = loc.size
        /\ r = RecordAt(loc) /\ Len(b) = n /\ Len(c) = n /\ n = Size(r)
  BY <1>1, BytesType, CellsType DEF Location
<1>3. Holds(files[loc.file], loc.offset, r)
  <2>1. loc.file \in FileIDs /\ loc.offset \in Nat
    BY <1>1 DEF Location
  <2> QED BY <1>1, <1>2, <2>1, WholeHolds DEF RecordAt
<1>4. ASSUME NEW i \in 1 .. n PROVE b[i] = c[i]
  <2>1. b[i] = files[loc.file][loc.offset + i]
    BY <1>1, <1>2, BytesType
  <2>2. c[i] = [rec |-> r, part |-> i]
    BY <1>2, CellsType
  <2>3. Piece(files[loc.file], loc.offset, r, i)
    BY <1>2, <1>3 DEF Holds
  <2> QED BY <2>1, <2>2, <2>3 DEF Piece
<1>5. \A i \in 1 .. Len(b) : b[i] = c[i]
  BY <1>2, <1>4
<1> QED BY <1>2, <1>5, SeqEqual

(* Two records of the log are the same or one is after the other. *)
LEMMA AfterIsTotal ==
  ASSUME TypeOK, NEW l \in Log, NEW m \in Log, ~After(l, m), ~After(m, l)
  PROVE  l = m
<1>1. /\ l \in Location /\ m \in Location
      /\ l.size = Size(RecordAt(l)) /\ m.size = Size(RecordAt(m))
  BY LogLocation
<1>2. l.file = m.file /\ l.offset = m.offset
  BY <1>1, BoundAssumption DEF After, Location, FileIDs
<1>3. RecordAt(l) = RecordAt(m)
  BY <1>2 DEF RecordAt
<1> QED BY <1>1, <1>2, <1>3 DEF Location

(* A key has at most one newest record. *)
LEMMA NewestIsUnique ==
  ASSUME TypeOK, NEW k, NEW l \in Newest(k), NEW m \in Newest(k)
  PROVE  l = m
BY AfterIsTotal DEF Newest, Records

(* The record that ends the last file is the newest of its key: no record  *)
(* begins inside another.                                                  *)
LEMMA LastIsNewest ==
  ASSUME TypeOK, NEW loc \in Log, \A g \in dir : g <= loc.file,
         loc.offset + loc.size = Len(files[loc.file])
  PROVE  loc \in Newest(RecordAt(loc).key)
<1>1. ASSUME NEW m \in Log PROVE ~After(m, loc)
  <2>1. /\ loc \in Location /\ WholeAt(loc.file, loc.offset) /\ loc.size = Size(RecordAt(loc))
        /\ m \in Location /\ m.file \in dir /\ WholeAt(m.file, m.offset)
    BY LogLocation
  <2>2. m.file <= loc.file /\ m.file \in Int /\ loc.file \in Int
    BY <2>1, BoundAssumption DEF Location, FileIDs
  <2>3. ASSUME m.file = loc.file, m.offset > loc.offset PROVE FALSE
    <3>1. PICK o \in Nat, n \in Nat, x \in Nat :
            o = loc.offset /\ n = loc.size /\ x = m.offset
      BY <2>1 DEF Location
    <3>2. x < o + n /\ o < x /\ files[loc.file][x + 1].part = 1
      BY <2>1, <2>3, <3>1 DEF WholeAt
    <3>3. loc.file \in FileIDs
      BY <2>1 DEF Location
    <3>4. Holds(files[loc.file], o, RecordAt(loc))
      BY <2>1, <3>1, <3>3, WholeHolds DEF RecordAt
    <3>5. PICK i \in 1 .. n : o + i = x + 1 /\ i # 1
      <4>1. (x + 1) - o \in 1 .. n /\ o + ((x + 1) - o) = x + 1 /\ (x + 1) - o # 1
        BY <3>1, <3>2
      <4> QED BY <4>1
    <3>6. Piece(files[loc.file], o, RecordAt(loc), i)
      BY <2>1, <3>1, <3>4 DEF Holds
    <3>7. files[loc.file][x + 1].part = i
      BY <3>5, <3>6 DEF Piece
    <3> QED BY <3>2, <3>5, <3>7
  <2> QED BY <2>2, <2>3 DEF After
<1> QED BY <1>1 DEF Newest, Records

(* While file IDs have one digit the listing is in numerical order, so a   *)
(* replay ends with the newest record of each key.                         *)
LEMMA ListingIsNumerical ==
  ASSUME MaxFileID <= 9, NEW i \in FileIDs, NEW j \in FileIDs
  PROVE  ListedBefore(i, j) <=> i < j
BY BoundAssumption DEF ListedBefore, Pad, FileIDs

(* With fewer than ten files the replay ends with the newest record. *)
LEMMA ReplayFindsNewest ==
  ASSUME TypeOK, MaxFileID <= 9, NEW k
  PROVE  ReplayedLast(k) = Newest(k)
<1>1. ASSUME NEW l \in Log, NEW m \in Log PROVE ReplayedAfter(m, l) <=> After(m, l)
  <2>1. l \in Location /\ m \in Location
    BY LogLocation
  <2>2. ListedBefore(l.file, m.file) <=> l.file < m.file
    BY <2>1, ListingIsNumerical DEF Location
  <2> QED BY <2>1, <2>2 DEF ReplayedAfter, After, Location, FileIDs
<1> QED BY <1>1 DEF ReplayedLast, Newest, Records

-----------------------------------------------------------------------------
(* How a step that changes the files changes the log. *)

LogUnchanged == Log' = Log /\ \A l \in Log : RecordAt(l)' = RecordAt(l)

(* A step that leaves the log alone leaves its newest records alone. *)
LEMMA SameLogSameNewest ==
  ASSUME LogUnchanged, NEW k
  PROVE  /\ Records(k)' = Records(k)
         /\ Newest(k)' = Newest(k)
         /\ \A l \in Newest(k) : RecordAt(l)' = RecordAt(l)
<1>1. Records(k)' = Records(k)
  BY DEF LogUnchanged, Records
<1>2. \A l, m : After(l, m)' <=> After(l, m)
  BY DEF After
<1>3. Newest(k)' = Newest(k)
  BY <1>1, <1>2 DEF Newest
<1> QED BY <1>1, <1>3 DEF LogUnchanged, Newest, Records

(* A step that leaves the disk alone leaves the log alone. *)
LEMMA UnchangedDisk ==
  ASSUME UNCHANGED <<dir, files>>
  PROVE  LogUnchanged
BY DEF LogUnchanged, Log, Offsets, Placed, WholeAt, RecordAt, Size

(* Creating an empty file changes nothing in the log. *)
LEMMA NewFileStep ==
  ASSUME TypeOK, TypeOK', NEW f \in FileIDs, f \notin dir,
         dir' = dir \cup {f}, files'[f] = <<>>, \A g \in dir : files'[g] = files[g]
  PROVE  LogUnchanged
<1>1. Len(<<>>) = 0
  OBVIOUS
<1>2. \A loc \in Location : loc.file = f => ~WholeAt(loc.file, loc.offset)'
  BY <1>1 DEF WholeAt, Location
<1>3. \A loc : loc.file \in dir =>
        /\ WholeAt(loc.file, loc.offset)' <=> WholeAt(loc.file, loc.offset)
        /\ RecordAt(loc)' = RecordAt(loc)
  BY SameFile
<1>4. \A loc : loc \in Log' <=>
        /\ loc \in Location /\ loc.file \in dir'
        /\ WholeAt(loc.file, loc.offset)' /\ loc.size = Size(RecordAt(loc))'
  BY LogMembersNext
<1>5. \A loc : loc.file \in dir => Size(RecordAt(loc))' = Size(RecordAt(loc))
  BY <1>3 DEF Size
<1>6. Log' = Log
  BY <1>2, <1>3, <1>4, <1>5, LogMembers
<1> QED BY <1>3, <1>6, LogMembers DEF LogUnchanged

(* The cells of a record at the end of a file are one whole record more,   *)
(* and part of no other.                                                   *)
LEMMA AppendedHolds ==
  ASSUME NEW s \in Seq(Cell), NEW c \in Record, NEW t \in Seq(Cell), t = s \o Cells(c)
  PROVE  /\ Holds(t, Len(s), c)
         /\ \A n \in Nat, r \in Record : Holds(s, n, r) => Holds(t, n, r)
         /\ \A n \in Nat, r \in Record :
              Holds(t, n, r) => Holds(s, n, r) \/ n = Len(s)
<1>1. PICK len \in Nat, size \in Nat \ {0}, u \in Seq(Cell) :
        /\ len = Len(s) /\ size = Size(c) /\ u = Cells(c) /\ Len(u) = size
  BY LenProperties, CellsType
<1>2. /\ Len(t) = len + size
      /\ \A i \in 1 .. len : t[i] = s[i]
      /\ \A i \in 1 .. size : t[len + i] = u[i]
  <2>1. t = s \o u
    BY <1>1
  <2>2. /\ Len(s \o u) = Len(s) + Len(u)
        /\ \A i \in 1 .. Len(s) : (s \o u)[i] = s[i]
        /\ \A i \in 1 .. Len(u) : (s \o u)[Len(s) + i] = u[i]
    BY ConcatParts
  <2> QED BY <1>1, <2>1, <2>2
<1>3. ASSUME NEW i \in 1 .. size PROVE Piece(t, len, c, i)
  <2>1. t[len + i] = u[i]
    BY <1>2
  <2>2. u[i] = [rec |-> c, part |-> i]
    BY <1>1, CellsType
  <2> QED BY <2>1, <2>2 DEF Piece
<1>4. Holds(t, Len(s), c)
  BY <1>1, <1>2, <1>3 DEF Holds
<1>5. ASSUME NEW n \in Nat, NEW r \in Record, NEW q \in Nat \ {0}, q = Size(r), n + q <= len
      PROVE  \A i \in 1 .. q : Piece(t, n, r, i) <=> Piece(s, n, r, i)
  <2> SUFFICES ASSUME NEW i \in 1 .. q PROVE t[n + i] = s[n + i]
    BY DEF Piece
  <2>1. n + i \in 1 .. len
    BY <1>5
  <2> QED BY <1>2, <2>1
<1>6. ASSUME NEW n \in Nat, NEW r \in Record, Holds(s, n, r)
      PROVE  Holds(t, n, r)
  <2>1. PICK q \in Nat \ {0} : q = Size(r)
    BY CellsType
  <2>2. n + q <= len /\ \A i \in 1 .. q : Piece(s, n, r, i)
    BY <1>1, <1>6, <2>1 DEF Holds
  <2>3. \A i \in 1 .. q : Piece(t, n, r, i)
    BY <1>5, <2>1, <2>2
  <2>4. n + q <= Len(t)
    BY <1>1, <1>2, <2>2
  <2> QED BY <2>1, <2>3, <2>4 DEF Holds
<1>7. ASSUME NEW n \in Nat, NEW r \in Record, Holds(t, n, r), n # len
      PROVE  Holds(s, n, r)
  <2>1. PICK q \in Nat \ {0} : q = Size(r)
    BY CellsType
  <2>2. n + q <= Len(t) /\ \A i \in 1 .. q : Piece(t, n, r, i)
    BY <1>7, <2>1 DEF Holds
  <2>3. CASE n + q <= len
    <3>1. \A i \in 1 .. q : Piece(s, n, r, i)
      BY <1>5, <2>1, <2>2, <2>3
    <3>2. n + q <= Len(s)
      BY <1>1, <2>3
    <3> QED BY <2>1, <3>1, <3>2 DEF Holds
  <2>4. CASE n + q > len
    <3>1. n + q <= len + size
      BY <1>2, <2>2
    <3>2. PICK i \in 1 .. size : len + i = n + q
      <4>1. (n + q) - len \in 1 .. size /\ len + ((n + q) - len) = n + q
        BY <2>4, <3>1
      <4> QED BY <4>1
    <3>3. Piece(t, len, c, i) /\ Piece(t, n, r, q)
      BY <1>3, <2>2
    <3>4. [rec |-> c, part |-> i] = [rec |-> r, part |-> q]
      BY <3>2, <3>3 DEF Piece
    <3>5. i = q
      BY <3>4
    <3> QED BY <1>7, <3>2, <3>5
  <2> QED BY <1>1, <2>1, <2>3, <2>4
<1> QED BY <1>1, <1>4, <1>6, <1>7

(* What that makes of a file. *)
LEMMA AppendedWhole ==
  ASSUME TypeOK, TypeOK', NEW f \in FileIDs, NEW c \in Record,
         files'[f] = files[f] \o Cells(c), NEW n \in Nat
  PROVE  /\ WholeAt(f, n)' <=> WholeAt(f, n) \/ n = Len(files[f])
         /\ WholeAt(f, n) => files'[f][n + 1].rec = files[f][n + 1].rec
         /\ n = Len(files[f]) => files'[f][n + 1].rec = c
<1>1. PICK s \in Seq(Cell), t \in Seq(Cell), len \in Nat :
        s = files[f] /\ t = files'[f] /\ len = Len(s) /\ t = s \o Cells(c)
  BY LenProperties DEF TypeOK
<1>2. /\ Holds(t, len, c)
      /\ \A m \in Nat, r \in Record : Holds(s, m, r) => Holds(t, m, r)
      /\ \A m \in Nat, r \in Record : Holds(t, m, r) => Holds(s, m, r) \/ m = len
  BY <1>1, AppendedHolds
<1>3. WholeAt(f, n) => s[n + 1].rec \in Record /\ Holds(s, n, s[n + 1].rec)
  BY <1>1, WholeHolds
<1>4. WholeAt(f, n)' => t[n + 1].rec \in Record /\ Holds(t, n, t[n + 1].rec)
  <2>1. WholeAt(f, n)' => \E r \in Record : HeldIn(f, n, r)'
    BY WholeHoldsNext
  <2> QED BY <1>1, <2>1 DEF HeldIn, Holds, Size, Piece
<1>5. \A r \in Record : Holds(s, n, r) => WholeAt(f, n) /\ s[n + 1].rec = r
  BY <1>1, HoldsWhole
<1>6. \A r \in Record : Holds(t, n, r) => WholeAt(f, n)' /\ t[n + 1].rec = r
  <2>1. \A r \in Record :
          Holds(files'[f], n, r) => WholeAt(f, n)' /\ files'[f][n + 1].rec = r
    BY HoldsWholeNext DEF Holds, Piece, Size, HoldsIn, HeldIn
  <2> QED BY <1>1, <2>1
<1> QED BY <1>1, <1>2, <1>3, <1>4, <1>5, <1>6

(* Appending a record to a file adds one location to the log. *)
LEMMA AppendStep ==
  ASSUME TypeOK, TypeOK', NEW f \in dir, NEW c \in Record,
         dir' = dir, files' = [files EXCEPT ![f] = @ \o Cells(c)],
         NEW new, new = [file |-> f, offset |-> Len(files[f]), size |-> Size(c)]
  PROVE  /\ new \in Location /\ new \notin Log
         /\ Log' = Log \cup {new}
         /\ RecordAt(new)' = c
         /\ \A l \in Log : RecordAt(l)' = RecordAt(l)
         /\ \A l \in Log : l.file = f => l.offset < new.offset
<1>1. f \in FileIDs /\ files[f] \in Seq(Cell) /\ Len(files[f]) \in Nat
  BY LenType DEF TypeOK
<1>2. new \in Location
  BY <1>1, CellsType DEF Location
<1>3. /\ files'[f] = files[f] \o Cells(c)
      /\ \A g \in FileIDs \ {f} : files'[g] = files[g]
  BY <1>1 DEF TypeOK
<1>4. \A loc : loc \in Log' <=>
        /\ loc \in Location /\ loc.file \in dir
        /\ WholeAt(loc.file, loc.offset)' /\ loc.size = Size(RecordAt(loc))'
  BY LogMembersNext
<1>5. \A l \in Log : l.file = f => l.offset < new.offset
  BY LogMembers DEF WholeAt
<1>6. RecordAt(new)' = c /\ Size(RecordAt(new))' = Size(c)
  <2>1. PICK len \in Nat : len = Len(files[f])
    BY <1>1
  <2>2. files'[f][len + 1].rec = c
    BY <1>1, <1>3, <2>1, AppendedWhole
  <2> QED BY <1>1, <1>3, <2>1, <2>2 DEF RecordAt, Size
<1>7. ASSUME NEW l \in Log
      PROVE  /\ RecordAt(l)' = RecordAt(l) /\ Size(RecordAt(l))' = Size(RecordAt(l))
             /\ WholeAt(l.file, l.offset)'
  <2>1. l \in Location /\ l.file \in FileIDs /\ l.offset \in Nat /\ WholeAt(l.file, l.offset)
    BY LogLocation DEF Location
  <2>2. CASE l.file = f
    <3>1. PICK o \in Nat : o = l.offset /\ WholeAt(f, o)
      BY <2>1, <2>2
    <3>2. /\ WholeAt(f, o)' <=> WholeAt(f, o) \/ o = Len(files[f])
          /\ WholeAt(f, o) => files'[f][o + 1].rec = files[f][o + 1].rec
      BY <1>1, <1>3, AppendedWhole
    <3>3. WholeAt(f, o)' /\ files'[f][o + 1].rec = files[f][o + 1].rec
      BY <3>1, <3>2
    <3> QED BY <2>2, <3>1, <3>3 DEF RecordAt, Size
  <2>3. CASE l.file # f
    BY <1>3, <2>1, <2>3, SameFile DEF Size
  <2> QED BY <2>2, <2>3
<1>8. new \in Log'
  BY <1>1, <1>2, <1>3, <1>4, <1>6, AppendedWhole
<1>9. ASSUME NEW l \in Log', l # new PROVE l \in Log
  <2>1. /\ l \in Location /\ l.file \in dir /\ l.file \in FileIDs /\ l.offset \in Nat
        /\ WholeAt(l.file, l.offset)' /\ l.size = Size(RecordAt(l))'
    BY <1>4 DEF Location
  <2>2. CASE l.file # f
    <3>1. RecordAt(l)' = RecordAt(l) /\ WholeAt(l.file, l.offset)
      BY <1>3, <2>1, <2>2, SameFile
    <3>2. l.size = Size(RecordAt(l))
      BY <2>1, <3>1 DEF Size
    <3> QED BY <2>1, <3>1, <3>2, LogMembers
  <2>3. CASE l.file = f
    <3>1. WholeAt(f, l.offset) \/ l.offset = Len(files[f])
      BY <1>1, <1>3, <2>1, <2>3, AppendedWhole
    <3>2. CASE l.offset = Len(files[f])
      <4>1. RecordAt(l)' = c
        BY <1>6, <2>3, <3>2 DEF RecordAt
      <4>2. l.size = Size(c)
        BY <2>1, <4>1 DEF Size
      <4> QED BY <1>9, <2>1, <2>3, <3>2, <4>2 DEF Location
    <3>3. CASE WholeAt(f, l.offset)
      <4>1. files'[f][l.offset + 1].rec = files[f][l.offset + 1].rec
        BY <1>1, <1>3, <2>1, <3>3, AppendedWhole
      <4>2. l.size = Size(RecordAt(l))
        BY <2>1, <2>3, <4>1 DEF Size, RecordAt
      <4> QED BY <2>1, <2>3, <3>3, <4>2, LogMembers
    <3> QED BY <3>1, <3>2, <3>3
  <2> QED BY <2>2, <2>3
<1>10. new \notin Log
  BY <1>1, <1>5
<1>11. ASSUME NEW l \in Log PROVE l \in Log'
  <2>1. /\ l \in Location /\ l.file \in dir /\ l.size = Size(RecordAt(l))
    BY LogLocation
  <2> QED BY <1>4, <1>7, <2>1
<1> QED BY <1>2, <1>5, <1>6, <1>7, <1>8, <1>9, <1>10, <1>11

(* Appending a record to the last file makes it the newest of its key, and *)
(* leaves the other keys alone.                                            *)
LEMMA AppendedIsNewest ==
  ASSUME TypeOK, TypeOK', NEW f \in dir, NEW c \in Record,
         dir' = dir, files' = [files EXCEPT ![f] = @ \o Cells(c)],
         \A g \in dir : g <= f,
         NEW new, new = [file |-> f, offset |-> Len(files[f]), size |-> Size(c)]
  PROVE  /\ new \in Newest(c.key)' /\ RecordAt(new)' = c
         /\ \A k : k # c.key =>
              /\ Records(k)' = Records(k)
              /\ Newest(k)' = Newest(k)
              /\ \A l \in Newest(k) : RecordAt(l)' = RecordAt(l)
<1>1. /\ new \in Location /\ new \notin Log
      /\ Log' = Log \cup {new}
      /\ RecordAt(new)' = c
      /\ \A l \in Log : RecordAt(l)' = RecordAt(l)
      /\ \A l \in Log : l.file = f => l.offset < new.offset
  BY AppendStep
<1>2. \A l, m : After(l, m)' <=> After(l, m)
  BY DEF After
<1>3. ASSUME NEW l \in Log' PROVE ~After(l, new)
  <2>1. l \in Location /\ l.file \in dir
    BY <1>1, <1>3, LogLocation
  <2>2. l.file <= f /\ new.file = f
    BY <2>1
  <2>3. l.file = f => ~(l.offset > new.offset)
    BY <1>1, <1>3, <2>1 DEF Location
  <2>4. l.file \in Int /\ f \in Int
    BY <2>1, BoundAssumption DEF Location, TypeOK, FileIDs
  <2> QED BY <2>2, <2>3, <2>4 DEF After
<1>4. new \in Newest(c.key)'
  BY <1>1, <1>2, <1>3 DEF Newest, Records
<1>5. ASSUME NEW k, k # c.key
      PROVE  /\ Records(k)' = Records(k)
             /\ Newest(k)' = Newest(k)
             /\ \A l \in Newest(k) : RecordAt(l)' = RecordAt(l)
  <2>1. Records(k)' = Records(k)
    BY <1>1, <1>5 DEF Records
  <2>2. Newest(k)' = Newest(k)
    BY <1>2, <2>1 DEF Newest
  <2> QED BY <1>1, <2>1, <2>2 DEF Newest, Records
<1> QED BY <1>1, <1>4, <1>5

-----------------------------------------------------------------------------
(* The inductive step, one lemma for each group of actions. *)

(* A dead process leaves only the files. *)
LEMMA CrashStep ==
  ASSUME IInv, TypeOK', Kill \/ PowerLoss
  PROVE  IInv'
<1>1. pc' = "down"
  BY DEF Kill, PowerLoss, Die
<1>2. AbsentFilesEmpty'
  <2>1. CASE Kill
    <3>1. pc = "write" /\ fileOpen => currentFileID \in dir
      BY DEF IInv, ActiveFileIsLast
    <3> QED BY <2>1, <3>1 DEF Kill, IInv, AbsentFilesEmpty, TypeOK
  <2>2. CASE PowerLoss
    BY <2>2 DEF PowerLoss, Unsynced, IInv, AbsentFilesEmpty
  <2> QED BY <2>1, <2>2
<1> QED
  BY <1>1, <1>2 DEF IInv, ActiveFileIsLast, IndexAtRest, RecordInFlight,
                    MergeInProgress, RemovalInProgress

(* A recovery rebuilds the index from the log. *)
LEMMA RestartStep ==
  ASSUME IInv, TypeOK', MaxFileID <= 9, Restart
  PROVE  IInv'
<1>1. pc' = "idle" /\ currentFileID' \in FileIDs /\ files' = files
      /\ dir' = dir \cup {currentFileID'}
  BY DEF Restart, TypeOK
<1>2. files[currentFileID'] = <<>> \/ currentFileID' \in dir
  BY <1>1 DEF Restart, IInv, AbsentFilesEmpty
<1>3. LogUnchanged
  <2>1. CASE currentFileID' \in dir
    <3>1. dir' = dir
      BY <1>1, <2>1
    <3> QED BY <1>1, <3>1, UnchangedDisk
  <2>2. CASE currentFileID' \notin dir
    BY <1>1, <1>2, <2>2, NewFileStep DEF IInv
  <2> QED BY <2>1, <2>2
<1>4. ASSUME NEW k \in Keys PROVE Exact(keyDir, k)'
  <2>1. keyDir'[k] = IF ReplayedLast(k) = {} THEN NoLoc ELSE CHOOSE l \in ReplayedLast(k) : TRUE
    BY DEF Restart, Recovered
  <2>2. \A l \in Newest(k) : l \in Log /\ l # NoLoc
    BY NoLocAssumption, LogLocation DEF Newest, Records, IInv
  <2>3. \A l \in Newest(k) : RecordAt(l).val # NoValue
    BY <2>2 DEF Restart, Replayable, HasTombstone
  <2>4. /\ keyDir'[k] # NoLoc => keyDir'[k] \in Newest(k)
        /\ keyDir'[k] = NoLoc => Newest(k) = {}
    <3>1. ReplayedLast(k) = Newest(k)
      BY ReplayFindsNewest DEF IInv
    <3>2. ReplayedLast(k) # {} => keyDir'[k] \in ReplayedLast(k)
      BY <2>1
    <3> QED BY <2>1, <2>2, <3>1, <3>2
  <2> QED BY <1>3, <2>3, <2>4, SameLogSameNewest DEF Exact
<1>5. AbsentFilesEmpty'
  BY <1>1 DEF IInv, AbsentFilesEmpty
<1>6. ActiveFileIsLast'
  BY <1>1, BoundAssumption DEF Restart, IsLast, ActiveFileIsLast, TypeOK, FileIDs
<1> QED
  BY <1>1, <1>4, <1>5, <1>6 DEF IInv, IndexAtRest, RecordInFlight, MergeInProgress,
                                RemovalInProgress

(* Steps that leave the files alone, and the index of an idle store.       *)
LEMMA CallStep ==
  ASSUME IInv, TypeOK',
         \/ \E k \in Keys, v \in Values : Put(k, v)
         \/ \E k \in Keys : Delete(k)
         \/ Close \/ RotateFails \/ (WriteFails /\ UNCHANGED files)
  PROVE  IInv'
<1>1. /\ pc \in {"idle", "rotate", "write"} /\ pc' \in {"idle", "rotate", "write"}
      /\ UNCHANGED <<dir, files, keyDir>>
  BY DEF Put, Delete, Close, RotateFails, WriteFails, Return, disk, memory
<1>2. \A k \in Keys : Exact(keyDir, k)'
  BY <1>1, UnchangedDisk, SameLogSameNewest DEF IInv, IndexAtRest, Exact
<1>3. ActiveFileIsLast'
  <2>1. /\ \A f \in dir : f <= currentFileID
        /\ fileOpen => currentFileID \in dir /\ currentOffset = Len(files[currentFileID])
    BY <1>1 DEF IInv, ActiveFileIsLast
  <2>2. CASE RotateFails
    <3>1. \A f \in dir : f <= currentFileID + 1
      BY <2>1, BoundAssumption DEF IInv, TypeOK, FileIDs
    <3> QED BY <1>1, <2>2, <3>1 DEF RotateFails, ActiveFileIsLast
  <2>3. CASE ~RotateFails
    <3>1. UNCHANGED <<currentFileID, currentOffset>> /\ (fileOpen' => fileOpen)
      BY <2>3 DEF Put, Delete, Close, WriteFails, memory
    <3> QED BY <1>1, <2>1, <3>1 DEF ActiveFileIsLast
  <2> QED BY <2>2, <2>3
<1>4. AbsentFilesEmpty'
  BY <1>1 DEF IInv, AbsentFilesEmpty
<1> QED
  BY <1>1, <1>2, <1>3, <1>4
     DEF IInv, IndexAtRest, RecordInFlight, MergeInProgress, RemovalInProgress

(* The new active file is empty and above all others. *)
LEMMA RotateStep ==
  ASSUME IInv, TypeOK', Rotate
  PROVE  IInv'
<1> DEFINE id == currentFileID + 1
<1>1. /\ id \in FileIDs /\ dir' = dir \cup {id} /\ currentFileID' = id
      /\ currentOffset' = Len(files[id]) /\ fileOpen' = TRUE /\ pc = "rotate"
      /\ pc' = "write" /\ UNCHANGED <<files, keyDir, record>>
  BY DEF Rotate
<1>2. \A f \in dir : f < id
  BY <1>1, BoundAssumption DEF IInv, ActiveFileIsLast, TypeOK, FileIDs
<1>3. id \notin dir
  BY <1>1, <1>2, BoundAssumption DEF FileIDs
<1>4. LogUnchanged
  BY <1>1, <1>3, NewFileStep DEF IInv, AbsentFilesEmpty
<1>5. \A k \in Keys : Exact(keyDir, k)'
  BY <1>1, <1>4, SameLogSameNewest DEF IInv, IndexAtRest, Exact
<1>6. ActiveFileIsLast'
  <2>1. \A f \in dir' : f <= currentFileID'
    BY <1>1, <1>2, BoundAssumption DEF FileIDs, IInv, TypeOK
  <2> QED BY <1>1, <2>1 DEF ActiveFileIsLast
<1>7. AbsentFilesEmpty'
  BY <1>1 DEF IInv, AbsentFilesEmpty
<1> QED
  BY <1>1, <1>5, <1>6, <1>7
     DEF IInv, IndexAtRest, RecordInFlight, MergeInProgress, RemovalInProgress

(* The two halves of a write: the append, and the update of the index once *)
(* it is synced.                                                           *)
LEMMA AppendRecordStep ==
  ASSUME IInv, TypeOK', AppendRecord
  PROVE  IInv'
<1>1. /\ pc = "write" /\ pc' = "sync" /\ fileOpen /\ fileOpen'
      /\ files' = [files EXCEPT ![currentFileID] = @ \o Cells(record)]
      /\ UNCHANGED <<dir, keyDir, currentFileID, currentOffset, record>>
  BY DEF AppendRecord, memory
<1>2. /\ currentFileID \in dir /\ currentOffset = Len(files[currentFileID])
      /\ \A f \in dir : f <= currentFileID
  BY <1>1 DEF IInv, ActiveFileIsLast
<1>3. TypeOK /\ record \in Record
  BY <1>1 DEF IInv, TypeOK
<1>4. PICK new : new = RecordLocation
  OBVIOUS
<1>5. /\ new = [file |-> currentFileID, offset |-> Len(files[currentFileID]),
                size |-> Size(record)]
      /\ RecordLocation' = new /\ Size(record)' = Size(record)
  BY <1>1, <1>2, <1>4 DEF RecordLocation, Size
<1>6. new \in Log' /\ RecordAt(new)' = record
  BY <1>1, <1>2, <1>3, <1>5, AppendStep
<1>7. \A k \in Keys \ {record.key} : Exact(keyDir, k)'
  <2>1. \A k : k # record.key =>
          Newest(k)' = Newest(k) /\ \A l \in Newest(k) : RecordAt(l)' = RecordAt(l)
    BY <1>1, <1>2, <1>3, <1>5, AppendedIsNewest
  <2> QED BY <1>1, <2>1 DEF IInv, IndexAtRest, Exact
<1>8. Len(files'[currentFileID]) = currentOffset + Size(record)
  <2>1. PICK s \in Seq(Cell), t \in Seq(Cell) :
          s = files[currentFileID] /\ t = Cells(record) /\ Len(t) = Size(record)
    BY <1>3, CellsType DEF TypeOK
  <2>2. files'[currentFileID] = s \o t
    BY <1>1, <1>3, <2>1 DEF TypeOK
  <2> QED BY <1>2, <2>1, <2>2, ConcatParts
<1>9. RecordInFlight'
  <2>1. RecordLocation' \in Log' /\ RecordAt(RecordLocation)' = record'
    BY <1>1, <1>5, <1>6 DEF RecordAt
  <2> QED BY <1>1, <1>5, <1>7, <1>8, <2>1 DEF RecordInFlight
<1>10. ActiveFileIsLast'
  BY <1>1, <1>2 DEF ActiveFileIsLast
<1>11. AbsentFilesEmpty'
  BY <1>1, <1>2 DEF IInv, AbsentFilesEmpty, TypeOK
<1> QED
  BY <1>1, <1>9, <1>10, <1>11 DEF IInv, IndexAtRest, MergeInProgress, RemovalInProgress

(* The record in flight, the last of the log, goes into the index. *)
LEMMA SyncStep ==
  ASSUME IInv, TypeOK', Sync
  PROVE  IInv'
<1>0. PICK loc : loc = RecordLocation
  OBVIOUS
<1>1. /\ pc = "sync" /\ pc' = "idle" /\ currentOffset' = currentOffset + Size(record)
      /\ keyDir' = [keyDir EXCEPT ![record.key] =
                      IF record.val = NoValue THEN NoLoc ELSE loc]
      /\ UNCHANGED <<dir, files, currentFileID, fileOpen>>
  BY <1>0 DEF Sync, Return
<1>2. /\ fileOpen /\ currentFileID \in dir
      /\ Len(files[currentFileID]) = currentOffset + Size(record)
      /\ loc \in Log /\ RecordAt(loc) = record
      /\ \A f \in dir : f <= currentFileID
      /\ \A k \in Keys \ {record.key} : Exact(keyDir, k)
  BY <1>0, <1>1 DEF IInv, ActiveFileIsLast, RecordInFlight
<1>3. loc \in Location /\ record.key \in Keys
  BY <1>1, <1>2, LogLocation DEF IInv, TypeOK, Record
<1>4. loc \in Newest(record.key) /\ RecordAt(loc) = record /\ loc # NoLoc
  <2>1. /\ loc.file = currentFileID
        /\ loc.offset + loc.size = Len(files[currentFileID])
    BY <1>0, <1>2 DEF RecordLocation
  <2> QED BY <1>2, <1>3, <2>1, LastIsNewest, NoLocAssumption DEF IInv
<1>5. \A l \in Newest(record.key) : RecordAt(l) = record
  BY <1>4, NewestIsUnique DEF IInv
<1>6. LogUnchanged
  BY <1>1, UnchangedDisk
<1>7. \A k \in Keys : Exact(keyDir, k)'
  <2> SUFFICES ASSUME NEW k \in Keys PROVE Exact(keyDir, k)'
    OBVIOUS
  <2>1. CASE k = record.key
    <3>1. keyDir'[k] = IF record.val = NoValue THEN NoLoc ELSE loc
      BY <1>1, <2>1 DEF IInv, TypeOK
    <3> QED BY <1>4, <1>5, <1>6, <2>1, <3>1, SameLogSameNewest DEF Exact
  <2>2. CASE k # record.key
    <3>1. keyDir'[k] = keyDir[k]
      BY <1>1, <2>2 DEF IInv, TypeOK
    <3> QED BY <1>2, <1>6, <2>2, <3>1, SameLogSameNewest DEF Exact
  <2> QED BY <2>1, <2>2
<1>8. ActiveFileIsLast'
  BY <1>1, <1>2 DEF ActiveFileIsLast
<1>9. AbsentFilesEmpty'
  BY <1>1 DEF IInv, AbsentFilesEmpty
<1> QED
  BY <1>1, <1>7, <1>8, <1>9
     DEF IInv, IndexAtRest, RecordInFlight, MergeInProgress, RemovalInProgress

-----------------------------------------------------------------------------
(* The steps of a compaction. *)

(* The merged file is empty, and no key has been copied. *)
LEMMA CompactBeginStep ==
  ASSUME IInv, TypeOK', CompactBegin
  PROVE  IInv'
<1>1. PICK last \in dir :
        /\ pc = "idle" /\ pc' = "merge" /\ IsLast(last) /\ last + 1 \in FileIDs
        /\ mergedFileID' = last + 1 /\ dir' = dir \cup {last + 1}
        /\ files' = [files EXCEPT ![last + 1] = <<>>]
        /\ newKeyDir' = EmptyKeyDir /\ todo' = Live
        /\ UNCHANGED <<keyDir, currentFileID, fileOpen>>
  BY DEF CompactBegin, memory, Live
<1> DEFINE id == last + 1
<1>2. \A f \in dir : f < id
  BY <1>1, BoundAssumption DEF IsLast, IInv, TypeOK, FileIDs
<1>3. id \notin dir /\ id \in FileIDs
  BY <1>1, <1>2, BoundAssumption DEF FileIDs
<1>4. files'[id] = <<>> /\ \A f \in dir : files'[f] = files[f]
  BY <1>1, <1>3 DEF IInv, TypeOK
<1>5. LogUnchanged
  BY <1>1, <1>3, <1>4, NewFileStep DEF IInv
<1>6. \A k \in Keys : Exact(keyDir, k)'
  BY <1>1, <1>5, SameLogSameNewest DEF IInv, IndexAtRest, Exact
<1>7. \A k \in Keys : \A l \in Records(k)' : l.file # id
  <2>1. \A l \in Log' : l.file \in dir
    BY <1>5, LogLocation DEF LogUnchanged, IInv
  <2> QED BY <1>3, <2>1 DEF Records
<1>8. fileOpen' => currentFileID' # id
  BY <1>1, <1>3 DEF IInv, ActiveFileIsLast
<1>9. \A f \in dir' : f <= id
  BY <1>1, <1>2, <1>3, BoundAssumption DEF IInv, TypeOK, FileIDs
<1>10. todo' = Live'
  BY <1>1 DEF Live
<1>11. \A k \in Keys : newKeyDir'[k] = NoLoc
  BY <1>1 DEF EmptyKeyDir
<1>12. MergeInProgress'
  BY <1>1, <1>6, <1>7, <1>8, <1>9, <1>10, <1>11 DEF MergeInProgress
<1>13. AbsentFilesEmpty'
  BY <1>1 DEF IInv, AbsentFilesEmpty, TypeOK
<1> QED
  BY <1>1, <1>12, <1>13
     DEF IInv, ActiveFileIsLast, IndexAtRest, RecordInFlight, RemovalInProgress

(* The copy of a live key becomes its newest record, with the same record. *)
LEMMA CopyRecordStep ==
  ASSUME IInv, TypeOK', NEW key \in Keys, CopyRecord(key)
  PROVE  IInv'
<1>a. PICK new : new = [file |-> mergedFileID, offset |-> Len(files[mergedFileID]),
                        size |-> keyDir[key].size]
  OBVIOUS
<1>b. PICK rec : rec = RecordAt(keyDir[key])
  OBVIOUS
<1>1. /\ pc = "merge" /\ pc' = "merge" /\ key \in todo
      /\ files' = [files EXCEPT ![mergedFileID] = @ \o Bytes(keyDir[key])]
      /\ newKeyDir' = [newKeyDir EXCEPT ![key] = new] /\ todo' = todo \ {key}
      /\ UNCHANGED <<dir, keyDir, currentFileID, fileOpen, mergedFileID>>
  BY <1>a, <1>b DEF CopyRecord, memory
<1>2. /\ mergedFileID \in dir /\ \A f \in dir : f <= mergedFileID
      /\ fileOpen => currentFileID # mergedFileID
      /\ todo \subseteq Live /\ Live' = Live
  BY <1>1 DEF IInv, MergeInProgress, Live
<1>3. key \in Live /\ keyDir[key] \in Newest(key) /\ rec.val # NoValue
  BY <1>1, <1>2, <1>b DEF IInv, MergeInProgress, Exact, Live
<1>4. keyDir[key] \in Log /\ rec.key = key
  BY <1>3, <1>b DEF Newest, Records
<1>5. /\ rec \in Record /\ keyDir[key].size = Size(rec)
      /\ Bytes(keyDir[key]) = Cells(rec)
  BY <1>4, <1>b, LogLocation, LogBytes DEF IInv
<1>6. /\ new \in Newest(key)' /\ RecordAt(new)' = rec
      /\ \A k : k # key =>
           /\ Records(k)' = Records(k)
           /\ Newest(k)' = Newest(k)
           /\ \A l \in Newest(k) : RecordAt(l)' = RecordAt(l)
  BY <1>1, <1>2, <1>4, <1>5, <1>a, AppendedIsNewest DEF IInv
<1>7. \A l \in Log : l \in Log' /\ RecordAt(l)' = RecordAt(l)
  BY <1>1, <1>2, <1>5, <1>a, AppendStep DEF IInv
<1>8. new # NoLoc /\ new.file = mergedFileID
  BY <1>1, <1>2, <1>5, <1>a, AppendStep, NoLocAssumption DEF IInv
<1>9. \A k \in Keys : newKeyDir'[k] = IF k = key THEN new ELSE newKeyDir[k]
  BY <1>1 DEF IInv, TypeOK
<1>10. ASSUME NEW k \in Keys \ (Live' \ todo')
       PROVE  /\ Exact(keyDir, k)' /\ newKeyDir'[k] = NoLoc
              /\ \A l \in Records(k)' : l.file # mergedFileID'
  <2>1. k # key /\ k \in Keys \ (Live \ todo)
    BY <1>1, <1>2, <1>3
  <2>2. /\ Exact(keyDir, k) /\ newKeyDir[k] = NoLoc
        /\ \A l \in Records(k) : l.file # mergedFileID
    BY <1>1, <2>1 DEF IInv, MergeInProgress
  <2> QED BY <1>1, <1>6, <1>9, <2>1, <2>2 DEF Exact
<1>11. ASSUME NEW k \in Live' \ todo'
       PROVE  /\ newKeyDir'[k] # NoLoc /\ newKeyDir'[k].file = mergedFileID'
              /\ Exact(newKeyDir, k)' /\ keyDir'[k] \in Log'
              /\ RecordAt(keyDir[k])' = RecordAt(newKeyDir[k])'
  <2>1. k \in Keys
    BY DEF Live
  <2>2. CASE k = key
    <3>1. newKeyDir'[k] = new /\ keyDir'[k] = keyDir[key]
      BY <1>1, <1>9, <2>1, <2>2
    <3>2. RecordAt(keyDir[k])' = rec
      BY <1>1, <1>4, <1>7, <1>b, <2>2 DEF RecordAt
    <3>3. RecordAt(newKeyDir[k])' = rec
      BY <1>6, <3>1 DEF RecordAt
    <3> QED BY <1>1, <1>3, <1>4, <1>6, <1>7, <1>8, <2>2, <3>1, <3>2, <3>3 DEF Exact
  <2>3. CASE k # key
    <3>1. k \in Live \ todo
      BY <1>1, <1>2, <2>3
    <3>2. /\ newKeyDir[k] # NoLoc /\ newKeyDir[k].file = mergedFileID
          /\ Exact(newKeyDir, k) /\ keyDir[k] \in Log
          /\ RecordAt(keyDir[k]) = RecordAt(newKeyDir[k])
      BY <1>1, <3>1 DEF IInv, MergeInProgress
    <3>3. newKeyDir'[k] = newKeyDir[k] /\ keyDir'[k] = keyDir[k]
      BY <1>1, <1>9, <2>1, <2>3
    <3>4. newKeyDir[k] \in Newest(k) /\ newKeyDir[k] \in Log
      BY <3>2 DEF Exact, Newest, Records
    <3>5. RecordAt(keyDir[k])' = RecordAt(keyDir[k])
      BY <1>7, <3>2, <3>3 DEF RecordAt
    <3>6. RecordAt(newKeyDir[k])' = RecordAt(newKeyDir[k])
      BY <1>7, <3>3, <3>4 DEF RecordAt
    <3> QED BY <1>1, <1>6, <1>7, <2>3, <3>2, <3>3, <3>4, <3>5, <3>6 DEF Exact
  <2> QED BY <2>2, <2>3
<1>12. MergeInProgress'
  BY <1>1, <1>2, <1>10, <1>11 DEF MergeInProgress
<1>13. AbsentFilesEmpty'
  BY <1>1, <1>2 DEF IInv, AbsentFilesEmpty, TypeOK
<1> QED
  BY <1>1, <1>12, <1>13
     DEF IInv, ActiveFileIsLast, IndexAtRest, RecordInFlight, RemovalInProgress

(* Every key has been copied, so newKeyDir is exact from here on. *)
LEMMA SyncMergedStep ==
  ASSUME IInv, TypeOK', SyncMerged
  PROVE  IInv'
<1>1. /\ pc = "merge" /\ pc' = "remove" /\ todo = {}
      /\ fileOpen' = (fileOpen /\ currentFileID = mergedFileID)
      /\ left' = {f \in dir : f < mergedFileID}
      /\ UNCHANGED <<dir, files, mergedFileID, newKeyDir>>
  BY DEF SyncMerged
<1>2. /\ mergedFileID \in dir /\ \A f \in dir : f <= mergedFileID
      /\ fileOpen => currentFileID # mergedFileID
  BY <1>1 DEF IInv, MergeInProgress
<1>3. ~fileOpen'
  BY <1>1, <1>2
<1>4. mergedFileID \notin left' /\ dir' = left' \cup {mergedFileID}
  <2>1. dir \subseteq Int
    BY BoundAssumption DEF IInv, TypeOK, FileIDs
  <2>2. \A f \in dir : f < mergedFileID <=> f # mergedFileID
    BY <1>2, <2>1
  <2> QED BY <1>1, <1>2, <2>2
<1>5. ASSUME NEW k \in Keys
      PROVE  /\ Exact(newKeyDir, k)
             /\ newKeyDir[k] # NoLoc => newKeyDir[k].file = mergedFileID
  <2>1. CASE k \in Live
    BY <1>1, <2>1 DEF IInv, MergeInProgress
  <2>2. CASE k \notin Live
    BY <1>1, <2>2 DEF IInv, MergeInProgress, Exact, Live
  <2> QED BY <2>1, <2>2
<1>6. \A k \in Keys : Exact(newKeyDir, k)'
  BY <1>1, <1>5, UnchangedDisk, SameLogSameNewest DEF Exact
<1>7. RemovalInProgress'
  BY <1>1, <1>3, <1>4, <1>5, <1>6 DEF RemovalInProgress
<1>8. AbsentFilesEmpty'
  BY <1>1 DEF IInv, AbsentFilesEmpty
<1> QED
  BY <1>1, <1>7, <1>8
     DEF IInv, ActiveFileIsLast, IndexAtRest, RecordInFlight, MergeInProgress

(* The file that goes is the oldest, and only its records go with it. *)
LEMMA RemoveFileLog ==
  ASSUME IInv, TypeOK', MaxFileID <= 9, "remove" \notin Faults, RemoveFile
  PROVE  \E f \in left :
           /\ left' = left \ {f} /\ dir' = dir \ {f}
           /\ files' = [files EXCEPT ![f] = <<>>]
           /\ durable' = [durable EXCEPT ![f] = 0]
           /\ \A g \in dir' : f < g
           /\ \A l : l \in Log' <=> l \in Log /\ l.file # f
           /\ \A l \in Log' : RecordAt(l)' = RecordAt(l) /\ l.file \in dir'
<1>1. PICK f \in left :
        /\ pc = "remove" /\ \A g \in left : g = f \/ ListedBefore(f, g)
        /\ left' = left \ {f} /\ dir' = dir \ {f}
        /\ files' = [files EXCEPT ![f] = <<>>]
        /\ durable' = [durable EXCEPT ![f] = 0]
  BY DEF RemoveFile
<1>2. mergedFileID \notin left /\ dir = left \cup {mergedFileID} /\ \A g \in left : g < mergedFileID
  BY <1>1 DEF IInv, RemovalInProgress
<1>3. \A g \in dir' : f < g
  <2> SUFFICES ASSUME NEW g \in dir' PROVE f < g
    OBVIOUS
  <2>1. CASE g = mergedFileID
    BY <1>2, <2>1
  <2>2. CASE g \in left \ {f}
    <3>1. ListedBefore(f, g)
      BY <1>1, <2>2
    <3> QED BY <2>2, <3>1, ListingIsNumerical DEF IInv, TypeOK
  <2> QED BY <1>1, <1>2, <2>1, <2>2
<1>4. f \in FileIDs /\ \A g \in dir' : g # f /\ g \in dir /\ files'[g] = files[g]
  BY <1>1 DEF IInv, TypeOK
<1>5. \A l : l \in Log' <=> l \in Log /\ l.file # f
  <2>1. \A loc : loc \in Log' <=>
          /\ loc \in Location /\ loc.file \in dir'
          /\ WholeAt(loc.file, loc.offset)' /\ loc.size = Size(RecordAt(loc))'
    BY LogMembersNext
  <2>2. \A loc : loc.file \in dir' =>
          /\ WholeAt(loc.file, loc.offset)' <=> WholeAt(loc.file, loc.offset)
          /\ Size(RecordAt(loc))' = Size(RecordAt(loc))
    BY <1>4, SameFile DEF Size
  <2>3. \A loc : loc \in Log <=>
          /\ loc \in Location /\ loc.file \in dir
          /\ WholeAt(loc.file, loc.offset) /\ loc.size = Size(RecordAt(loc))
    BY LogMembers DEF IInv
  <2> QED BY <1>1, <2>1, <2>2, <2>3
<1>6. \A l \in Log' : RecordAt(l)' = RecordAt(l) /\ l.file \in dir'
  <2>1. \A l \in Log : l.file \in dir
    BY LogLocation DEF IInv
  <2>2. \A l \in Log' : l.file \in dir'
    BY <1>1, <1>5, <2>1
  <2> QED BY <1>4, <2>2 DEF RecordAt
<1> QED BY <1>1, <1>3, <1>5, <1>6

(* Nothing that is left was older than a record of the file that goes.     *)
LEMMA RemoveFileStep ==
  ASSUME IInv, TypeOK', MaxFileID <= 9, "remove" \notin Faults, RemoveFile
  PROVE  IInv'
<1>0. PICK f \in left :
        /\ left' = left \ {f} /\ dir' = dir \ {f}
        /\ files' = [files EXCEPT ![f] = <<>>]
        /\ \A g \in dir' : f < g
        /\ \A l : l \in Log' <=> l \in Log /\ l.file # f
        /\ \A l \in Log' : RecordAt(l)' = RecordAt(l) /\ l.file \in dir'
  BY RemoveFileLog
<1>1. /\ pc = "remove" /\ left' = left \ {f} /\ dir' = dir \ {f}
      /\ files' = [files EXCEPT ![f] = <<>>]
      /\ UNCHANGED <<fileOpen, pc, record, mergedFileID, newKeyDir>>
  BY <1>0 DEF RemoveFile, memory
<1>2. /\ ~fileOpen /\ mergedFileID \notin left /\ dir = left \cup {mergedFileID}
      /\ \A g \in left : g < mergedFileID
      /\ \A k \in Keys :
           /\ Exact(newKeyDir, k)
           /\ newKeyDir[k] # NoLoc => newKeyDir[k].file = mergedFileID
  BY <1>1 DEF IInv, RemovalInProgress
<1>3. \A g \in dir' : f < g
  BY <1>0
<1>4. f \in FileIDs
  BY <1>0 DEF IInv, TypeOK
<1>5. \A l : l \in Log' <=> l \in Log /\ l.file # f
  BY <1>0
<1>6. \A l \in Log' : RecordAt(l)' = RecordAt(l) /\ l.file \in dir'
  BY <1>0
<1>7. \A k : \A l : l \in Records(k)' <=> l \in Records(k) /\ l.file # f
  BY <1>5, <1>6 DEF Records
<1>8. \A l, m : After(l, m)' <=> After(l, m)
  BY DEF After
<1>9. ASSUME NEW k, NEW l \in Newest(k), l.file # f PROVE l \in Newest(k)'
  BY <1>7, <1>8, <1>9 DEF Newest
<1>10. ASSUME NEW k, NEW l \in Newest(k)' PROVE l \in Newest(k) /\ RecordAt(l)' = RecordAt(l)
  <2>1. l \in Records(k)' /\ l \in Records(k) /\ l \in Log'
    BY <1>7, <1>10 DEF Newest, Records
  <2>2. f < l.file
    BY <1>3, <1>6, <2>1
  <2>3. ASSUME NEW m \in Records(k) PROVE ~After(m, l)
    <3>1. CASE m.file = f
      <4>1. l.file \in Int /\ f \in Int
        <5>1. l.file \in FileIDs
          BY <1>6, <2>1 DEF TypeOK
        <5> QED BY <1>4, <5>1, BoundAssumption DEF FileIDs
      <4> QED BY <2>2, <3>1, <4>1 DEF After
    <3>2. CASE m.file # f
      BY <1>7, <1>8, <1>10, <2>3, <3>2 DEF Newest
    <3> QED BY <3>1, <3>2
  <2> QED BY <1>6, <2>1, <2>3 DEF Newest
<1>11. ASSUME NEW k \in Keys PROVE Exact(newKeyDir, k)'
  <2>1. CASE newKeyDir[k] = NoLoc
    BY <1>1, <1>2, <1>10, <2>1 DEF Exact
  <2>2. CASE newKeyDir[k] # NoLoc
    <3>1. /\ newKeyDir[k] \in Newest(k) /\ RecordAt(newKeyDir[k]).val # NoValue
          /\ newKeyDir[k].file # f
      BY <1>1, <1>2, <2>2 DEF Exact
    <3>2. newKeyDir[k] \in Newest(k)'
      BY <1>9, <3>1
    <3>3. RecordAt(newKeyDir[k])' = RecordAt(newKeyDir[k])
      BY <1>1, <1>10, <3>2 DEF RecordAt
    <3> QED BY <1>1, <2>2, <3>1, <3>2, <3>3 DEF Exact
  <2> QED BY <2>1, <2>2
<1>12. RemovalInProgress'
  BY <1>1, <1>2, <1>11 DEF RemovalInProgress
<1>13. AbsentFilesEmpty'
  BY <1>1 DEF IInv, AbsentFilesEmpty, TypeOK
<1> QED
  BY <1>1, <1>12, <1>13
     DEF IInv, ActiveFileIsLast, IndexAtRest, RecordInFlight, MergeInProgress

(* newKeyDir becomes keyDir, and the merged file the active one. *)
LEMMA InstallStep ==
  ASSUME IInv, TypeOK', Install
  PROVE  IInv'
<1>1. /\ pc = "remove" /\ pc' = "idle" /\ left = {} /\ keyDir' = newKeyDir
      /\ currentFileID' = mergedFileID /\ currentOffset' = Len(files[mergedFileID])
      /\ UNCHANGED <<dir, files>>
  BY DEF Install, Return, disk
<1>2. dir = {mergedFileID} /\ \A k \in Keys : Exact(newKeyDir, k)
  BY <1>1 DEF IInv, RemovalInProgress
<1>3. \A k \in Keys : Exact(keyDir, k)'
  BY <1>1, <1>2, UnchangedDisk, SameLogSameNewest DEF Exact
<1>4. ActiveFileIsLast'
  BY <1>1, <1>2, BoundAssumption DEF ActiveFileIsLast, IInv, TypeOK, FileIDs
<1>5. AbsentFilesEmpty'
  BY <1>1 DEF IInv, AbsentFilesEmpty
<1> QED
  BY <1>1, <1>3, <1>4, <1>5
     DEF IInv, IndexAtRest, RecordInFlight, MergeInProgress, RemovalInProgress

(* The copy loop finds every record it looks for, so none is skipped.      *)
LEMMA NothingIsSkipped ==
  ASSUME IInv, "read" \notin Faults, NEW k \in Keys
  PROVE  ~SkipRecord(k)
<1> SUFFICES ASSUME SkipRecord(k) PROVE FALSE
  OBVIOUS
<1>1. pc = "merge" /\ k \in todo /\ ~Readable(keyDir[k])
  BY DEF SkipRecord
<1>2. keyDir[k] # NoLoc /\ Exact(keyDir, k)
  BY <1>1 DEF IInv, MergeInProgress, Live
<1>3. keyDir[k] \in Log
  BY <1>2 DEF Exact, Newest, Records
<1> QED BY <1>1, <1>2, <1>3, LogLocation DEF IInv, Readable

-----------------------------------------------------------------------------
(* Every action keeps the invariant. *)
LEMMA InductiveStep ==
  ASSUME Faults \subseteq {"open"}, MaxFileID <= 9
  PROVE  IInv /\ [Next]_vars => IInv'
<1> SUFFICES ASSUME IInv, [Next]_vars PROVE IInv'
  OBVIOUS
<1>1. TypeOK'
  BY TypeStep DEF IInv
<1>2. \A k \in Keys : ~SkipRecord(k)
  BY NothingIsSkipped
<1>3. ~SyncFails /\ ~CompactGivesUp /\ (WriteFails => UNCHANGED files)
  BY DEF SyncFails, CompactGivesUp, WriteFails
<1>4. CASE UNCHANGED vars
  <2>1. LogUnchanged
    BY <1>4, UnchangedDisk DEF vars, disk
  <2>2. \A k : /\ Records(k)' = Records(k) /\ Newest(k)' = Newest(k)
               /\ \A l \in Newest(k) : RecordAt(l)' = RecordAt(l)
    BY <2>1, SameLogSameNewest
  <2>3. \A k \in Keys : /\ Exact(keyDir, k)' <=> Exact(keyDir, k)
                        /\ Exact(newKeyDir, k)' <=> Exact(newKeyDir, k)
    BY <1>4, <2>2 DEF Exact, vars, memory, compaction
  <2> QED
    BY <1>1, <1>4, <2>1, <2>2, <2>3
       DEF IInv, AbsentFilesEmpty, ActiveFileIsLast, IndexAtRest, RecordInFlight,
           MergeInProgress, RemovalInProgress, Live, vars, disk, memory, compaction,
           LogUnchanged, RecordAt, RecordLocation, Size
<1>5. CASE RestartRefused
  BY <1>1, <1>5 DEF RestartRefused, disk, memory, compaction, IInv, AbsentFilesEmpty,
        ActiveFileIsLast, IndexAtRest, RecordInFlight, MergeInProgress, RemovalInProgress
<1>6. CASE Caller
  BY <1>1, <1>6, CallStep, CompactBeginStep DEF Caller
<1>7. CASE LockHolder
  BY <1>1, <1>2, <1>3, <1>7, CallStep, RotateStep, AppendRecordStep, SyncStep,
     CopyRecordStep, SyncMergedStep, RemoveFileStep, InstallStep DEF LockHolder
<1>8. CASE Environment
  BY <1>1, <1>5, <1>8, CrashStep, RestartStep DEF Environment
<1> QED BY <1>4, <1>6, <1>7, <1>8 DEF Next

(* No process runs at first. *)
LEMMA InitiallyIInv == Init => IInv
<1> SUFFICES ASSUME Init PROVE IInv
  OBVIOUS
<1>1. TypeOK
  BY AnchoredInit DEF Anchored
<1> QED
  BY <1>1 DEF Init, IInv, AbsentFilesEmpty, ActiveFileIsLast, IndexAtRest, RecordInFlight,
              MergeInProgress, RemovalInProgress

(* A location in Newest(k) is the only one there, so an exact index gives  *)
(* the value of every newest record.                                       *)
LEMMA ExactGivesValue ==
  ASSUME TypeOK, NEW k, NEW idx, Exact(idx, k), NEW loc \in Newest(k)
  PROVE  (IF idx[k] = NoLoc THEN NoValue
          ELSE IF WholeAt(idx[k].file, idx[k].offset) THEN RecordAt(idx[k]).val
          ELSE Garbled) = RecordAt(loc).val
<1>1. CASE idx[k] = NoLoc
  BY <1>1 DEF Exact
<1>2. CASE idx[k] # NoLoc
  <2>1. idx[k] \in Newest(k) /\ idx[k] = loc
    BY <1>2, NewestIsUnique DEF Exact
  <2>2. WholeAt(loc.file, loc.offset)
    BY LogLocation DEF Newest, Records
  <2> QED BY <1>2, <2>1, <2>2
<1> QED BY <1>1, <1>2

(* The invariant says of Get what IndexIsExact does. *)
LEMMA IInvImpliesExact == IInv => IndexIsExact
<1> SUFFICES ASSUME IInv, pc \in Running, NEW k \in Keys, ~(pc = "sync" /\ k = record.key)
    PROVE  /\ \A loc \in Newest(k) : Get(k) = RecordAt(loc).val
           /\ Records(k) = {} => Get(k) = NoValue
  BY DEF IndexIsExact
<1>1. TypeOK
  BY DEF IInv
<1>2. CASE Exact(Index, k)
  <2>1. \A loc \in Newest(k) : Get(k) = RecordAt(loc).val
    BY <1>1, <1>2, ExactGivesValue DEF Get
  <2>2. Records(k) = {} => Index[k] = NoLoc
    BY <1>2 DEF Exact, Newest
  <2> QED BY <2>1, <2>2 DEF Get
<1>3. CASE pc = "merge" /\ k \in Live \ todo
  <2>1. /\ Exact(newKeyDir, k) /\ newKeyDir[k] # NoLoc /\ keyDir[k] \in Log
        /\ RecordAt(keyDir[k]) = RecordAt(newKeyDir[k])
    BY <1>3 DEF IInv, MergeInProgress
  <2>2. newKeyDir[k] \in Newest(k) /\ newKeyDir[k] \in Records(k)
    BY <2>1 DEF Exact, Newest
  <2>3. Index[k] = keyDir[k] /\ keyDir[k] # NoLoc /\ WholeAt(keyDir[k].file, keyDir[k].offset)
    BY <1>1, <1>3, <2>1, LogLocation DEF Index, Live
  <2>4. \A loc \in Newest(k) : loc = newKeyDir[k]
    BY <1>1, <2>2, NewestIsUnique
  <2> QED BY <2>1, <2>2, <2>3, <2>4 DEF Get
<1>4. CASE pc = "merge" /\ k \notin Live \ todo
  <2>1. Exact(keyDir, k)
    BY <1>4 DEF IInv, MergeInProgress
  <2>2. Exact(Index, k)
    BY <1>4, <2>1 DEF Exact, Index
  <2> QED BY <1>2, <2>2
<1>5. CASE pc # "merge"
  <2>1. Exact(Index, k)
    BY <1>5 DEF IInv, IndexAtRest, RecordInFlight, RemovalInProgress, Running, Index, Exact
  <2> QED BY <1>2, <2>1
<1> QED BY <1>3, <1>4, <1>5

(* Where every record in flight, copied or to be removed is, at each step  *)
(* of Put, Delete, Compact and recovery.                                   *)
THEOREM InvariantHolds ==
  ASSUME Faults \subseteq {"open"}, MaxFileID <= 9
  PROVE  Spec => []IInv
<1>1. Init => IInv
  BY InitiallyIInv
<1>2. IInv /\ [Next]_vars => IInv'
  BY InductiveStep
<1> QED BY <1>1, <1>2, PTL DEF Spec

(* Every read of a running store returns what a replay of the log in the   *)
(* order it was written would return, through rotations, compactions,      *)
(* crashes and recoveries, provided that only opens of files fail and that *)
(* file IDs keep to one digit.                                             *)
THEOREM IndexCorrect ==
  ASSUME Faults \subseteq {"open"}, MaxFileID <= 9
  PROVE  Spec => []IndexIsExact
BY InvariantHolds, IInvImpliesExact, PTL
-----------------------------------------------------------------------------
(* Compaction. *)

(* Without failing reads and writes Compact skips no key and never gives up. *)
LEMMA CompactionStepsWell ==
  ASSUME IInv, [Next]_vars, Faults \subseteq {"open"},
         pc \in {"merge", "remove"}, pc' \in Running
  PROVE  \/ SyncMerged \/ RemoveFile \/ Install \/ UNCHANGED vars
         \/ \E key \in Keys : CopyRecord(key)
<1>1. \A k \in Keys : ~SkipRecord(k)
  BY NothingIsSkipped
<1>2. ~CompactGivesUp
  BY DEF CompactGivesUp
<1> QED BY <1>1, <1>2, CompactionSteps

(* Where a Get of k finds its record while Compact holds bc.mu. *)
LEMMA IndexInLog ==
  ASSUME IInv, pc \in {"merge", "remove"}, NEW k \in Keys, Index[k] # NoLoc
  PROVE  Index[k] \in Log
<1>1. CASE pc = "remove"
  BY <1>1 DEF IInv, RemovalInProgress, Exact, Newest, Records, Index
<1>2. CASE pc = "merge" /\ k \in Live \ todo
  BY <1>2 DEF IInv, MergeInProgress, Index
<1>3. CASE pc = "merge" /\ k \notin Live \ todo
  <2>1. Exact(keyDir, k)
    BY <1>3 DEF IInv, MergeInProgress
  <2> QED BY <1>3, <2>1 DEF Exact, Newest, Records, Index
<1> QED BY <1>1, <1>2, <1>3

(* A location that stays in the log, with its record, is read as before. *)
LEMMA SameRead ==
  ASSUME TypeOK, TypeOK', NEW k \in Keys, Index'[k] = Index[k],
         Index[k] # NoLoc => /\ Index[k] \in Log /\ Index[k] \in Log'
                             /\ RecordAt(Index[k])' = RecordAt(Index[k])
  PROVE  Get(k)' = Get(k)
<1>1. CASE Index[k] = NoLoc
  BY <1>1 DEF Get
<1>2. CASE Index[k] # NoLoc
  <2>1. PICK l : l = Index[k]
    OBVIOUS
  <2>2. l \in Log /\ l \in Log' /\ RecordAt(l)' = RecordAt(l)
    BY <1>2, <2>1 DEF RecordAt
  <2>3. WholeAt(l.file, l.offset) /\ WholeAt(l.file, l.offset)'
    BY <2>2, LogMembers, LogMembersNext
  <2>4. /\ WholeAt(Index[k].file, Index[k].offset) /\ WholeAt(Index[k].file, Index[k].offset)'
        /\ RecordAt(Index[k])' = RecordAt(Index[k])
    BY <2>1, <2>2, <2>3 DEF WholeAt, RecordAt, Size
  <2> QED BY <1>2, <2>4 DEF Get
<1> QED BY <1>1, <1>2

(* No step of a compaction changes what a reader sees. *)
LEMMA StepKeepsReads ==
  ASSUME IInv, IInv', [Next]_vars, Faults \subseteq {"open"},
         pc \in {"merge", "remove"}, pc' \in Running, NEW k \in Keys
  PROVE  Get(k)' = Get(k)
<1>1. TypeOK /\ TypeOK'
  BY DEF IInv
<1>2. ASSUME UNCHANGED <<files, Index[k]>> PROVE Get(k)' = Get(k)
  BY <1>2 DEF Get, WholeAt, RecordAt, Size
<1>3. ASSUME NEW key \in Keys, CopyRecord(key) PROVE Get(k)' = Get(k)
  <2>1. PICK c : c = RecordAt(keyDir[key])
    OBVIOUS
  <2>2. /\ pc = "merge" /\ pc' = "merge" /\ keyDir' = keyDir /\ dir' = dir
        /\ files' = [files EXCEPT ![mergedFileID] = @ \o Bytes(keyDir[key])]
        /\ keyDir[key] # NoLoc
    BY <1>3 DEF CopyRecord, Readable, memory
  <2>3. c \in Record /\ Bytes(keyDir[key]) = Cells(c)
    <3>1. keyDir[key] \in Log
      BY <2>2, IndexInLog DEF Index
    <3> QED BY <1>1, <2>1, <3>1, LogLocation, LogBytes
  <2>4. mergedFileID \in dir
    BY <2>2 DEF IInv, MergeInProgress
  <2>5. \A l \in Log : l \in Log' /\ RecordAt(l)' = RecordAt(l)
    BY <1>1, <2>2, <2>3, <2>4, AppendStep
  <2>6. Index[k] = keyDir[k] /\ Index'[k] = keyDir[k]
    BY <2>2 DEF Index
  <2>7. Index[k] # NoLoc => RecordAt(Index[k])' = RecordAt(Index[k])
    BY <2>5, <2>6, IndexInLog DEF RecordAt
  <2> QED BY <1>1, <2>5, <2>6, <2>7, IndexInLog, SameRead
<1>4. CASE SyncMerged
  <2>1. /\ pc = "merge" /\ todo = {} /\ UNCHANGED <<files, keyDir, newKeyDir>>
        /\ Index[k] = keyDir[k] /\ Index'[k] = newKeyDir[k]
    BY <1>4 DEF SyncMerged, Index
  <2>2. CASE k \in Live
    <3>1. /\ keyDir[k] # NoLoc /\ keyDir[k] \in Log
          /\ newKeyDir[k] # NoLoc /\ newKeyDir[k] \in Log
          /\ RecordAt(keyDir[k]) = RecordAt(newKeyDir[k])
      BY <2>1, <2>2 DEF IInv, MergeInProgress, Live, Exact, Newest, Records
    <3>2. /\ WholeAt(keyDir[k].file, keyDir[k].offset)
          /\ WholeAt(newKeyDir[k].file, newKeyDir[k].offset)
      BY <1>1, <3>1, LogLocation
    <3> QED BY <2>1, <3>1, <3>2 DEF Get, WholeAt, RecordAt, Size
  <2>3. CASE k \notin Live
    <3>1. keyDir[k] = NoLoc /\ newKeyDir[k] = NoLoc
      BY <2>1, <2>3 DEF IInv, MergeInProgress, Live
    <3> QED BY <2>1, <3>1 DEF Get
  <2> QED BY <2>2, <2>3
<1>5. CASE RemoveFile
  <2>1. PICK f \in left :
          /\ pc = "remove" /\ pc' = "remove"
          /\ files' = [files EXCEPT ![f] = <<>>]
          /\ newKeyDir' = newKeyDir
    BY <1>5 DEF RemoveFile
  <2>2. Index[k] = newKeyDir[k] /\ Index'[k] = newKeyDir[k]
    BY <2>1 DEF Index
  <2>3. newKeyDir[k] # NoLoc => newKeyDir[k].file # f
    BY <2>1 DEF IInv, RemovalInProgress
  <2>4. newKeyDir[k] # NoLoc => files'[newKeyDir[k].file] = files[newKeyDir[k].file]
    BY <1>1, <2>1, <2>3 DEF TypeOK, Location
  <2> QED BY <2>2, <2>4 DEF Get, WholeAt, RecordAt, Size
<1>6. CASE Install
  BY <1>2, <1>6 DEF Install, Return, Index, disk
<1>7. CASE UNCHANGED vars
  BY <1>2, <1>7 DEF vars, disk, memory, compaction, Index
<1> QED BY <1>3, <1>4, <1>5, <1>6, <1>7, CompactionStepsWell

(* A reader sees nothing of a compaction, from its first copy to the       *)
(* release of the lock (compaction.go:26-175), provided that only opens of *)
(* files fail and that file IDs keep to one digit.                         *)
THEOREM CompactionIsInvisible ==
  ASSUME Faults \subseteq {"open"}, MaxFileID <= 9
  PROVE  Spec => CompactionKeepsReads
<1>1. IInv /\ IInv' /\ [Next]_vars =>
        [(pc \in {"merge", "remove"} /\ pc' \in Running) =>
           \A k \in Keys : Get(k)' = Get(k)]_vars
  BY StepKeepsReads
<1> QED BY <1>1, InvariantHolds, PTL DEF Spec, CompactionKeepsReads

(* The merged file holds the records of the new index and nothing else. *)
Packed ==
  pc \in {"merge", "remove"} =>
    \A l \in Log : l.file = mergedFileID => \E k \in Keys : newKeyDir[k] = l

(* The copy loop indexes each record that it writes. *)
LEMMA PackedStep ==
  ASSUME IInv, IInv', Packed, [Next]_vars, Faults \subseteq {"open"}
  PROVE  Packed'
<1>1. TypeOK /\ TypeOK'
  BY DEF IInv
<1>2. CASE pc' \notin {"merge", "remove"}
  BY <1>2 DEF Packed
<1>3. ASSUME UNCHANGED <<dir, files, mergedFileID, newKeyDir>>, pc \in {"merge", "remove"}
      PROVE  Packed'
  BY <1>3, UnchangedDisk DEF Packed, LogUnchanged
<1>4. CASE CompactBegin
  <2>1. files'[mergedFileID'] = <<>>
    BY <1>1, <1>4 DEF CompactBegin, TypeOK
  <2>2. \A l \in Log' : l \in Location /\ l.offset < Len(files'[l.file])
    BY <1>1, LogMembersNext DEF WholeAt
  <2>3. Len(<<>>) = 0
    OBVIOUS
  <2> QED BY <2>1, <2>2, <2>3 DEF Packed, Location
<1>5. ASSUME NEW key \in Keys, CopyRecord(key) PROVE Packed'
  <2>1. PICK c : c = RecordAt(keyDir[key])
    OBVIOUS
  <2>2. PICK new : new = [file |-> mergedFileID, offset |-> Len(files[mergedFileID]),
                          size |-> keyDir[key].size]
    OBVIOUS
  <2>3. /\ pc = "merge" /\ key \in todo /\ dir' = dir /\ mergedFileID' = mergedFileID
        /\ files' = [files EXCEPT ![mergedFileID] = @ \o Bytes(keyDir[key])]
        /\ newKeyDir' = [newKeyDir EXCEPT ![key] = new]
        /\ keyDir[key] # NoLoc
    BY <1>5, <2>2 DEF CopyRecord, Readable
  <2>4. c \in Record /\ Bytes(keyDir[key]) = Cells(c) /\ keyDir[key].size = Size(c)
    <3>1. keyDir[key] \in Log
      BY <2>3, IndexInLog DEF Index
    <3> QED BY <1>1, <2>1, <3>1, LogLocation, LogBytes
  <2>5. mergedFileID \in dir /\ newKeyDir[key] = NoLoc
    BY <2>3 DEF IInv, MergeInProgress
  <2>6. Log' = Log \cup {new} /\ \A l \in Log : l # NoLoc
    BY <1>1, <2>2, <2>3, <2>4, <2>5, AppendStep, LogLocation, NoLocAssumption
  <2>7. newKeyDir'[key] = new /\ \A k \in Keys \ {key} : newKeyDir'[k] = newKeyDir[k]
    BY <1>1, <2>3 DEF TypeOK
  <2> SUFFICES ASSUME NEW l \in Log', l.file = mergedFileID
               PROVE  \E k \in Keys : newKeyDir'[k] = l
    BY <2>3 DEF Packed
  <2>8. CASE l = new
    BY <2>7, <2>8
  <2>9. CASE l \in Log
    <3>1. PICK k \in Keys : newKeyDir[k] = l
      BY <2>3, <2>9 DEF Packed
    <3> QED BY <2>5, <2>6, <2>7, <2>9, <3>1
  <2> QED BY <2>6, <2>8, <2>9
<1>6. CASE SyncMerged
  BY <1>3, <1>6 DEF SyncMerged
<1>7. CASE RemoveFile
  <2>1. PICK f \in left :
          /\ pc = "remove" /\ UNCHANGED <<mergedFileID, newKeyDir>>
          /\ dir' = dir \ {f} /\ files' = [files EXCEPT ![f] = <<>>]
    BY <1>7 DEF RemoveFile
  <2>2. mergedFileID # f /\ mergedFileID \in dir
    BY <2>1 DEF IInv, RemovalInProgress
  <2>3. files'[mergedFileID] = files[mergedFileID]
    BY <1>1, <2>1, <2>2 DEF TypeOK
  <2>4. \A l \in Log' : l.file = mergedFileID => l \in Log
    BY <1>1, <2>1, <2>2, <2>3, LogMembers, LogMembersNext, SameFile DEF Size
  <2> QED BY <2>1, <2>4 DEF Packed
<1>8. CASE UNCHANGED vars
  BY <1>2, <1>3, <1>8 DEF vars, disk, memory, compaction
<1>9. ASSUME pc \notin {"merge", "remove"}, pc' \in {"merge", "remove"}
      PROVE  CompactBegin
  BY <1>9 DEF Next, LockHolder, Caller, Environment, Put, Delete, Rotate, RotateFails,
              AppendRecord, WriteFails, Sync, SyncFails, Close, CopyRecord, SkipRecord,
              CompactGivesUp, SyncMerged, RemoveFile, Install, Kill, PowerLoss, Die,
              Restart, RestartRefused, Return, vars, disk, memory, compaction
<1>10. CASE pc \in {"merge", "remove"} /\ pc' \in {"merge", "remove"}
  <2>1. ~Install
    BY <1>10 DEF Install, Return
  <2> QED BY <1>5, <1>6, <1>7, <1>8, <1>10, <2>1, CompactionStepsWell DEF Running
<1> QED BY <1>2, <1>4, <1>9, <1>10

(* With the old files gone the log is one file, hence finite. *)
LEMMA OneFileIsFinite ==
  ASSUME TypeOK, NEW f, dir = {f}
  PROVE  IsFiniteSet(Log)
<1>1. f \in FileIDs /\ Len(files[f]) \in Nat
  BY LenType DEF TypeOK
<1>2. PICK S : S = Offsets(f)
  OBVIOUS
<1>3. IsFiniteSet(S)
  <2>1. IsFiniteSet(0 .. Len(files[f]))
    BY <1>1, FS_Interval
  <2> QED BY <1>2, <2>1, FS_Subset DEF Offsets
<1>4. Log = {Placed(f, n) : n \in S}
  BY <1>2 DEF Log
<1>5. PICK at : at = [n \in S |-> Placed(f, n)]
  OBVIOUS
<1>6. at \in Surjection(S, Log)
  BY <1>4, <1>5 DEF Surjection
<1> QED BY <1>3, <1>6, FS_Surjection

(* What a compaction leaves when it returns. *)
LEMMA StepReclaims ==
  ASSUME IInv, IInv', Packed, [Next]_vars, Faults \subseteq {"open"},
         pc = "remove", pc' = "idle"
  PROVE  /\ Log' = {keyDir'[k] : k \in Live'}
         /\ Cardinality(Log') = Cardinality(Live')
         /\ dir' = {currentFileID'}
<1>1. TypeOK /\ TypeOK'
  BY DEF IInv
<1>2. Install
  <2>1. ~SyncMerged /\ ~RemoveFile /\ pc' # pc /\ \A k \in Keys : ~CopyRecord(k)
    BY DEF SyncMerged, RemoveFile, CopyRecord
  <2> QED BY <2>1, CompactionStepsWell DEF Running, vars
<1>3. /\ left = {} /\ keyDir' = newKeyDir /\ currentFileID' = mergedFileID
      /\ UNCHANGED <<dir, files>>
  BY <1>2 DEF Install, disk
<1>4. /\ dir = {mergedFileID}
      /\ \A k \in Keys : newKeyDir[k] # NoLoc => newKeyDir[k] \in Log
                                              /\ RecordAt(newKeyDir[k]).key = k
  BY <1>3 DEF IInv, RemovalInProgress, Exact, Newest, Records
<1>5. Log' = Log /\ Live' = {k \in Keys : newKeyDir[k] # NoLoc}
  BY <1>3, UnchangedDisk DEF LogUnchanged, Live
<1>6. \A l \in Log : l # NoLoc /\ \E k \in Keys : newKeyDir[k] = l
  BY <1>1, <1>4, LogLocation, NoLocAssumption DEF Packed
<1>7. Log = {newKeyDir[k] : k \in Live'}
  BY <1>4, <1>5, <1>6
<1>8. Cardinality(Log) = Cardinality(Live')
  <2>1. PICK L : L = Live'
    OBVIOUS
  <2>2. PICK at : at = [k \in L |-> newKeyDir[k]]
    OBVIOUS
  <2>3. at \in [L -> Log] /\ \A k \in L : RecordAt(at[k]).key = k
    BY <1>4, <1>5, <2>1, <2>2
  <2>4. at \in Injection(L, Log)
    BY <2>3 DEF Injection, IsInjective
  <2>5. at \in Surjection(L, Log)
    BY <1>7, <2>1, <2>2, <2>3 DEF Surjection
  <2>6. IsFiniteSet(Log)
    BY <1>1, <1>4, OneFileIsFinite
  <2> QED BY <2>1, <2>4, <2>5, <2>6, FS_Injection
<1> QED BY <1>3, <1>4, <1>5, <1>7, <1>8

(* A compaction that returns leaves one file that holds exactly one record *)
(* of each live key (compaction.go:26), provided that only opens of files  *)
(* fail and that file IDs keep to one digit.                               *)
THEOREM CompactionLeavesOneRecordPerKey ==
  ASSUME Faults \subseteq {"open"}, MaxFileID <= 9
  PROVE  Spec => CompactionReclaims
<1>1. Init => Packed
  BY DEF Init, Packed
<1>2. IInv /\ IInv' /\ Packed /\ [Next]_vars => Packed'
  BY PackedStep
<1>3. IInv /\ IInv' /\ Packed /\ [Next]_vars =>
        [(pc = "remove" /\ pc' = "idle") =>
           /\ Log' = {keyDir'[k] : k \in Live'}
           /\ Cardinality(Log') = Cardinality(Live')
           /\ dir' = {currentFileID'}]_vars
  BY StepReclaims
<1> QED BY <1>1, <1>2, <1>3, InvariantHolds, PTL DEF Spec, CompactionReclaims
=============================================================================
