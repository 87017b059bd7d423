-------------------------- MODULE RaftGroupProofs --------------------------
(***************************************************************************)
(* What is proved of RaftGroup, for every set of nodes, keys, values and   *)
(* entries.  Converges is not inductive: while a node applies entries a    *)
(* second time its store is ahead of them.  The inductive invariant looks  *)
(* at the last write of a key up to where the node has ever been: once the *)
(* node is past that write, its store has the value.                       *)
(***************************************************************************)
EXTENDS RaftGroup, TLAPS

(* w is the last write of k among the first i committed entries, 0 if none. *)
LastWrite(k, w, i) ==
  /\ w \in 0 .. i
  /\ w > 0 => committed[w].key = k
  /\ \A m \in w + 1 .. i : committed[m].key # k

ValueOf(w) == IF w = 0 THEN NoValue ELSE committed[w].val

Follows(n, k) ==
  \E w \in Nat :
    /\ LastWrite(k, w, reached[n])
    /\ w <= applied[n] => store[n][k] = ValueOf(w)

StoreFollows == \A n \in Nodes \ restored : \A k \in Keys : Follows(n, k)

GroupInv == GroupTypeOK /\ StoreFollows

-----------------------------------------------------------------------------
(* Nothing is committed and nothing is stored. *)
LEMMA GroupInitEstablishes == GroupInit => GroupInv
<1> SUFFICES ASSUME GroupInit
             PROVE  GroupInv
  OBVIOUS
<1>1. GroupTypeOK
  BY DEF GroupInit, GroupTypeOK, Stored
<1>2. ASSUME NEW n \in Nodes \ restored, NEW k \in Keys
      PROVE  Follows(n, k)
  <2>1. LastWrite(k, 0, reached[n]) /\ store[n][k] = ValueOf(0)
    BY DEF GroupInit, LastWrite, ValueOf
  <2> QED BY <2>1 DEF Follows
<1> QED BY <1>1, <1>2 DEF GroupInv, StoreFollows

(* An entry that is appended is behind all that any node has reached. *)
LEMMA CommitKeeps ==
  ASSUME GroupInv, Commit
  PROVE  GroupInv'
<1> USE DEF GroupInv, GroupTypeOK
<1>1. PICK e \in proposed : committed' = Append(committed, e) /\ proposed' = proposed \ {e}
  BY DEF Commit
<1>2. UNCHANGED <<leader, applied, reached, restored, store, calls>>
  BY DEF Commit
<1>3. /\ committed' \in Seq(Entry)
      /\ Len(committed') = Len(committed) + 1
      /\ \A i \in 1 .. Len(committed) : committed'[i] = committed[i]
  BY <1>1
<1>4. GroupTypeOK'
  BY <1>1, <1>2, <1>3
<1>5. ASSUME NEW n \in Nodes \ restored, NEW k \in Keys
      PROVE  Follows(n, k)'
  <2>1. reached[n] \in Nat /\ reached[n] <= Len(committed) /\ applied[n] \in Nat
    OBVIOUS
  <2>2. PICK w \in Nat :
          /\ LastWrite(k, w, reached[n])
          /\ w <= applied[n] => store[n][k] = ValueOf(w)
    BY <2>1 DEF StoreFollows, Follows
  <2>3. w \in 0 .. Len(committed) /\ w \in 0 .. reached[n]
    BY <2>1, <2>2 DEF LastWrite
  <2>4. ValueOf(w)' = ValueOf(w)
    BY <1>3, <2>3 DEF ValueOf
  <2>5. reached'[n] = reached[n]
    BY <1>2
  <2>6. \A m \in w + 1 .. reached[n] : committed'[m] = committed[m]
    BY <1>3, <2>1, <2>3
  <2>7. w > 0 => committed'[w] = committed[w]
    BY <1>3, <2>3
  <2>8. LastWrite(k, w, reached[n])'
    BY <2>2, <2>5, <2>6, <2>7 DEF LastWrite
  <2> QED BY <1>2, <2>2, <2>4, <2>8 DEF Follows
<1> QED BY <1>2, <1>4, <1>5 DEF StoreFollows

(* The FSM is handed a committed entry that it has not been handed yet. *)
LEMMA ApplyTypes ==
  ASSUME GroupTypeOK, NEW n \in Nodes, Apply(n)
  PROVE  /\ GroupTypeOK'
         /\ applied[n] + 1 \in 1 .. Len(committed)
         /\ NextEntry(n) = committed[applied[n] + 1]
         /\ NextEntry(n) \in Entry
<1> USE DEF GroupTypeOK
<1>1. applied[n] \in Nat /\ applied[n] + 1 \in 1 .. Len(committed)
  BY DEF Apply
<1>2. NextEntry(n) = committed[applied[n] + 1] /\ NextEntry(n) \in Entry
  BY <1>1 DEF NextEntry
<1>3. NextEntry(n).key \in Keys /\ NextEntry(n).val \in Stored
  BY <1>2 DEF Entry
<1>4. store' \in [Nodes -> [Keys -> Stored]]
  BY <1>3 DEF Apply
<1>5. applied' \in [Nodes -> Nat] /\ reached' \in [Nodes -> Nat]
  BY <1>1 DEF Apply
<1>6. \A m \in Nodes : applied'[m] <= reached'[m] /\ reached'[m] <= Len(committed)
  BY <1>1 DEF Apply
<1>7. UNCHANGED <<leader, proposed, committed, restored>> /\ calls' \subseteq calls
  BY DEF Apply
<1> QED BY <1>1, <1>2, <1>4, <1>5, <1>6, <1>7

(* The node gets one entry further, for the first time or once more. *)
LEMMA ApplyKeeps ==
  ASSUME GroupInv, NEW n \in Nodes, Apply(n)
  PROVE  GroupInv'
<1>0. applied[n] + 1 \in Nat
  BY DEF GroupInv, GroupTypeOK
<1>a. PICK i \in Nat, e \in Entry :
         /\ i = applied[n] + 1 /\ i \in 1 .. Len(committed)
         /\ e = NextEntry(n) /\ e = committed[i]
  BY <1>0, ApplyTypes DEF GroupInv
<1>1. /\ GroupTypeOK /\ GroupTypeOK'
      /\ i \in 1 .. Len(committed)
      /\ e = committed[i] /\ e \in Entry
  BY <1>a, ApplyTypes DEF GroupInv
<1>2. /\ applied[n] \in Nat /\ reached[n] \in Nat /\ applied[n] <= reached[n]
      /\ committed' = committed /\ restored' = restored
      /\ applied' = [applied EXCEPT ![n] = i]
      /\ reached' = [reached EXCEPT ![n] = IF i > @ THEN i ELSE @]
      /\ store' = [store EXCEPT ![n][e.key] = e.val]
  BY <1>a, <1>1 DEF Apply, GroupTypeOK
<1>3. ASSUME n \notin restored, NEW k \in Keys
      PROVE  Follows(n, k)'
  <2>1. PICK w \in Nat :
          /\ LastWrite(k, w, reached[n])
          /\ w <= applied[n] => store[n][k] = ValueOf(w)
    BY <1>2, <1>3 DEF GroupInv, StoreFollows, Follows
  <2>2. /\ applied'[n] = i
        /\ reached'[n] = IF i > reached[n] THEN i ELSE reached[n]
        /\ store'[n][k] = IF e.key = k THEN e.val ELSE store[n][k]
    BY <1>1, <1>2 DEF GroupTypeOK
  <2>3. \A x : ValueOf(x)' = ValueOf(x)
    BY <1>2 DEF ValueOf
  <2>4. i = applied[n] + 1
    BY <1>a
  <2>5. CASE i > reached[n] /\ e.key = k
    <3>1. LastWrite(k, i, reached[n])' /\ store'[n][k] = ValueOf(i)
      BY <1>1, <1>2, <2>2, <2>4, <2>5 DEF LastWrite, ValueOf
    <3> QED BY <1>1, <2>3, <3>1 DEF Follows
  <2>6. CASE i > reached[n] /\ e.key # k
    <3>1. LastWrite(k, w, reached[n])'
      BY <1>1, <1>2, <2>1, <2>2, <2>4, <2>6 DEF LastWrite
    <3>2. w <= applied[n]
      BY <1>2, <2>1, <2>4, <2>6 DEF LastWrite
    <3> QED BY <1>2, <2>1, <2>2, <2>3, <2>6, <3>1, <3>2 DEF Follows
  <2>7. CASE i <= reached[n]
    <3>1. LastWrite(k, w, reached[n])'
      BY <1>1, <1>2, <2>1, <2>2, <2>7 DEF LastWrite
    <3>2. w = i => e.key = k /\ ValueOf(w) = e.val
      BY <1>1, <2>1 DEF LastWrite, ValueOf
    <3>3. w < i => e.key # k
      BY <1>1, <1>2, <2>1, <2>7 DEF LastWrite
    <3>4. w <= i => store'[n][k] = ValueOf(w)
      BY <1>1, <1>2, <2>1, <2>2, <2>4, <3>2, <3>3
    <3> QED BY <1>2, <2>2, <2>3, <3>1, <3>4 DEF Follows
  <2> QED BY <1>1, <1>2, <2>5, <2>6, <2>7
<1>4. ASSUME NEW m \in Nodes \ (restored \cup {n}), NEW k \in Keys
      PROVE  Follows(m, k)'
  <2>1. Follows(m, k)
    BY <1>1 DEF GroupInv, GroupTypeOK, StoreFollows
  <2>2. applied'[m] = applied[m] /\ reached'[m] = reached[m] /\ store'[m] = store[m]
    BY <1>1, <1>2 DEF GroupTypeOK
  <2> QED BY <1>2, <2>1, <2>2 DEF Follows, LastWrite, ValueOf
<1> QED BY <1>1, <1>2, <1>3, <1>4 DEF GroupInv, StoreFollows

(* After a restart there is less that the store has to agree with. *)
LEMMA RestartKeeps ==
  ASSUME GroupInv, NEW n \in Nodes, Restart(n)
  PROVE  GroupInv'
<1>1. PICK i \in 0 .. applied[n] : applied' = [applied EXCEPT ![n] = i]
  BY DEF Restart
<1>2. /\ UNCHANGED <<proposed, committed, reached, restored, store>>
      /\ calls' \subseteq calls
      /\ leader' \in {leader, None}
  BY DEF Restart
<1>3. \A m \in Nodes : applied'[m] \in Nat /\ applied'[m] <= applied[m] /\ applied[m] \in Nat
  BY <1>1 DEF GroupInv, GroupTypeOK
<1>4. GroupTypeOK'
  BY <1>1, <1>2, <1>3 DEF GroupInv, GroupTypeOK
<1>5. ASSUME NEW m \in Nodes \ restored, NEW k \in Keys
      PROVE  Follows(m, k)'
  <2>1. PICK w \in Nat :
          /\ LastWrite(k, w, reached[m])
          /\ w <= applied[m] => store[m][k] = ValueOf(w)
    BY DEF GroupInv, GroupTypeOK, StoreFollows, Follows
  <2>2. LastWrite(k, w, reached[m])' /\ ValueOf(w)' = ValueOf(w)
    BY <1>2, <2>1 DEF LastWrite, ValueOf
  <2>3. w <= applied'[m] => w <= applied[m]
    BY <1>3
  <2> QED BY <1>2, <2>1, <2>2, <2>3 DEF Follows
<1> QED BY <1>2, <1>4, <1>5 DEF GroupInv, StoreFollows

(* A node that is moved on with a snapshot does not follow any more. *)
LEMMA RestoreKeeps ==
  ASSUME GroupInv, NEW n \in Nodes, Restore(n)
  PROVE  GroupInv'
<1>1. PICK i \in reached[n] .. Len(committed) :
        applied' = [applied EXCEPT ![n] = i] /\ reached' = [reached EXCEPT ![n] = i]
  BY DEF Restore
<1>2. /\ UNCHANGED <<leader, committed, store, calls>>
      /\ restored' = restored \cup {n}
      /\ proposed' \subseteq proposed
  BY DEF Restore
<1>3. i \in Nat /\ i <= Len(committed)
  BY <1>1 DEF GroupInv, GroupTypeOK
<1>4. GroupTypeOK'
  BY <1>1, <1>2, <1>3 DEF GroupInv, GroupTypeOK
<1>5. ASSUME NEW m \in Nodes \ (restored \cup {n}), NEW k \in Keys
      PROVE  Follows(m, k)'
  <2>1. Follows(m, k)
    BY DEF GroupInv, StoreFollows
  <2>2. applied'[m] = applied[m] /\ reached'[m] = reached[m]
    BY <1>1 DEF GroupInv, GroupTypeOK
  <2> QED BY <1>2, <2>1, <2>2 DEF Follows, LastWrite, ValueOf
<1> QED BY <1>2, <1>4, <1>5 DEF GroupInv, StoreFollows

(* The other steps move no entry and no store. *)
LEMMA StillKeeps ==
  ASSUME GroupInv, GroupTypeOK',
         UNCHANGED <<committed, applied, reached, restored, store>>
  PROVE  GroupInv'
BY DEF GroupInv, StoreFollows, Follows, LastWrite, ValueOf

(* A new leader fails calls. *)
LEMMA ElectKeeps ==
  ASSUME GroupInv, NEW n \in Nodes, Elect(n)
  PROVE  GroupInv'
<1>1. GroupTypeOK'
  BY DEF GroupInv, GroupTypeOK, Elect
<1> QED BY <1>1, StillKeeps DEF Elect

(* A leader takes an entry. *)
LEMMA ProposeKeeps ==
  ASSUME GroupInv, NEW n \in Nodes, NEW e \in Entry, Propose(n, e)
  PROVE  GroupInv'
<1>1. GroupTypeOK'
  BY DEF GroupInv, GroupTypeOK, Propose
<1> QED BY <1>1, StillKeeps DEF Propose

(* Entries get lost. *)
LEMMA ForgetKeeps ==
  ASSUME GroupInv, Forget
  PROVE  GroupInv'
<1>1. GroupTypeOK'
  BY DEF GroupInv, GroupTypeOK, Forget
<1> QED BY <1>1, StillKeeps DEF Forget

(* Every step of the group keeps the invariant. *)
LEMMA StepKeeps ==
  ASSUME GroupInv, [GroupNext]_group
  PROVE  GroupInv'
<1>1. CASE UNCHANGED group
  <2>1. GroupTypeOK'
    BY <1>1 DEF GroupInv, GroupTypeOK, group
  <2> QED BY <1>1, <2>1, StillKeeps DEF group
<1>2. CASE GroupNext
  BY <1>2, CommitKeeps, ApplyKeeps, RestartKeeps, RestoreKeeps, ElectKeeps,
     ProposeKeeps, ForgetKeeps DEF GroupNext
<1> QED BY <1>1, <1>2

(* Once a node is where it was, it is past the last write of every key. *)
LEMMA InvariantConverges == GroupInv => Converges
<1> SUFFICES ASSUME GroupInv, NEW n \in Nodes \ restored, applied[n] = reached[n],
                    NEW k \in Keys
             PROVE  Leaves(k, applied[n], store[n][k])
  BY DEF Converges
<1>1. PICK w \in Nat :
        LastWrite(k, w, reached[n]) /\ (w <= applied[n] => store[n][k] = ValueOf(w))
  BY DEF GroupInv, StoreFollows, Follows
<1>2. applied[n] \in Nat /\ w <= applied[n]
  BY <1>1 DEF GroupInv, GroupTypeOK, LastWrite
<1>3. CASE w = 0
  BY <1>1, <1>2, <1>3 DEF LastWrite, ValueOf, Leaves
<1>4. CASE w > 0
  BY <1>1, <1>2, <1>4 DEF LastWrite, ValueOf, Leaves
<1> QED BY <1>3, <1>4

-----------------------------------------------------------------------------
(* The inductive invariant holds for every group. *)
THEOREM GroupInductive == GroupSpec => []GroupInv
<1> QED BY GroupInitEstablishes, StepKeeps, PTL DEF GroupSpec

(* The group's state has its types, and no node is ahead of the log. *)
THEOREM GroupTypeCorrect == GroupSpec => []GroupTypeOK
<1>1. GroupInv => GroupTypeOK
  BY DEF GroupInv
<1> QED BY <1>1, GroupInductive, PTL

(* Replaying the committed entries over a store that is ahead of them      *)
(* (fsm.go:35-63, after a restart) ends with what the entries say.         *)
THEOREM GroupConverges == GroupSpec => []Converges
BY InvariantConverges, GroupInductive, PTL

=============================================================================
