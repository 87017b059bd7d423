------------------------ MODULE ReplicationInvariant ------------------------
(***************************************************************************)
(* Why what Replication commits stays committed: an inductive invariant of *)
(* elections, replication and changes of the members, and of what the      *)
(* nodes have applied of it.                                               *)
(***************************************************************************)
EXTENDS Replication

(* The log of n holds everything that is committed. *)
Complete(n) ==
  /\ Len(committed) <= Len(log[n])
  /\ \A i \in 1 .. Len(committed) : log[n][i] = committed[i]

(* No log is from a later term than the last election's, and the leader    *)
(* is a voter whose log is the longest one of its term.                    *)
LeaderInv ==
  /\ \A n \in Nodes : last[n] <= term
  /\ leader # None =>
       /\ leader \in members
       /\ term > 0
       /\ last[leader] = term
       /\ Complete(leader)
       /\ \A n \in Nodes : last[n] = term => Len(log[n]) <= Len(log[leader])
  /\ members = {} => committed = <<>>

(* Logs that come from leaders of the same term differ in length only. *)
LogsMatch ==
  \A m, n \in Nodes :
    last[m] = last[n] /\ Len(log[m]) <= Len(log[n]) =>
      \A i \in 1 .. Len(log[m]) : log[m][i] = log[n][i]

(* The voters that elect none but nodes that hold what is committed.       *)
(* They are at least one half, so every majority meets them; one more than *)
(* half would be too much, since a new voter joins with an empty log.      *)
Guards == {m \in members : \A n \in Nodes : UpToDate(n, m) => Complete(n)}

ElectionsAreSafe == 2 * Cardinality(Guards) >= Cardinality(members)

Elections == LeaderInv /\ LogsMatch /\ ElectionsAreSafe

(* What a node has applied is committed, and its log still has it; a       *)
(* snapshot is of what was applied.                                        *)
NodeInv ==
  \A n \in Nodes :
    /\ applied[n] <= reached[n]
    /\ reached[n] <= Len(committed)
    /\ reached[n] <= Len(log[n])
    /\ \A i \in 1 .. reached[n] : log[n][i] = committed[i]
    /\ snapshot[n] <= reached[n]
    /\ IF n \in up THEN snapshot[n] <= applied[n] ELSE applied[n] = 0

(* Entry w is the last write of k among the first i; 0 stands for none. *)
LastWriteIs(k, w, i) ==
  /\ w \in 0 .. i
  /\ w > 0 => committed[w].key = k
  /\ \A j \in w + 1 .. i : committed[j].key # k

(* A store may be ahead of what its node has applied since it started, but *)
(* a node that is past the last write it ever applied of a key has its     *)
(* value.                                                                  *)
Follows(n) ==
  \A k \in Keys : \E w \in 0 .. reached[n] :
    /\ LastWriteIs(k, w, reached[n])
    /\ w <= Covered(n) =>
         store[n][k] = IF w = 0 THEN NoValue ELSE committed[w].val

StoreInv == \A n \in Nodes \ restored : Follows(n)

(* A call waits for the entry it made; while that is not committed the     *)
(* node that made it leads.                                                *)
CallInv ==
  \A w \in waiting :
    /\ w.index \in 1 .. Len(log[w.node])
    /\ w.index <= Len(committed) => log[w.node][w.index] = committed[w.index]
    /\ w.index > Len(committed) => w.node = leader

(* The inductive invariant: theorems in ReplicationProofs rest on it. *)
IInv ==
  /\ TypeOK
  /\ Elections
  /\ NodeInv
  /\ StoreInv
  /\ CallInv
=============================================================================
