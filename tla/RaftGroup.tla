----------------------------- MODULE RaftGroup -----------------------------
(***************************************************************************)
(* What one Raft group promises to the servers above it.  Module           *)
(* Replication implements this specification, module ShardedServer builds  *)
(* on it.                                                                  *)
(*                                                                         *)
(* There is one list of committed entries and each node applies it in      *)
(* order to its own store.  How entries reach a majority is left out: any  *)
(* proposed entry may be committed next, or never.                         *)
(***************************************************************************)
EXTENDS Naturals, Sequences

CONSTANTS
  Nodes,
  None,              \* no leader
  Keys, Values, NoValue,
  Ids                \* what tells one entry from another

ASSUME LeaderAssumption == None \notin Nodes
ASSUME StoredAssumption == NoValue \notin Values

Stored == Values \cup {NoValue}

(* A LogEntry: a PUT has a value, a DELETE has NoValue. *)
Entry == [id : Ids, key : Keys, val : Stored]

VARIABLES
  leader,
  proposed,   \* entries that may be committed yet
  committed,  \* the committed entries, in order
  applied,    \* applied[n]: how many of them raft has handed to the FSM of n
  reached,    \* reached[n]: the highest value applied[n] ever had
  restored,   \* the nodes raft has moved on with a snapshot
  store,      \* store[n]: the key-value pairs on the disk of n
  calls       \* the calls of ApplyLogEntry in progress: a node and its entry

group == <<leader, proposed, committed, applied, reached, restored, store, calls>>

(* The types of the group's state; no node is ahead of the committed log. *)
GroupTypeOK ==
  /\ leader \in Nodes \cup {None}
  /\ proposed \subseteq Entry
  /\ committed \in Seq(Entry)
  /\ applied \in [Nodes -> Nat]
  /\ reached \in [Nodes -> Nat]
  /\ \A n \in Nodes : applied[n] <= reached[n] /\ reached[n] <= Len(committed)
  /\ restored \subseteq Nodes
  /\ store \in [Nodes -> [Keys -> Stored]]
  /\ calls \subseteq [node : Nodes, entry : Entry]

GroupInit ==
  /\ leader = None
  /\ proposed = {}
  /\ committed = <<>>
  /\ applied = [n \in Nodes |-> 0]
  /\ reached = [n \in Nodes |-> 0]
  /\ restored = {}
  /\ store = [n \in Nodes |-> [k \in Keys |-> NoValue]]
  /\ calls = {}

-----------------------------------------------------------------------------
CommittedEntries == {committed[i] : i \in 1 .. Len(committed)}

(* Node.ApplyLogEntry up to the wait for the future. *)
Propose(n, e) ==
  /\ n = leader
  /\ proposed' = proposed \cup {e}
  /\ calls' = calls \cup {[node |-> n, entry |-> e]}
  /\ UNCHANGED <<leader, committed, applied, reached, restored, store>>

Commit ==
  \E e \in proposed :
    /\ committed' = Append(committed, e)
    /\ proposed' = proposed \ {e}
    /\ UNCHANGED <<leader, applied, reached, restored, store, calls>>

(* Entries that no log holds any more. *)
Forget ==
  /\ proposed' \in SUBSET proposed
  /\ UNCHANGED <<leader, committed, applied, reached, restored, store, calls>>

(* bc.Delete of a key that is not there: an error, and nothing is written. *)
Missing(n, e) == e.val = NoValue /\ store[n][e.key] = NoValue

(* The entry that raft hands to the FSM of n next. *)
NextEntry(n) == committed[applied[n] + 1]

ApplyPuts(n) ==   \* mutant of Apply: no case for DELETE
  LET i == applied[n] + 1
      e == NextEntry(n)
  IN /\ i <= Len(committed)
     /\ store' = IF e.val = NoValue THEN store ELSE [store EXCEPT ![n][e.key] = e.val]
     /\ applied' = [applied EXCEPT ![n] = i]
     /\ reached' = [reached EXCEPT ![n] = IF i > @ THEN i ELSE @]
     /\ calls' = calls \ {[node |-> n, entry |-> e]}
     /\ UNCHANGED <<leader, proposed, committed, restored>>

(* FSM.Apply, and the answer to the call that waits for the entry. *)
Apply(n) ==
  LET i == applied[n] + 1
      e == NextEntry(n)
  IN /\ i <= Len(committed)
     /\ store' = [store EXCEPT ![n][e.key] = e.val]
     /\ applied' = [applied EXCEPT ![n] = i]
     /\ reached' = [reached EXCEPT ![n] = IF i > @ THEN i ELSE @]
     /\ calls' = calls \ {[node |-> n, entry |-> e]}
     /\ UNCHANGED <<leader, proposed, committed, restored>>

(* A deposed leader fails the calls whose entries are not committed. *)
Elect(n) ==
  /\ leader' = n
  /\ calls' = {c \in calls : c.entry \in CommittedEntries}
  /\ UNCHANGED <<proposed, committed, applied, reached, restored, store>>

(* The process ends and starts again: its calls are lost, and entries that *)
(* its newest snapshot does not cover are applied once more, to the store  *)
(* that is on the disk.                                                    *)
Restart(n) ==
  /\ leader' = IF leader = n THEN None ELSE leader
  /\ \E i \in 0 .. applied[n] : applied' = [applied EXCEPT ![n] = i]
  /\ calls' = {c \in calls : c.node # n}
  /\ UNCHANGED <<proposed, committed, reached, restored, store>>

(* Raft sends n a snapshot; FSM.Restore leaves the store as it is. *)
Restore(n) ==
  /\ \E i \in reached[n] .. Len(committed) :
       /\ applied' = [applied EXCEPT ![n] = i]
       /\ reached' = [reached EXCEPT ![n] = i]
  /\ restored' = restored \cup {n}
  /\ proposed' \in SUBSET proposed
  /\ UNCHANGED <<leader, committed, store, calls>>

GroupNext ==
  \/ \E n \in Nodes :
       \/ Restart(n) \/ Apply(n) \/ Elect(n) \/ Restore(n)
       \/ \E e \in Entry : Propose(n, e)
  \/ Commit
  \/ Forget

GroupSpec == GroupInit /\ [][GroupNext]_group

-----------------------------------------------------------------------------
(* v is what the first i committed entries leave in key k. *)
Leaves(k, i, v) ==
  \/ v = NoValue /\ \A j \in 1 .. i : committed[j].key # k
  \/ \E j \in 1 .. i :
       /\ committed[j].key = k
       /\ committed[j].val = v
       /\ \A m \in j + 1 .. i : committed[m].key # k

(* A restart makes a node apply entries to a store that is ahead of them   *)
(* (fsm.go:35, over a storage engine that kept its data).  Once the node   *)
(* is where it was, its store is what the committed entries say.           *)
Converges ==
  \A n \in Nodes \ restored :
    applied[n] = reached[n] => \A k \in Keys : Leaves(k, applied[n], store[n][k])
=============================================================================
