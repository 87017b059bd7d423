---------------------------- MODULE Replication ----------------------------
(***************************************************************************)
(* One Raft group: raft/fsm.go, raft/node.go, raft/join.go and the server  *)
(* of server/raft_server.go on every node.                                 *)
(*                                                                         *)
(* hashicorp/raft is external and modelled by what the code relies on: per *)
(* node a persistent log, elections won only with an up-to-date log, and   *)
(* entries that a majority holds handed to FSM.Apply one by one.  The      *)
(* no-op a new leader writes is not an entry here: last[n] says up to      *)
(* which term's no-op the log of n reaches.  A follower copies the log of  *)
(* the leader in one step.                                                 *)
(*                                                                         *)
(* Of the storage engine (module Bitcask) a node sees its promise: what    *)
(* Apply wrote is still there after a restart, unless the data directory   *)
(* has become unreadable.                                                  *)
(***************************************************************************)
EXTENDS Integers, Sequences, FiniteSets

CONSTANTS
  Nodes,
  Boot,              \* the node started with -bootstrap
  None,              \* no leader
  Keys, Values, NoValue,
  SnapshotThreshold, \* raftConfig.SnapshotThreshold
  TrailingLogs,      \* raft's default: how many entries a snapshot leaves in the log
  MaxTerm,           \* bound of the model: elections
  MaxLog             \* bound of the model: entries of a log

ASSUME NodeAssumption == Boot \in Nodes /\ None \notin Nodes /\ IsFiniteSet(Nodes)
ASSUME ValueAssumption == NoValue \notin Values
ASSUME RaftAssumption ==
  /\ SnapshotThreshold \in Nat
  /\ TrailingLogs \in Nat
  /\ MaxTerm \in Nat
  /\ MaxLog \in Nat

Stored == Values \cup {NoValue}

(* A LogEntry: a PUT has a value, a DELETE has NoValue. *)
LogEntry == [term : 1 .. MaxTerm, key : Keys, val : Stored]

VARIABLES
  \* hashicorp/raft
  members,    \* the voters
  term,       \* the term of the last election
  leader,     \* the node that won it, while it runs
  log,        \* log[n]: the log of n, persistent, from the very first entry
  last,       \* last[n]: the term of the leader that n's log was copied from
  committed,  \* the entries a majority holds
  snapshot,   \* snapshot[n]: the last entry the newest snapshot of n covers
  applied,    \* applied[n]: the last entry handed to the FSM of n
  \* titan-kv
  up,         \* the nodes that run
  store,      \* store[n]: the key-value pairs on the disk of n
  unreadable, \* the nodes whose data files NewBitcask refuses
  index,      \* index[n]: FSM.index of n
  waiting,    \* the Put and Delete calls inside ApplyLogEntry
  \* history
  reached,    \* reached[n]: the highest value applied[n] ever had
  restored    \* the nodes raft has sent a snapshot

history == <<reached, restored>>

consensus == <<members, term, leader, log, last, committed>>
titan == <<up, store, unreadable, index, waiting>>
vars == <<consensus, snapshot, applied, titan, history>>

(* The types of what raft, the state machines and their stores hold. *)
TypeOK ==
  /\ members \subseteq Nodes
  /\ term \in 0 .. MaxTerm
  /\ leader \in Nodes \cup {None}
  /\ log \in [Nodes -> Seq(LogEntry)]
  /\ last \in [Nodes -> 0 .. MaxTerm]
  /\ committed \in Seq(LogEntry)
  /\ snapshot \in [Nodes -> Nat]
  /\ applied \in [Nodes -> Nat]
  /\ up \subseteq Nodes
  /\ store \in [Nodes -> [Keys -> Stored]]
  /\ unreadable \subseteq Nodes
  /\ index \in [Nodes -> Nat]
  /\ waiting \subseteq [node : Nodes, index : Nat]
  /\ reached \in [Nodes -> Nat]
  /\ restored \subseteq Nodes

Init ==
  /\ members = {}
  /\ term = 0
  /\ leader = None
  /\ log = [n \in Nodes |-> <<>>]
  /\ last = [n \in Nodes |-> 0]
  /\ committed = <<>>
  /\ snapshot = [n \in Nodes |-> 0]
  /\ applied = [n \in Nodes |-> 0]
  /\ up = {}
  /\ store = [n \in Nodes |-> [k \in Keys |-> NoValue]]
  /\ unreadable = {}
  /\ index = [n \in Nodes |-> 0]
  /\ waiting = {}
  /\ reached = [n \in Nodes |-> 0]
  /\ restored = {}

-----------------------------------------------------------------------------
NewNodeEmpty(n, bootstrap) ==   \* mutant of NewNode: the storage engine starts empty
  /\ n \notin up
  /\ n \notin unreadable
  /\ bootstrap => n = Boot /\ members = {}
  /\ members' = IF bootstrap THEN {n} ELSE members
  /\ up' = up \cup {n}
  /\ applied' = [applied EXCEPT ![n] = snapshot[n]]
  /\ store' = [store EXCEPT ![n] = [k \in Keys |-> NoValue]]
  /\ UNCHANGED <<term, leader, log, last, committed, snapshot,
                 unreadable, index, waiting, history>>

(* NewBitcask, NewNode.  Raft restores the newest snapshot: FSM.Restore    *)
(* reads and discards it, but the entries it covers are not applied again. *)
(* FSM.index starts at 0.  BootstrapCluster refuses a node that has state, *)
(* and NewNode fails with it.                                              *)
NewNode(n, bootstrap) ==
  /\ n \notin up
  /\ n \notin unreadable
  /\ bootstrap => n = Boot /\ members = {}
  /\ members' = IF bootstrap THEN {n} ELSE members
  /\ up' = up \cup {n}
  /\ applied' = [applied EXCEPT ![n] = snapshot[n]]
  /\ UNCHANGED <<term, leader, log, last, committed, snapshot,
                 store, unreadable, index, waiting, history>>

Majority(M) == M \subseteq members /\ 2 * Cardinality(M) > Cardinality(members)

(* Who has got everything from the present leader up to entry i. *)
Holders(i) == {m \in members : last[m] = term /\ Len(log[m]) >= i}

JoinClusterAtOnce(n) ==   \* mutant of JoinCluster: beside another change of the members
  /\ leader # None
  /\ n \notin members
  /\ members' = members \cup {n}
  /\ UNCHANGED <<term, leader, log, last, committed, snapshot, applied, titan, history>>

(* AddPeer and JoinCluster, which only a leader grants, and raft one by    *)
(* one: the change before has to be in the log of a majority.              *)
JoinCluster(n) ==
  /\ leader # None
  /\ n \notin members
  /\ Majority(Holders(Len(committed)))
  /\ members' = members \cup {n}
  /\ UNCHANGED <<term, leader, log, last, committed, snapshot, applied, titan, history>>

(* Raft hands the entries to the FSM in the order of the log. *)
Applicable(n) ==
  LET i == applied[n] + 1
  IN i <= Len(committed) /\ i <= Len(log[n]) /\ log[n][i] = committed[i]

(* bc.Delete of a key that is not there: an error, and nothing is written. *)
Missing(n, entry) == entry.val = NoValue /\ store[n][entry.key] = NoValue

(* The process ends, perhaps in the middle of a write of FSM.Apply, which  *)
(* leaves half a record.  Nobody answers the calls it had accepted.        *)
Kill(n) ==
  /\ n \in up
  /\ up' = up \ {n}
  /\ leader' = IF leader = n THEN None ELSE leader
  /\ applied' = [applied EXCEPT ![n] = 0]
  /\ index' = [index EXCEPT ![n] = 0]
  /\ waiting' = {w \in waiting : w.node # n}
  /\ \/ UNCHANGED unreadable
     \/ /\ Applicable(n)
        /\ ~Missing(n, committed[applied[n] + 1])
        /\ unreadable' = unreadable \cup {n}
  /\ UNCHANGED <<members, term, log, last, committed, snapshot, store, history>>

-----------------------------------------------------------------------------
UpToDate(n, m) ==
  last[n] > last[m] \/ (last[n] = last[m] /\ Len(log[n]) >= Len(log[m]))

(* A deposed leader fails the calls whose entries are not committed. *)
Elect(n) ==
  /\ n \in up \cap members
  /\ term < MaxTerm
  /\ Majority({m \in up : m \in members /\ UpToDate(n, m)})
  /\ term' = term + 1
  /\ leader' = n
  /\ last' = [last EXCEPT ![n] = term + 1]
  /\ waiting' = {w \in waiting : w.index <= Len(committed)}
  /\ UNCHANGED <<members, log, committed, snapshot, applied, up, store, unreadable, index,
                 history>>

(* Where the log of n parts from the leader's. *)
Common(n) ==
  {i \in 1 .. Len(log[n]) : i <= Len(log[leader]) /\ log[n][i] = log[leader][i]}

(* The first entries of the leader's log are gone, and n needs them. *)
Behind(n) == Cardinality(Common(n)) < snapshot[leader] - TrailingLogs

Replicate(n) ==
  /\ leader # None
  /\ n \in (up \cap members) \ {leader}
  /\ ~Behind(n)
  /\ log' = [log EXCEPT ![n] = log[leader]]
  /\ last' = [last EXCEPT ![n] = term]
  /\ UNCHANGED <<members, term, leader, committed, snapshot, applied, titan, history>>

(* InstallSnapshot, and the entries behind it.  FSM.Restore leaves the     *)
(* storage engine as it is.                                                *)
InstallSnapshot(n) ==
  /\ leader # None
  /\ n \in (up \cap members) \ {leader}
  /\ Behind(n)
  /\ log' = [log EXCEPT ![n] = log[leader]]
  /\ last' = [last EXCEPT ![n] = term]
  /\ snapshot' = [snapshot EXCEPT ![n] = snapshot[leader]]
  /\ applied' = [applied EXCEPT ![n] = snapshot[leader]]
  /\ reached' = [reached EXCEPT ![n] = snapshot[leader]]
  /\ restored' = restored \cup {n}
  /\ UNCHANGED <<members, term, leader, committed, titan>>

(* One entry more is held by a majority.  Raft may move its commit index   *)
(* by several entries at once; the model takes as many steps.              *)
Commit ==
  LET i == Len(committed) + 1
  IN /\ leader # None
     /\ i <= Len(log[leader])
     /\ Majority(Holders(i))
     /\ committed' = SubSeq(log[leader], 1, i)
     /\ UNCHANGED <<members, term, leader, log, last, snapshot, applied, titan, history>>

(* Mutants of Snapshot: it covers what was not applied, or lags behind. *)
SnapshotCovering(n, i) ==
  /\ n \in up
  /\ Len(log[n]) - snapshot[n] >= SnapshotThreshold
  /\ applied[n] > snapshot[n]
  /\ snapshot' = [snapshot EXCEPT ![n] = i]
  /\ UNCHANGED <<consensus, applied, titan, history>>

SnapshotOfCommitted(n) == SnapshotCovering(n, Len(committed))
SnapshotLagging(n) == SnapshotCovering(n, applied[n] - SnapshotThreshold)

(* FSM.Snapshot and Persist, once enough entries have come in: the index   *)
(* alone is saved, and raft drops the log in front of it.                  *)
Snapshot(n) ==
  /\ n \in up
  /\ Len(log[n]) - snapshot[n] >= SnapshotThreshold
  /\ applied[n] > snapshot[n]
  /\ snapshot' = [snapshot EXCEPT ![n] = applied[n]]
  /\ UNCHANGED <<consensus, applied, titan, history>>

-----------------------------------------------------------------------------
ApplyLogEntryAnywhere(n, k, v) ==   \* mutant of ApplyLogEntry: no IsLeader check
  /\ n \in up
  /\ term > 0
  /\ Len(log[n]) < MaxLog
  /\ log' = [log EXCEPT ![n] = Append(@, [term |-> term, key |-> k, val |-> v])]
  /\ waiting' = waiting \cup {[node |-> n, index |-> Len(log[n]) + 1]}
  /\ UNCHANGED <<members, term, leader, last, committed, snapshot, applied,
                 up, store, unreadable, index, history>>

(* Node.ApplyLogEntry up to the wait for the future: a node that is not    *)
(* the leader answers with an error and leaves no trace.                   *)
ApplyLogEntry(n, k, v) ==
  /\ n = leader
  /\ Len(log[n]) < MaxLog
  /\ log' = [log EXCEPT ![n] = Append(@, [term |-> term, key |-> k, val |-> v])]
  /\ waiting' = waiting \cup {[node |-> n, index |-> Len(log[n]) + 1]}
  /\ UNCHANGED <<members, term, leader, last, committed, snapshot, applied,
                 up, store, unreadable, index, history>>

(* RaftKVServer looks at IsLeader, as ApplyLogEntry and raft.Apply do once *)
(* more, and hands the entry on.  Get reads the local storage engine.      *)
Put(n, k, v) == ApplyLogEntry(n, k, v)

Delete(n, k) == ApplyLogEntry(n, k, NoValue)

Get(n, k) == store[n][k]

(* The call that waits on node n for entry i. *)
Caller(n, i) == {w \in waiting : w.node = n /\ w.index = i}

(* FSM.Apply, and the answer to the caller.  A Delete of a key that is not *)
(* there is an error and leaves FSM.index; one that succeeds leaves a      *)
(* tombstone, and no restart reads past it.                                *)
Apply(n) ==
  LET i == applied[n] + 1
      entry == committed[i]
      missing == Missing(n, entry)
  IN /\ n \in up
     /\ Applicable(n)
     /\ store' = [store EXCEPT ![n][entry.key] = entry.val]
     /\ index' = [index EXCEPT ![n] = IF missing THEN @ ELSE i]
     /\ unreadable' = IF entry.val = NoValue /\ ~missing THEN unreadable \cup {n} ELSE unreadable
     /\ applied' = [applied EXCEPT ![n] = i]
     /\ reached' = [reached EXCEPT ![n] = IF i > @ THEN i ELSE @]
     /\ waiting' = waiting \ Caller(n, i)
     /\ UNCHANGED <<consensus, snapshot, up, restored>>

Next ==
  \/ \E n \in Nodes :
       \/ \E bootstrap \in BOOLEAN : NewNode(n, bootstrap)
       \/ JoinCluster(n) \/ Kill(n)
       \/ Elect(n) \/ Replicate(n) \/ InstallSnapshot(n)
       \/ Snapshot(n) \/ Apply(n)
       \/ \E k \in Keys, v \in Values : Put(n, k, v)
       \/ \E k \in Keys : Delete(n, k)
  \/ Commit

Spec == Init /\ [][Next]_vars

-----------------------------------------------------------------------------
(* What the first i committed entries say: the last write of each key.     *)
Writes(k, i) == {j \in 1 .. i : committed[j].key = k}

LastWrite(k, i) == CHOOSE j \in Writes(k, i) : \A m \in Writes(k, i) : m <= j

StateAt(i) ==
  [k \in Keys |-> IF Writes(k, i) = {} THEN NoValue ELSE committed[LastWrite(k, i)].val]

(* The storage engine outlives a restart and raft does not know that, so   *)
(* entries are applied a second time to a store that is ahead of them.     *)
(* When the replay has caught up, the store is again what the committed    *)
(* log says (fsm.go:35), with failed and repeated Deletes in the log too.  *)
ReplayConverges ==
  \A n \in Nodes \ restored : applied[n] >= reached[n] => store[n] = StateAt(applied[n])

(* What a majority has committed is never replaced, whatever leaders come  *)
(* and go: a write that was answered with success stays in the log         *)
(* (README.md:287), and every store is made of committed writes only.      *)
CommittedStays ==
  [][/\ Len(committed) <= Len(committed')
     /\ \A i \in 1 .. Len(committed) : committed'[i] = committed[i]]_vars

(* A caller that waits at an index is told the fate of its own entry: when *)
(* the index is committed, it is with what the caller put there.           *)
CallersOwnEntry ==
  \A w \in waiting :
    /\ w.index <= Len(log[w.node])
    /\ w.index <= Len(committed) => log[w.node][w.index] = committed[w.index]

(* "We don't need to restore the keyDir here" (fsm.go:86): a follower that *)
(* was sent a snapshot has in its storage engine what the snapshot covers. *)
RestoreIsNotNeeded ==
  \A n \in restored : applied[n] >= reached[n] => store[n] = StateAt(applied[n])

(* An entry is told from all others by its term and its place in a log. *)
Tagged(entry, i) == [id |-> <<entry.term, i>>, key |-> entry.key, val |-> entry.val]

CommittedLog == [i \in 1 .. Len(committed) |-> Tagged(committed[i], i)]

CommittedEntries == {Tagged(committed[i], i) : i \in 1 .. Len(committed)}

LogEntries == UNION {{Tagged(log[n][i], i) : i \in 1 .. Len(log[n])} : n \in Nodes}

Proposed == LogEntries \ CommittedEntries

(* Where raft goes on to hand out entries to n once n runs. *)
Covered(n) == IF n \in up THEN applied[n] ELSE snapshot[n]

CallOf(w) == [node |-> w.node, entry |-> Tagged(log[w.node][w.index], w.index)]

Calls == {CallOf(w) : w \in waiting}

Group == INSTANCE RaftGroup WITH
  Ids <- (1 .. MaxTerm) \X (1 .. MaxLog),
  committed <- CommittedLog,
  proposed <- Proposed,
  applied <- [n \in Nodes |-> Covered(n)],
  calls <- Calls

(* The nodes together keep the promise of RaftGroup, on which the sharded  *)
(* server builds: one list of committed entries that only grows, applied   *)
(* by each node in order and again after a restart, and callers that are   *)
(* answered when their own entry is applied, or not at all.                *)
KeepsGroupPromise == Group!GroupSpec
=============================================================================
