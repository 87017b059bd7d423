# Titan-KV, specified in TLA+

Titan-KV is a key-value store in Go: a Bitcask-like storage engine, a Raft group
that replicates it, and a consistent-hashing ring that spreads keys over nodes.
This directory holds TLA+ models of its core, the TLC runs that check them, and
proofs that the TLA+ proof system checks.

## The system

| part | state | operations | talks to |
|---|---|---|---|
| storage engine, `storage/bitcask.go` | data files on disk; `keyDir`, `currentFileID`, `currentOffset`, the open handle; `mu` | `NewBitcask` (recovery), `Put`, `Get`, `Delete`, `Close`, rotation | the file system |
| compactor, `storage/compaction.go` | a merged file and a new index while it runs | `Compact` | takes `bc.mu` and rewrites the engine's state |
| storage API, `storage/api.go` | none | `Put`, `Get`, `Delete`, `Compact`, `Close` | engine, compactor |
| Raft state machine, `raft/fsm.go` | `index` | `Apply`, `Snapshot`, `Restore` | called back by hashicorp/raft; calls the API |
| Raft node, `raft/node.go`, `raft/join.go` | raft's log, terms and snapshots, in boltdb and files | `NewNode`, `ApplyLogEntry`, `AddPeer`, `JoinCluster`, `Close` | hashicorp/raft, state machine |
| gRPC servers, `server/server.go`, `server/raft_server.go` | none | `Put`, `Get`, `Delete` | API; Raft node |
| sharded gRPC server, `server/sharded_server.go` | requests in progress | `Put`, `Get`, `Delete`, forwarding, read repair | membership service, Raft node, API, the servers of other nodes |
| hash ring, `sharding/ring.go` | nodes, sorted points | `AddNode`, `RemoveNode`, `GetNode`, `GetReplicas`, `UpdateNodeLeader` | membership service |
| membership service, `sharding/membership.go` | ring, client map | `AddNode`, `RemoveNode`, `RefreshClients`, `GetClient`, `Close` | ring, clients |
| client, `client/client.go` | a connection | `Put`, `Get`, `Delete`, with and without timeout, `Close` | servers |
| programs, stubs | tickers | | |

A write reaches the sharded server of any node, is forwarded to the node the
ring names, passes `ApplyLogEntry` there if that node leads the Raft group, and
once a majority has it, raft calls `FSM.Apply` on every node, which calls the
storage API.  A read is answered from the local engine of the node the ring names.

What is hard here, and what must hold:

* **Storage.** A process may die between any two system calls and the machine
  may lose what no fsync covered; recovery has to rebuild the index from what is
  left, compaction replaces all files under a running store, and any system call
  may fail halfway through an operation.  The index must agree with the files, an
  acknowledged write must survive, an interrupted one must be all or nothing, a
  compaction must lose nothing and be invisible to readers, and the lock must be
  released.
* **Replication.** The store is durable on its own and raft replays its log into
  it after a restart; snapshots carry no data; leaders come and go while callers
  wait.  Committed entries must stay, replays must converge, callers must learn
  the fate of their own entry, and reads should see what was acknowledged.
* **Ring.** Points may collide; lookups must find an owner, replicas must be
  distinct, the replica loop must end, and a membership change must move only
  the keys it has to.
* **Membership.** A refresh closes clients that requests have in hand, may fail
  halfway, and goes on after `Close`.  A request must find an open client, must
  never be stuck at the lock, and connections must not pile up.
* **Sharding.** Nodes look keys up in rings of their own, which need not agree;
  a request is a chain of handlers on several nodes, any of which may be
  restarted, deposed, or cut off from the one that waits for it; reads are local.
  Requests should not come back to a node that waits for them, answers must be
  true, and reads should be fresh.

`PROJECT.json` lists these hazards at the lines where they bite.

Parts of the repository do not build as they stand (`raft/node.go` sets a field
`store` the struct does not have and type-asserts on a non-interface;
`sharding/membership.go` ranges over a slice as if it were keyed by node ID; two
server files import packages they do not use; the pinned grpc has no
`NewClient`).  In `membership.go:134` we take the key for the ID of the node.  They are modelled by what the code evidently does.  `cmd/server` never
calls `Compact`, `AddPeer` or `JoinCluster`; `cmd/kv` compacts periodically, and
the integration test grows its cluster with `AddPeer`.

## Modules

| module | what it is |
|---|---|
| `KVStore` | what the storage API promises: the abstract specification |
| `Bitcask` | storage engine and compactor, with crashes and failing system calls |
| `BitcaskInvariant` | the inductive invariant `IInv` behind `IndexIsExact` |
| `BitcaskProofs` | what holds under all faults: types, the log is append-only, locations do not dangle, a compaction swaps nothing |
| `BitcaskIndexProofs` | `IInv` is inductive and implies `IndexIsExact`; compactions are invisible and complete |
| `BitcaskPromiseProofs` | the engine implements `KVStore` |
| `HashRing`, `HashRingProofs` | the ring, and its proofs |
| `RaftGroup`, `RaftGroupProofs` | what a Raft group promises to the servers above it, and its proofs |
| `Replication` | the Raft group in detail: logs, votes, snapshots, the state machine, the plain Raft server; implements `RaftGroup` |
| `ReplicationInvariant`, `ReplicationProofs` | the inductive invariant `IInv` of `Replication`, and the proofs that rest on it, the refinement of `RaftGroup` included |
| `Membership`, `MembershipProofs` | ring members, client map, refreshes |
| `ShardedServer`, `ShardedServerProofs` | the servers of a cluster and their clients, on top of `RaftGroup` |
| `MCBitcask`, `MCReplication`, `MCShardedServer` | symmetry sets for TLC |

The composition is by promises.  `Bitcask` implements `KVStore`, whose promise
(a write that is acknowledged stays) is what `RaftGroup` and `Replication` take
the store of a node to be.  `Replication` implements `RaftGroup`, and
`ShardedServer` extends `RaftGroup`: each of its actions is a step of the group
together with what the handlers and clients learn of it, or leaves the group alone.

### Bitcask

Variables carry the names of the struct's fields and of `Compact`'s locals.
`bc.mu` makes the operations take turns, so one variable `pc` says where the
holder of the lock is; `idle` means free, `down` means no process.  `Get` takes
a read lock, changes nothing, and is an operator that is evaluated in every
state, so also while a writer is at work, which the lock forbids: the
properties are stronger for it.

| code | actions |
|---|---|
| `Put` | `Put`, perhaps `Rotate` or `RotateFails`, then `AppendRecord` or `WriteFails`, then `Sync` or `SyncFails` |
| `Delete` | `Delete`, then as `Put` with a tombstone |
| `Compact` | `CompactBegin`, then `CopyRecord` or `SkipRecord` for each key in any order (a Go map), `SyncMerged` or `CompactGivesUp`, `RemoveFile` for each old file, `Install` |
| `NewBitcask` | `Restart`, or `RestartRefused` when recovery returns an error |
| `Close` | `Close` |
| a killed process, a power failure | `Kill`, `PowerLoss` |

Abstractions.  A file is a sequence of cells, pieces of equal length; a record
has as many as `RecordSize` says, and offsets and sizes count them.  A write may
stop after any cell of a record, and a location may begin or end inside one, as
it does after a failed write or fsync (`BitcaskFailedSync`).  `Compact` copies the cells that the
index names, `Size` of them, whatever they are; `Get` goes by the sizes it finds in the file,
so it sees the record that begins where it looks, or `Garbled` when no whole record does: an
error, or a value put together from several records, which the model does not tell apart.
What was written goes to the page cache, survives a
kill, and is cut to some prefix, no shorter than the last fsync, by a power
failure.  Creating and removing files is durable at once and in order.  An open
that fails leaves no new file.  Calls that return an error and change nothing
(Delete of a missing key, an `os.ReadDir` or `os.Create` that fails) are not
steps.  A store with a torn record, a copy of the wrong size or a tombstone on disk counts as
refused: recovery runs into the end of the file, unless so much follows that
arbitrary sizes are read first, which is left out.  `CONSTANT Faults` says which system calls
may fail.  `c.mu` and `active` are left out: `c.mu` is held from the check
to the reset.

`ListedBefore` is the order of `os.ReadDir`, by name.  IDs below ten are listed
in numerical order, which is where recovery is right; `BitcaskListing` starts
with a `data-9.log` and shows where it is not.

### HashRing

SHA-256 is a pair of functions chosen by `Init`, so TLC tries all of them and a
proof holds for all of them.  `sortedKeys` is a set, its order being that of
numbers; a point that two nodes own is in the slice twice and in the set once, and
the walk of `GetReplicas` stays at it until its owners are taken.  `GetNode`
returns the set of nodes the code may return: it searches a Go map.  `r.mu` lets readers
share; `GetReplicas` is a walk of several steps during which no writer gets in.

### Replication

hashicorp/raft is external and modelled by what this code relies on: elections
need an up-to-date log, an entry is committed when a majority has it in the
leader's term, and committed entries are handed to `FSM.Apply` one by one.  A
follower copies the whole log of the leader at once, and the no-op of a new
leader is the variable `last`.  `NewNode`, `JoinCluster` (with `AddPeer`),
`ApplyLogEntry`, `Put`, `Delete`, `Get`, `Apply`, `Snapshot`, `InstallSnapshot`
(for `Restore`) and `Kill` are the code's own.  The checks of `IsLeader` before
`raft.Apply` are one guard, since raft repeats them.  The storage engine is
what `Bitcask` shows of it: durable, and unreadable for the next process once it
holds a tombstone or a torn record.  `reached` and `restored` are history
variables.  A commit takes one entry at a time, as raft's FSM loop does.  `RemovePeer` and `BootstrapClusterWithPeers` are left out; nothing
calls them.

### RaftGroup

One list of committed entries, a set of proposed ones that may be committed yet,
and for each node how far it has applied the list and what its store holds.
`Propose` is `ApplyLogEntry` up to its wait, `Apply` is `FSM.Apply` with the answer
to the call that waits, `Restart` and `Restore` are what a restart and a snapshot
do to `applied`; `Commit`, `Elect` and `Forget` stand for raft.
`Replication!Group` is the refinement mapping: entries get their place in the
history as id, the committed list is the committed prefix of the logs, and
`proposed` is whatever else is in some log.

### Membership

The variables are `m.ring` (the address of each member), `m.clients`, and the
set of open connections.  `AddNode`, `RemoveNode`, `Close` and the lookups hold
`m.mu` and are single steps.  `RefreshClients` holds it over a loop of steps
(`RefreshNode`, in any order: a Go map), during which handlers that have their
client already go on (`Return`); the lookups of `Route` and `GetClient` take the
lock separately, so a member may go between them.  `grpc.NewClient` only parses
the address, so it fails for those outside `Dialable`.  The ring keeps a known
node's address when `AddNode` comes with another one, while the client gets the
new one: `Refreshed` then goes back to the old one.

### ShardedServer

| code | actions |
|---|---|
| a client's `Put`, `Delete`, `Get` | `Put`, `Delete`, `Get` |
| `forwardPut`, `forwardGet`, `forwardDelete` | `Forward`, `ForwardFails` |
| `Put`, `Delete` at the target | `Refuse`, or `ApplyLogEntry` and then `RaftApply`, `RaftElect` or `RestartNode` |
| `Get` at the target with `performReadRepair` | `ServeGet` |
| a timeout, a connection that breaks on the way back | `GiveUp` |
| a process that ends and starts again | `RestartNode` |
| raft | `RaftCommit`, `RaftApply`, `RaftElect`, `RaftRestore` |

A request in progress is the path of the nodes it has come through; the last
one has the handler at work, the others wait for it.  Handlers behind a broken
connection go on: none looks at its context.  What a client learns is `told`.
`rank` is the order of the nodes clockwise from the hash of a key, chosen by
`Init`: nodes whose first point after the key collides have the same rank, and then
`GetNode` may name either of them, in each call anew, as the order of Go's map iteration
decides.  `view` has the members of each node's ring, which is made from its `-peers`
flag and need not be that of the others.  A restart takes a node back to any
snapshot of its own, and `Restore` of `RaftGroup` may move it on: `SnapshotThreshold` is 2
(`node.go:43`).  raft sends a snapshot only when the leader's log no longer has the entries
the follower lacks, after 10240 trailing ones by default; the model lets it do so at any
length, a smaller number of trailing entries.  Of read repair only the check remains: its Put
waits for an error text that `client.go` never produces.  `client.Get` calls every
answer without a value "key not found", errors of the server included, so
which error it was is left out.

## Runs

| run | bounds | shows |
|---|---|---|
| `Bitcask` | 2 keys, 2 values, 4 files, 2 cells a record and 1 a tombstone, opens may fail | `IInv` and with it `IndexIsExact`; `CompactionReclaims`: a finished compaction leaves one file with one record per live key; `CompactionKeepsReads`: no step of it changes what a Get returns; `KeepsPromise`: the engine implements `KVStore` |
| `BitcaskFaults` | 2 keys, 1 value, records of 1 to 3 cells, 3 files, every call may fail | `AppendOnly`, `NoDanglingLocation`, `LockReleased`, `CompactionNeverSwaps` |
| `BitcaskTombstone` | | violated: a Delete makes the store unopenable |
| `BitcaskTornWrite` | | violated: so does a kill in the middle of a Put |
| `BitcaskListing` | files 9 and 10 | violated: recovery prefers `data-9.log` |
| `BitcaskFailedSync` | fsync may fail | violated: the index leads to another key's record |
| `HashRing` | 3 nodes, 2 points each, 3 hashes, so collisions abound | `RingIsComplete`, `ReplicasAreNearest`, `MinimalRebalancing`, `WalkEnds` |
| `Replication` | 3 nodes, 2 terms, 2 entries, 1 value and its Delete, snapshots every 2 | `IInv` and with it `ReplayConverges`, `CallersOwnEntry`, `CommittedStays`, `KeepsGroupPromise`: the group implements `RaftGroup` |
| `ReplicationRestore` | 2 nodes, no trailing logs | violated: a restored follower lacks the data |
| `Membership` | 3 nodes, 2 addresses, one of which cannot be parsed, 1 request, 5 connections | `ForwardFindsClient`, `ClosedClientIsGone`, `NothingLeaks`, `RequestsReturn` |
| `ShardedServer` | 3 nodes, 1 key, 2 writes, 1 read, 2 hops, and one of: a missing peer, a colliding pair, a snapshot sent | `Converges`, `OnlyCollisionsLoop`, `HonestAnswers`, `FreshReads` |
| `ShardedServerRepair` | 2 nodes that agree, 1 write, 1 read | violated: read repair never ends |

The violated properties are quotations from docs or comments, listed under
"findings" with the line that disagrees.  That a new leader answers
`RaftKVServer.Get` with values older than acknowledged ones is not among them:
`doc/DESIGN_GUIDE.md:499-504` says so itself.

Why the bounds are enough.  In the storage runs two keys let one key's record
stand where another's is expected, two values tell old from new (in `BitcaskFaults` one value and
the record of a Delete do), and three files
give an old file, the active one and a merged one; the fourth file of `Bitcask` allows a
second compaction or a rotation after one.  A write may begin while its
file has fewer than three cells (`MaxFileLen`), so files of zero to two records, with or without
a part of one, meet every step.  In `BitcaskFaults` records of two keys differ in length, so that a
location left by a failed fsync cuts a record short or runs into the next one.
`MaxFileSize` 0 makes every Put after the first rotate; `BitcaskFailedSync` has 2, so that two
records share a file.  In the ring three nodes let a node join between two others,
and two points on three hashes make every pattern of collision.  In the
Raft group three nodes are the fewest that lose one and go on, two terms give
one change of leader, and two entries suffice for an older and a newer write of
one key, a replay from the start and from a snapshot, and an index used twice.
`Replication` has no deadlock check: nodes whose store cannot be opened stay
down, and in the end all may.  In `Membership` a node beside the one under refresh
shows what a failure does to those that come after it; `MaxLeaks` bounds the
connections that `AddNode` of a known node leaves open, and five connections are two
clients, a leaked one, one in a request's hand and one to be made.  In
`ShardedServer` two writes are an older and a newer one, or the entry of a
deposed leader and that of the next; three nodes and one missing peer, the nearest to the key
(`MaxRank` 1: no other changes where a client's request goes), make a path of three, and
so does a request that two colliding nodes send to and fro (`MaxHops` 2).  `MaxTroubles` 1
has one missing peer, one colliding pair or one node sent a snapshot in a behaviour:
they disturb the answers in different ways, and all three together are out of reach
(single ones already make two million states).  `MaxBehind` 1 has one node at a time apply again what it had
applied, `MaxRequests` 2 and `MaxReads` 1 bound what clients have in progress, beside the
checks that a read starts.  Keys do not interact there.  The proofs lift all bounds.

Fairness.  `LockReleased` assumes weak fairness of the steps of the lock's
holder, `WalkEnds` that of the loop of `GetReplicas`: the Go scheduler runs a goroutine
that is ready.  `RequestsReturn` assumes weak fairness of the refresh loop and of a
handler's return, and strong fairness of its `GetClient`, since the lock may be
taken again and again: `sync.RWMutex` lets waiting readers in when a writer
unlocks.  `ReadRepairEnds` is refuted under weak fairness of the handlers of each
kind of request.  Nothing is assumed of callers, crashes or restarts.

Every property of a passing run has a mutant in `PROJECT.json`, a plausible slip
in one definition that makes TLC find the property violated.  The mutated
definitions stand in front of the originals.

## Proofs

Every property of a passing run that is not a liveness property is a theorem: it holds
for every value of the constants that satisfies the named assumptions and the
hypotheses given here.

* `TypeCorrect`: `Spec => []TypeOK` of `Bitcask`, from the named assumptions
  alone.
* `InvariantHolds` and `IndexCorrect`: `Spec => []IInv` and `Spec => []IndexIsExact`, for any keys, values, file size and
  file length, if only opens fail (`Faults \subseteq {"open"}`) and
  `MaxFileID <= 9`.  Both hypotheses are necessary: `BitcaskFailedSync` and
  `BitcaskListing` violate what it says without them.  `IndexIsExact` is not
  inductive, since it does not say where the active file's end is, what is in the
  file between append and index update, or what a half-done compaction has copied.
  `IInv` does: the active file is the newest and its offset at its end; the record
  in flight is the last one in it; during the copy loop `keyDir` is exact for the files
  below the merged one and `newKeyDir` for the keys copied; during the removal
  loop `newKeyDir` is exact and names the merged file only.  The lemmas say how the
  newest record of a key moves when a file is created, extended, cut or removed;
  then there is one lemma per action.
* `LogIsAppendOnly`, `LocationsAreAnchored` and `CompactionSwapsNothing` hold under
  every set of faults.  The first needs only `TypeOK`; the second its own invariant,
  `Anchored`: locations of `keyDir`, and while a compaction runs those of `newKeyDir`, end
  inside a file that is there, `currentOffset` never passes the end of the active file, and
  while old files go, the new index and an open handle name the merged file.  The offset may fall
  behind the end, after a write that failed, so a location may lie anywhere in the file.
  The third adds `Copied`: the copy loop writes to the end of a file that `keyDir` never
  names, so the cells at a key's new location are and stay those at its old one, whether they
  are a record, a part of one or parts of two.  A Get goes by the sizes in the file, so at a
  location whose size is wrong it may answer otherwise after a compaction than before: that is
  what the code does after a failed write or fsync, and no property excludes it.
* `CompactionIsInvisible` and `CompactionLeavesOneRecordPerKey`, under the hypotheses
  of `IndexCorrect`.  `IInv` puts what each Get reads in the log, and shows that no key is
  skipped; each step then leaves the location or, when the indexes change places, the
  record found there.  For the second the invariant `Packed` says that the merged file
  holds no record but those of `newKeyDir`; two keys never share one, since a record
  holds its key, and a log of one file is finite, so the two cardinalities agree.
* `PromiseKept`: `Spec => KeepsPromise`, under the same hypotheses.  `Put` and
  `Delete` map to `Begin`, `Sync` to `Acknowledge`, a failed rotation or write to `Fail`,
  `CopyRecord`, `SyncMerged` and `RemoveFile` to `Settle`, `Kill` and `PowerLoss` to
  `Crash`, `Restart` to `Open`, `RestartRefused` to `Refuse`; the others change nothing a caller
  sees.  The argument goes over the log: outside `Sync`, what a caller sees is what
  the newest record of the key says (`Says`), and that is one of the values a power failure
  may leave.  Those come from `Candidates`, the records no older than any synced one.  A
  step that syncs shrinks them; an append, a copy and a removal change them only by records
  with the value of the newest.  The invariant beside `IInv`, `SyncedBound`, says that
  an fsync covers only cells that are there, and all of the merged file before the first removal:
  without that a removal could bring "key not found" back for a key that was acknowledged.
* `RingCorrect` and `RebalancingIsMinimal`: for every number of nodes, points
  and hashes and every hash function, collisions included, from `RingInv`:
  the points are always those of the members.
* `RingTypeCorrect` and `ReplicasNearest`, for any finite set of nodes: the walk of
  `GetReplicas` passes the points in the order of their distance from the key, clockwise.
  The invariant of walks says that the owners of every point nearer than where the walk
  is have been taken, and that each node taken owns a point no farther.  The walk
  never comes round: at the farthest point all nodes would have been taken, and
  `GetReplicas` asks for no more than there are.
* `Membership`: `TypeCorrect`, `ClientsAreOpen`, `ConnectionsAreClosed` and
  `ClosedClientsGo`, for any nodes, addresses, connections and requests, from one
  invariant that says of each node, in the middle of a refresh too: if its ring address can be
  parsed, a client of it in the map is open, and until `Close` there is one.
* `GroupConverges`: `GroupSpec => []Converges`.  While a node applies entries a second
  time its store is ahead of them, so `Converges` says nothing then and is not
  inductive.  `GroupInv` says for each node and key: if `w` is the last write of the key
  up to where the node has ever been, then once the node is past `w` its store has
  the value of `w`.  A replay of older entries can only disturb a store that is not past
  `w` yet, and it will pass it again.
* `ServersUseTheGroup`: `Spec => GroupSpec` for `ShardedServer`, step by step, so
  `StoresConverge` follows.
* `LoopsAreCollisions`: each hop is to another node, one that is no farther from the key in
  the sender's ring, and all rings agree on distances, whatever members they have; so ranks
  never rise along a path, and between two visits of a node they stay the same: every hop there
  is between two nodes that collide.  Without collisions, no request comes back.  The
  assumption is that a node is on its own ring (`main.go:60`).
* `AnswersAreTrue` and `ReadsAreFresh`, from `AnswerInv`: ids of entries are distinct
  among proposed and committed ones; a handler that does not wait has never
  proposed; what was refused or not sent is nowhere; handlers wait only on a node that
  takes itself for the target; and a node that is the only target of a key has once been
  past every acknowledged write of it.  With `GroupInv` the last write such a node has
  been past is no older than an acknowledged one, and its store has its value, unless the
  node was moved on by a snapshot: that one has been past entries it never applied, so
  `FreshReads` excepts it.  Nodes that collide on a key are no single target of it.

* `Replication`: `TypeCorrect`, `InvariantHolds`, `CommittedNeverReplaced`,
  `CallersToldTheirOwn`, `StoresConverge`, for any finite set of nodes and any bounds.  `CommittedStays`
  is not inductive: that no leader lacks a committed entry depends on who may vote.  `Guards`
  is a set of voters whose logs hold everything committed and which is at least half of the voters;
  more cannot be asked, since `JoinCluster` adds a voter with an empty log.  A majority meets
  any such half, a node is elected only with a log that is up to date for its voters,
  so whoever leads holds what is committed (`Complete`, `LeaderInv`), provided that logs of
  one term agree up to the shorter (`LogsMatch`) and a term has one leader.  `NodeInv` says that
  nodes apply and snapshot committed entries only, `StoreInv` that a store follows the
  last write of each key up to where its node has ever been, as `GroupInv` does, and
  `CallInv` that a caller's entry is still in its node's log where the caller waits: it is the
  committed one once that index is committed, and until then the node leads.
* `GroupRefinement`: `Spec => KeepsGroupPromise`.  `NewNode`, `JoinCluster` and `Snapshot`
  change nothing of the group; `Kill` is `Restart`, `Elect` is `Elect`, `ApplyLogEntry` is `Propose`,
  `Replicate` is `Forget`, since the log that is overwritten may have held the last copy of an
  entry, `Commit` is `Commit`, `Apply` is `Apply`, and `InstallSnapshot` is `Restore`: a
  follower is sent a snapshot only when it has been behind it.

Only model-checked, being liveness, which this prover does not reach:
`LockReleased`, `WalkEnds` and `RequestsReturn`.  Where a theorem has the hypothesis
`MaxFileID <= 9`, it limits the file IDs and neither the records nor the number of
compactions that fit in them; `BitcaskListing` shows what happens beyond it.

## Not modelled, and what comes next

The plain gRPC server is one API call per handler; the programs and
the generated stubs keep no state that the properties need.  A failing
storage engine under a Raft group is not composed: the replicas diverge then, and
nothing in the repository says what should happen.  What a failed compaction
leaves behind for the next recovery is in the reach of `BitcaskFaults`, without a
property of its own for the same reason.  To come:

1. Theorems about what two components promise together: that a store which is a
   `KVStore` is what `Replication` takes it to be.
2. A version of `IInv` for stores whose files all have IDs of two digits or more.
