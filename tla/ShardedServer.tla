--------------------------- MODULE ShardedServer ---------------------------
(***************************************************************************)
(* The sharded gRPC servers of a cluster, server/sharded_server.go, with   *)
(* the client of client/client.go that forwards between them, on top of    *)
(* one Raft group (module RaftGroup).                                      *)
(*                                                                         *)
(* Whoever receives a request looks up the target of its key in a ring of  *)
(* its own, made from its -peers flag, and forwards the request when the   *)
(* target is another node, which looks the key up again.  A request in     *)
(* progress is a stack of handlers, each waiting for the next; it is kept  *)
(* as the path of the nodes it has come through, the last one at work.     *)
(* An answer goes back along the path in one step; a connection on it may  *)
(* break at any time, and the handlers behind the break go on, for none    *)
(* looks at its context.                                                   *)
(***************************************************************************)
EXTENDS RaftGroup, FiniteSets

CONSTANTS
  MaxTroubles,  \* bound of the model: how many peers are missing, pairs of nodes
                \* collide and nodes are moved on with a snapshot, in all
  MaxRank,      \* bound of the model: how far behind some key those nodes lie
  MaxBehind,    \* bound of the model: how many nodes apply entries once more at a time
  MaxHops,      \* bound of the model: how often a request is forwarded
  MaxRequests,  \* bound of the model: requests in progress when a client has sent one
  MaxReads      \* bound of the model: Gets among them

ASSUME NoneAssumption == None \notin Ids
ASSUME BoundAssumption ==
  /\ MaxTroubles \in Nat /\ MaxRank \in Nat /\ MaxBehind \in Nat /\ MaxHops \in Nat
  /\ MaxRequests \in Nat /\ MaxReads \in Nat

VARIABLES
  rank,      \* rank[k][m]: the place of m among all nodes, clockwise from the hash of
             \* k; nodes whose first points collide share it
  view,      \* view[n]: the nodes on the ring of n
  requests,  \* the requests in progress
  told       \* told[id]: what the client that sent write id knows

routing == <<rank, view>>
vars == <<group, routing, requests, told>>

(* A "check" is the Get of a read repair.  A Get has an entry without id. *)
Request ==
  [op : {"write", "get", "check"}, entry : [id : Ids \cup {None}, key : Keys, val : Stored],
   path : Seq(Nodes), waiting : BOOLEAN]

At(r) == r.path[Len(r.path)]

(* The types; a call of ApplyLogEntry has its request, and only a client   *)
(* that sent something is answered.                                        *)
TypeOK ==
  /\ GroupTypeOK
  /\ rank \in [Keys -> [Nodes -> 1 .. Cardinality(Nodes)]]
  /\ view \in [Nodes -> SUBSET Nodes]
  /\ requests \subseteq Request
  /\ \A r \in requests : r.path # <<>>
  /\ told \in [Ids -> {"nothing", "ok", "refused", "failed", "waits"}]
  /\ calls = {[node |-> At(r), entry |-> r.entry] : r \in {q \in requests : q.waiting}}

Missed == {p \in Nodes \X Nodes : p[2] \notin view[p[1]]}

Collide(k, m, n) == m # n /\ rank[k][m] = rank[k][n]

Colliding == {p \in SUBSET Nodes : \E k \in Keys, m, n \in p : Collide(k, m, n) /\ p = {m, n}}

(* For the bounds of the model. *)
Troubles == Cardinality(Missed) + Cardinality(Colliding) + Cardinality(restored)

(* Every node computes the same hashes and is on its own ring; it need not *)
(* have the same peers as the others.                                      *)
Init ==
  /\ GroupInit
  /\ rank \in [Keys -> {f \in [Nodes -> 1 .. Cardinality(Nodes)] :
                          \A m \in Nodes : f[m] = 1 + Cardinality({n \in Nodes : f[n] < f[m]})}]
  /\ view \in {v \in [Nodes -> SUBSET Nodes] : \A n \in Nodes : n \in v[n]}
  /\ Troubles <= MaxTroubles
  /\ \A m \in UNION Colliding \cup {p[2] : p \in Missed} : \E k \in Keys : rank[k][m] <= MaxRank
  /\ requests = {}
  /\ told = [id \in Ids |-> "nothing"]

-----------------------------------------------------------------------------
Nearest(m, members, k) ==
  m \in members /\ \A o \in members : rank[k][m] <= rank[k][o]

SecondOnRing(m, n, k) ==   \* mutant of Target: another node than the nearest
  IF view[n] = {n} THEN m = n ELSE m # n /\ Nearest(m, view[n] \ {n}, k)

(* GetTargetNode on n: an owner of the first point after the key's hash.   *)
(* Where several nodes have that point, the order in which Go goes through *)
(* a map decides, in each call anew.                                       *)
Target(m, n, k) == Nearest(m, view[n], k)

(* GetReplicas on n: two nodes, or all there are, with none nearer. *)
Replicas(n, k) ==
  {s \in SUBSET view[n] :
     /\ Cardinality(s) = IF view[n] = {n} THEN 1 ELSE 2
     /\ \A m \in s, o \in view[n] \ s : rank[k][m] <= rank[k][o]}

ServesEverything(r) == TRUE   \* mutant of IsLocal: no look at the target

(* The target is the node itself, IsLocalNode. *)
IsLocal(r) == Target(At(r), At(r), r.entry.key)

(* A client that has given up hears nothing more. *)
Tell(id, answer) ==
  told' = [told EXCEPT ![id] = IF @ = "waits" THEN answer ELSE @]

Answer(r, answer) ==
  /\ requests' = requests \ {r}
  /\ IF r.op = "write" THEN Tell(r.entry.id, answer) ELSE UNCHANGED told

-----------------------------------------------------------------------------
Put(id, n, k, v) ==
  /\ told[id] = "nothing"
  /\ Cardinality(requests) < MaxRequests
  /\ told' = [told EXCEPT ![id] = "waits"]
  /\ requests' = requests \cup
       {[op |-> "write", entry |-> [id |-> id, key |-> k, val |-> v],
         path |-> <<n>>, waiting |-> FALSE]}
  /\ UNCHANGED <<group, routing>>

Delete(id, n, k) == Put(id, n, k, NoValue)

Read(op, n, k) ==
  [op |-> op, entry |-> [id |-> None, key |-> k, val |-> NoValue],
   path |-> <<n>>, waiting |-> FALSE]

Get(n, k) ==
  /\ Cardinality(requests) < MaxRequests
  /\ Cardinality({r \in requests : r.op # "write"}) < MaxReads
  /\ requests' = requests \cup {Read("get", n, k)}
  /\ UNCHANGED <<group, routing, told>>

(* forwardPut, forwardGet, forwardDelete. *)
Forward(r) ==
  /\ ~r.waiting
  /\ Len(r.path) <= MaxHops
  /\ \E m \in Nodes \ {At(r)} :
       /\ Target(m, At(r), r.entry.key)
       /\ requests' = (requests \ {r}) \cup {[r EXCEPT !.path = Append(@, m)]}
  /\ UNCHANGED <<group, routing, told>>

(* No client for the target, or the call does not get there. *)
ForwardFails(r) ==
  /\ ~r.waiting
  /\ \E m \in Nodes \ {At(r)} : Target(m, At(r), r.entry.key)
  /\ Answer(r, "failed")
  /\ UNCHANGED <<group, routing>>

(* "not the leader" or "no leader available". *)
Refuse(r) ==
  /\ r.op = "write" /\ ~r.waiting
  /\ IsLocal(r)
  /\ At(r) # leader
  /\ Answer(r, "refused")
  /\ UNCHANGED <<group, routing>>

ApplyLogEntryNotWaiting(r) ==   \* mutant of ApplyLogEntry: the future is not looked at
  /\ r.op = "write" /\ ~r.waiting
  /\ IsLocal(r)
  /\ Propose(At(r), r.entry)
  /\ requests' = (requests \ {r}) \cup {[r EXCEPT !.waiting = TRUE]}
  /\ Tell(r.entry.id, "ok")
  /\ UNCHANGED routing

ApplyLogEntry(r) ==
  /\ r.op = "write" /\ ~r.waiting
  /\ IsLocal(r)
  /\ Propose(At(r), r.entry)
  /\ requests' = (requests \ {r}) \cup {[r EXCEPT !.waiting = TRUE]}
  /\ UNCHANGED <<routing, told>>

(* Serve a Get from the local storage.  When it finds the key, a goroutine *)
(* sends a Get to each other replica, performReadRepair; any may not get   *)
(* there.                                                                  *)
(* Its Put is dead code: the client says "key not found" where the         *)
(* comparison (sharded_server.go:302) waits for "get RPC failed: key not   *)
(* found".                                                                 *)
ServeGet(r) ==
  LET n == At(r)
      k == r.entry.key
  IN /\ r.op # "write"
     /\ IsLocal(r)
     /\ \E replicas \in Replicas(n, k) :
          \E checked \in SUBSET (replicas \ {n}) :
            /\ store[n][k] = NoValue => checked = {}
            /\ requests' = (requests \ {r}) \cup {Read("check", m, k) : m \in checked}
     /\ UNCHANGED <<group, routing, told>>

(* A timeout of the client, or a connection on the way back breaks. *)
GiveUp(id) ==
  /\ told[id] = "waits"
  /\ told' = [told EXCEPT ![id] = "failed"]
  /\ UNCHANGED <<group, routing, requests>>

-----------------------------------------------------------------------------
(* A step of raft, and what the calls that it ends are told. *)
End(ended, answer) ==
  /\ requests' = requests \ ended
  /\ told' = [id \in Ids |->
       IF told[id] = "waits" /\ \E r \in ended : r.entry.id = id THEN answer ELSE told[id]]
  /\ UNCHANGED routing

RaftCommit == Commit /\ UNCHANGED <<routing, requests, told>>

RaftApply(n) ==
  /\ Apply(n)
  /\ End({r \in requests : r.waiting /\ At(r) = n /\ r.entry = NextEntry(n)},
         IF Missing(n, NextEntry(n)) THEN "failed" ELSE "ok")

RaftElectSilently(n) ==   \* mutant of RaftElect: the calls of the old leader stay
  /\ Elect(n)
  /\ UNCHANGED <<routing, requests, told>>

RaftElect(n) ==
  /\ Elect(n)
  /\ End({r \in requests : r.waiting /\ r.entry \notin CommittedEntries}, "failed")

On(r, n) == \E i \in 1 .. Len(r.path) : r.path[i] = n

RaftRestore(n) ==
  /\ Restore(n)
  /\ UNCHANGED <<routing, requests, told>>
  /\ Troubles' <= MaxTroubles

(* The handlers on n end, and the answers of those behind it get lost. *)
RestartNode(n) ==
  /\ Restart(n)
  /\ Cardinality({m \in Nodes : applied'[m] < reached[m]}) <= MaxBehind
  /\ requests' = {r \in requests : At(r) # n}
  /\ told' = [id \in Ids |->
       IF told[id] = "waits" /\ \E r \in requests : r.entry.id = id /\ On(r, n)
       THEN "failed" ELSE told[id]]
  /\ UNCHANGED routing

Handle(r) ==
  Forward(r) \/ ForwardFails(r) \/ Refuse(r) \/ ApplyLogEntry(r) \/ ServeGet(r)

Next ==
  \/ \E id \in Ids, n \in Nodes, k \in Keys :
       Delete(id, n, k) \/ \E v \in Values : Put(id, n, k, v)
  \/ \E n \in Nodes, k \in Keys : Get(n, k)
  \/ \E r \in requests : Handle(r)
  \/ \E id \in Ids : GiveUp(id)
  \/ \E n \in Nodes : RaftApply(n) \/ RaftElect(n) \/ RaftRestore(n) \/ RestartNode(n)
  \/ RaftCommit

Spec == Init /\ [][Next]_vars

(* The goroutines of gRPC and of read repair are scheduled. *)
FairSpec ==
  Spec /\ \A op \in {"write", "get", "check"} :
            WF_vars(\E r \in requests : r.op = op /\ Handle(r))

-----------------------------------------------------------------------------
(* Peer lists that disagree (main.go:66) make a request take more hops,    *)
(* but they bring it back to no node it has been to, and so make no        *)
(* handler wait for itself.  Only nodes whose points collide do: GetNode   *)
(* names either of them in each call (ring.go:121), and they may send a    *)
(* request to and fro.                                                     *)
OnlyCollisionsLoop ==
  \A r \in requests : \A i, j \in 1 .. Len(r.path) :
    i < j /\ r.path[i] = r.path[j] =>
      \A h \in i .. j - 1 : Collide(r.entry.key, r.path[h], r.path[h + 1])

Written(id) == {i \in 1 .. Len(committed) : committed[i].id = id}

(* Whatever hops, elections, restarts and broken connections there were: a *)
(* success is told of a write that is committed, once, and a write that    *)
(* was refused leaves nothing behind and may be sent again.                *)
HonestAnswers ==
  \A id \in Ids :
    /\ told[id] = "ok" => Cardinality(Written(id)) = 1
    /\ told[id] = "refused" => Written(id) = {} /\ \A e \in proposed : e.id # id

OneTarget(k) == \E o \in Nodes : \A m, n \in Nodes : Target(m, n, k) <=> m = o

(* Reads are local and look at no leader.  Where the nodes agree on the    *)
(* target of a key they are fresh all the same, for the writes of the key  *)
(* went through that node: what a Get finds there is no older than any     *)
(* write whose success was told before, unless the node is still busy      *)
(* applying entries again after a restart, or raft has moved it on with a  *)
(* snapshot, which has no data (ReplicationRestore.cfg).                   *)
FreshReads ==
  \A r \in requests :
    LET n == At(r)
        k == r.entry.key
    IN r.op # "write" /\ IsLocal(r) /\ OneTarget(k)
         /\ n \notin restored /\ applied[n] = reached[n] =>
         \A id \in Ids : told[id] = "ok" =>
           \A i \in Written(id) : committed[i].key = k =>
             \E j \in i .. Len(committed) :
               committed[j].key = k /\ committed[j].val = store[n][k]

(* "Read repair checks replicas after a successful read"                   *)
(* (DESIGN_GUIDE.md:371): the check that a read has started comes to an    *)
(* end, and with it read repair, until a client reads again.               *)
ReadRepairEnds ==
  (\E r \in requests : r.op = "check") ~> (\A r \in requests : r.op # "check")
=============================================================================
