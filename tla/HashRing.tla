------------------------------ MODULE HashRing ------------------------------
(***************************************************************************)
(* The consistent-hashing ring: sharding/ring.go.                          *)
(*                                                                         *)
(* Each node owns a few points (virtual nodes) on a circle of hashes, and  *)
(* a key belongs to the owner of the first point at or after its own hash. *)
(* SHA-256 is any pair of functions hashKey and hashNode, chosen at the    *)
(* start, so that two points may collide.                                  *)
(*                                                                         *)
(* r.mu serialises the operations.  AddNode, RemoveNode, UpdateNodeLeader  *)
(* and GetNode are single steps; GetReplicas, whose loop has to end, is a  *)
(* walk of several steps that keeps the writers out (RLock).               *)
(***************************************************************************)
EXTENDS Naturals, FiniteSets, Sequences

CONSTANTS
  NodeIDs, Keys,
  VirtualNodes,     \* r.replicas: how many points a node owns
  MaxHash,          \* hashes are 0 .. MaxHash
  MaxReplicas       \* GetReplicas is asked for 1 .. MaxReplicas nodes

ASSUME NodesAssumption == IsFiniteSet(NodeIDs)
ASSUME VirtualNodesAssumption == VirtualNodes \in Nat \ {0}
ASSUME MaxHashAssumption == MaxHash \in Nat
ASSUME MaxReplicasAssumption == MaxReplicas \in Nat

Hashes == 0 .. MaxHash
Indices == 0 .. VirtualNodes - 1

VARIABLES
  hashKey,      \* hashKey[k]: the first four bytes of SHA-256 of k
  hashNode,     \* hashNode[m][i]: those of "m:i"
  nodes,        \* r.nodes
  leaders,      \* the nodes whose IsLeader is true
  sortedKeys,   \* r.sortedKeys, as a set: their order is that of numbers
  walk          \* the GetReplicas calls in progress: at most one

ring == <<nodes, leaders, sortedKeys>>
vars == <<hashKey, hashNode, ring, walk>>

Walk == [key : Keys, n : Nat, idx : Hashes, replicas : Seq(NodeIDs)]

(* The types of the ring's fields; only members can be leaders. *)
TypeOK ==
  /\ hashKey \in [Keys -> Hashes]
  /\ hashNode \in [NodeIDs -> [Indices -> Hashes]]
  /\ nodes \subseteq NodeIDs
  /\ leaders \subseteq nodes
  /\ sortedKeys \subseteq Hashes
  /\ walk \in SUBSET Walk

Init ==
  /\ hashKey \in [Keys -> Hashes]
  /\ hashNode \in [NodeIDs -> [Indices -> Hashes]]
  /\ nodes = {}
  /\ leaders = {}
  /\ sortedKeys = {}
  /\ walk = {}

-----------------------------------------------------------------------------
Points(m) == {hashNode[m][i] : i \in Indices}

Owners(h) == {m \in nodes : h \in Points(m)}

Rebuilt(members) == UNION {Points(m) : m \in members}

SearchModulo(hash) ==   \* mutant of Search: the point number hash mod n
  {h \in sortedKeys :
     Cardinality({g \in sortedKeys : g < h}) = hash % Cardinality(sortedKeys)}

(* sort.Search and the wrap-around: the first point at or after hash, the  *)
(* first of all when there is none.  Empty only when there are no points.  *)
Search(hash) ==
  LET after == {h \in sortedKeys : h >= hash}
      range == IF after = {} THEN sortedKeys ELSE after
  IN {h \in range : \A g \in range : h <= g}

(* The nodes GetNode may return: the map of nodes is searched in no        *)
(* particular order for one that owns the point.  Empty stands for the     *)
(* error "no nodes in ring".                                               *)
GetNode(k) == {m \in nodes : \E h \in Search(hashKey[k]) : h \in Points(m)}

AddNode(m) ==
  /\ walk = {}
  /\ m \notin nodes
  /\ nodes' = nodes \cup {m}
  /\ sortedKeys' = Rebuilt(nodes')
  /\ UNCHANGED <<hashKey, hashNode, leaders, walk>>

(* Mutants of RemoveNode: the points stay, the leader flag stays. *)
RemoveNodeKeepingPoints(m) ==
  /\ walk = {}
  /\ m \in nodes
  /\ nodes' = nodes \ {m}
  /\ leaders' = leaders \ {m}
  /\ UNCHANGED <<hashKey, hashNode, sortedKeys, walk>>

RemoveNodeKeepingLeader(m) ==
  /\ walk = {}
  /\ m \in nodes
  /\ nodes' = nodes \ {m}
  /\ sortedKeys' = Rebuilt(nodes')
  /\ UNCHANGED <<hashKey, hashNode, leaders, walk>>

RemoveNode(m) ==
  /\ walk = {}
  /\ m \in nodes
  /\ nodes' = nodes \ {m}
  /\ leaders' = leaders \ {m}
  /\ sortedKeys' = Rebuilt(nodes')
  /\ UNCHANGED <<hashKey, hashNode, walk>>

UpdateNodeLeader(m, isLeader) ==
  /\ walk = {}
  /\ m \in nodes
  /\ leaders' = IF isLeader THEN leaders \cup {m} ELSE leaders \ {m}
  /\ UNCHANGED <<hashKey, hashNode, nodes, sortedKeys, walk>>

-----------------------------------------------------------------------------
Seen(w) == {w.replicas[j] : j \in 1 .. Len(w.replicas)}

(* The next point clockwise, (idx + 1) % len(r.sortedKeys). *)
Successor(h) ==
  IF \E g \in sortedKeys : g > h THEN Search(h + 1) ELSE Search(0)

GetReplicasUncapped(k, n) ==   \* mutant of GetReplicas: n may exceed the nodes
  /\ walk = {}
  /\ nodes # {}
  /\ \E start \in Search(hashKey[k]) :
       walk' = {[key |-> k, n |-> n, idx |-> start, replicas |-> <<>>]}
  /\ UNCHANGED <<hashKey, hashNode, ring>>

GetReplicas(k, n) ==
  /\ walk = {}
  /\ nodes # {}
  /\ \E start \in Search(hashKey[k]) :
       walk' = {[key |-> k,
                 n |-> IF n > Cardinality(nodes) THEN Cardinality(nodes) ELSE n,
                 idx |-> start,
                 replicas |-> <<>>]}
  /\ UNCHANGED <<hashKey, hashNode, ring>>

TakeReplicaTwice ==   \* mutant of TakeReplica: no look at the nodes seen
  \E w \in walk :
    /\ Len(w.replicas) < w.n
    /\ \E m \in Owners(w.idx) : walk' = {[w EXCEPT !.replicas = Append(@, m)]}
    /\ UNCHANGED <<hashKey, hashNode, ring>>

(* One round of the loop: take an owner of the point that is not taken     *)
(* yet.  A point that several nodes own is in the slice several times; the *)
(* set has it once, and the walk moves on when all its owners are taken.   *)
TakeReplica ==
  \E w \in walk :
    /\ Len(w.replicas) < w.n
    /\ \E m \in Owners(w.idx) \ Seen(w) :
         walk' = {[w EXCEPT !.replicas = Append(@, m)]}
    /\ UNCHANGED <<hashKey, hashNode, ring>>

NextPoint ==
  \E w \in walk :
    /\ Len(w.replicas) < w.n
    /\ Owners(w.idx) \subseteq Seen(w)
    /\ \E h \in Successor(w.idx) : walk' = {[w EXCEPT !.idx = h]}
    /\ UNCHANGED <<hashKey, hashNode, ring>>

ReturnReplicas ==
  \E w \in walk :
    /\ Len(w.replicas) >= w.n
    /\ walk' = {}
    /\ UNCHANGED <<hashKey, hashNode, ring>>

Loop == TakeReplica \/ NextPoint \/ ReturnReplicas

Next ==
  \/ \E m \in NodeIDs : AddNode(m) \/ RemoveNode(m)
  \/ \E m \in NodeIDs, isLeader \in BOOLEAN : UpdateNodeLeader(m, isLeader)
  \/ \E k \in Keys, n \in 1 .. MaxReplicas : GetReplicas(k, n)
  \/ Loop

Spec == Init /\ [][Next]_vars

(* The goroutine inside GetReplicas is scheduled until it returns. *)
FairSpec == Spec /\ WF_vars(Loop)

-----------------------------------------------------------------------------
(* The points of the ring are those of its members, so a lookup in a ring  *)
(* with members finds an owner and never needs the fallback at ring.go:129.*)
RingIsComplete ==
  /\ sortedKeys = Rebuilt(nodes)
  /\ \A k \in Keys : nodes # {} => GetNode(k) # {}

(* Adding a node takes keys from the others only for itself, and removing  *)
(* one moves only the keys it had (DESIGN_GUIDE.md:276 "Minimal            *)
(* Rebalancing"), collisions included.                                     *)
MinimalRebalancing ==
  [][\A k \in Keys :
       /\ \A m \in nodes' \ nodes :
            GetNode(k)' \in {GetNode(k), {m}, GetNode(k) \cup {m}}
       /\ \A m \in nodes \ nodes' :
            IF GetNode(k) = {m} THEN m \notin GetNode(k)'
                                ELSE GetNode(k)' = GetNode(k) \ {m}]_vars

(* How far clockwise the nearest point of m is from hash. *)
Distance(hash, m) ==
  LET d == {IF h >= hash THEN h - hash ELSE h + (MaxHash + 1) - hash : h \in Points(m)}
  IN CHOOSE x \in d : \A y \in d : x <= y

(* GetReplicas returns distinct nodes, as many as asked for or all there   *)
(* are, the owner of the key first, and none that is farther from the key  *)
(* than a node it left out.                                                *)
ReplicasAreNearest ==
  \A w \in walk :
    LET hash == hashKey[w.key]
        near(j) == Distance(hash, w.replicas[j])
    IN /\ Cardinality(Seen(w)) = Len(w.replicas)
       /\ w.replicas # <<>> => w.replicas[1] \in GetNode(w.key)
       /\ \A j \in 1 .. Len(w.replicas) : \A m \in nodes \ Seen(w) :
            near(j) <= Distance(hash, m)

(* The loop "for len(replicas) < n" ends, whatever points collide. *)
WalkEnds == walk # {} ~> walk = {}
=============================================================================
