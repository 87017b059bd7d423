--------------------------- MODULE HashRingProofs ---------------------------
(***************************************************************************)
(* Proofs about the ring, for any number of nodes, virtual nodes and       *)
(* hashes and any collisions: a ring with members answers every lookup,    *)
(* and a change of membership moves only the keys it has to.               *)
(***************************************************************************)
EXTENDS HashRing, WellFoundedInduction, FiniteSetTheorems, TLAPS

(* A non-empty set of naturals has a least element. *)
LEMMA LeastExists ==
  ASSUME NEW S \in SUBSET Nat, S # {}
  PROVE  \E x \in S : \A y \in S : x <= y
<1> DEFINE R == OpToRel(<, Nat)
<1>1. IsWellFoundedOn(R, Nat)
  BY NatLessThanWellFounded
<1>2. \A x, y \in Nat : <<x, y>> \in R <=> x < y
  BY DEF OpToRel
<1> HIDE DEF R
<1>3. PICK x \in S : \A y \in S : ~(<<y, x>> \in R)
  BY <1>1, WFMin
<1>4. \A y \in S : x <= y
  <2> SUFFICES ASSUME NEW y \in S PROVE x <= y
    OBVIOUS
  <2>1. x \in Nat /\ y \in Nat /\ ~(y < x)
    BY <1>2, <1>3
  <2> QED BY <2>1
<1> QED BY <1>4

(* A node has at least one point, and its points are hashes. *)
LEMMA PointsType ==
  ASSUME hashNode \in [NodeIDs -> [Indices -> Hashes]], NEW m \in NodeIDs
  PROVE  Points(m) \subseteq Hashes /\ Points(m) # {}
<1>1. 0 \in Indices
  BY VirtualNodesAssumption DEF Indices
<1> QED BY <1>1 DEF Points

(* The points of a set of nodes are hashes. *)
LEMMA RebuiltType ==
  ASSUME hashNode \in [NodeIDs -> [Indices -> Hashes]], NEW S \in SUBSET NodeIDs
  PROVE  Rebuilt(S) \subseteq Hashes
BY PointsType DEF Rebuilt

(* Hashes are numbers. *)
LEMMA HashesAreNat == Hashes \subseteq Nat
BY MaxHashAssumption DEF Hashes

(* A lookup among some points finds one of them. *)
LEMMA SearchFinds ==
  ASSUME sortedKeys \subseteq Hashes, sortedKeys # {}, NEW hash
  PROVE  Search(hash) # {} /\ Search(hash) \subseteq sortedKeys
<1> DEFINE after == {h \in sortedKeys : h >= hash}
           range == IF after = {} THEN sortedKeys ELSE after
<1>1. range # {} /\ range \in SUBSET Nat /\ range \subseteq sortedKeys
  BY HashesAreNat
<1>2. PICK x \in range : \A y \in range : x <= y
  BY <1>1, LeastExists
<1> QED BY <1>1, <1>2 DEF Search

(* The binary search finds one point. *)
LEMMA SearchIsUnique ==
  ASSUME sortedKeys \subseteq Hashes, NEW hash,
         NEW g \in Search(hash), NEW h \in Search(hash)
  PROVE  g = h
<1>1. g <= h /\ h <= g /\ g \in Nat /\ h \in Nat
  BY HashesAreNat DEF Search
<1> QED BY <1>1

-----------------------------------------------------------------------------
(* What the ring keeps at every step: types, and the points of its members *)
(* in the slice.                                                           *)
RingInv ==
  /\ hashKey \in [Keys -> Hashes]
  /\ hashNode \in [NodeIDs -> [Indices -> Hashes]]
  /\ nodes \subseteq NodeIDs
  /\ sortedKeys = Rebuilt(nodes)

(* The slice of points holds hashes. *)
LEMMA RingInvType ==
  ASSUME RingInv PROVE sortedKeys \subseteq Hashes
BY RebuiltType DEF RingInv

(* Every action keeps the slice equal to the points of the members. *)
LEMMA RingInvStep == RingInv /\ [Next]_vars => RingInv'
<1> SUFFICES ASSUME RingInv, [Next]_vars PROVE RingInv'
  OBVIOUS
<1> USE DEF RingInv
<1>1. ASSUME NEW m \in NodeIDs, AddNode(m) PROVE RingInv'
  BY <1>1 DEF AddNode, Rebuilt, Points
<1>2. ASSUME NEW m \in NodeIDs, RemoveNode(m) PROVE RingInv'
  BY <1>2 DEF RemoveNode, Rebuilt, Points
<1>3. CASE UNCHANGED <<hashKey, hashNode, nodes, sortedKeys>>
  BY <1>3 DEF Rebuilt, Points
<1>4. ASSUME NEW m \in NodeIDs, NEW isLeader \in BOOLEAN, UpdateNodeLeader(m, isLeader)
      PROVE  RingInv'
  BY <1>3, <1>4 DEF UpdateNodeLeader
<1>5. ASSUME NEW k \in Keys, NEW n \in 1 .. MaxReplicas, GetReplicas(k, n) PROVE RingInv'
  BY <1>3, <1>5 DEF GetReplicas, ring
<1>6. CASE Loop
  BY <1>3, <1>6 DEF Loop, TakeReplica, NextPoint, ReturnReplicas, ring
<1>7. CASE UNCHANGED vars
  BY <1>3, <1>7 DEF vars, ring
<1> QED BY <1>1, <1>2, <1>4, <1>5, <1>6, <1>7 DEF Next

(* A ring without members has no points. *)
LEMMA InitiallyRingInv == Init => RingInv
BY DEF Init, RingInv, Rebuilt

(* In such a ring every lookup finds an owner. *)
LEMMA RingInvImpliesComplete == RingInv => RingIsComplete
<1> SUFFICES ASSUME RingInv, NEW k \in Keys, nodes # {} PROVE GetNode(k) # {}
  BY DEF RingIsComplete, RingInv
<1>1. PICK m \in nodes : TRUE
  OBVIOUS
<1>2. sortedKeys # {}
  BY <1>1, PointsType DEF RingInv, Rebuilt
<1>3. PICK h \in Search(hashKey[k]) : h \in sortedKeys
  BY <1>2, RingInvType, SearchFinds
<1>4. PICK owner \in nodes : h \in Points(owner)
  BY <1>3 DEF RingInv, Rebuilt
<1> QED BY <1>4 DEF GetNode

(* The slice of sorted hashes always holds the points of the members and   *)
(* no other, and a ring with members finds a node for every key.           *)
THEOREM RingCorrect == Spec => []RingIsComplete
<1>1. RingInv => RingIsComplete
  BY RingInvImpliesComplete
<1> QED BY <1>1, InitiallyRingInv, RingInvStep, PTL DEF Spec

-----------------------------------------------------------------------------
(* A point that wins the search among more points wins it among fewer.     *)
LEMMA SearchGrows ==
  ASSUME sortedKeys \subseteq sortedKeys', NEW hash,
         NEW t \in Search(hash)', t \in sortedKeys
  PROVE  t \in Search(hash)
<1>1. CASE \E h \in sortedKeys : h >= hash
  <2>1. {h \in sortedKeys' : h >= hash} # {}
    BY <1>1
  <2>2. t >= hash /\ \A g \in sortedKeys' : g >= hash => t <= g
    BY <2>1 DEF Search
  <2> QED BY <1>1, <2>2 DEF Search
<1>2. CASE ~\E h \in sortedKeys : h >= hash
  <2>1. {h \in sortedKeys' : h >= hash} = {}
    BY <1>2 DEF Search
  <2>2. \A g \in sortedKeys' : t <= g
    BY <2>1 DEF Search
  <2> QED BY <1>2, <2>2 DEF Search
<1> QED BY <1>1, <1>2

(* A point that is found is still found when others go. *)
LEMMA SearchShrinks ==
  ASSUME sortedKeys' \subseteq sortedKeys, NEW hash,
         NEW t \in Search(hash), t \in sortedKeys'
  PROVE  t \in Search(hash)'
<1>1. CASE \E h \in sortedKeys' : h >= hash
  <2>1. {h \in sortedKeys : h >= hash} # {}
    BY <1>1
  <2>2. t >= hash /\ \A g \in sortedKeys : g >= hash => t <= g
    BY <2>1 DEF Search
  <2> QED BY <1>1, <2>2 DEF Search
<1>2. CASE ~\E h \in sortedKeys' : h >= hash
  <2>1. {h \in sortedKeys : h >= hash} = {}
    BY <1>2 DEF Search
  <2>2. \A g \in sortedKeys : t <= g
    BY <2>1 DEF Search
  <2> QED BY <1>2, <2>2 DEF Search
<1> QED BY <1>1, <1>2

(* The nodes GetNode may return are the owners of the one point found.     *)
LEMMA GetNodeIsOwners ==
  ASSUME RingInv, NEW k \in Keys, NEW t \in Search(hashKey[k])
  PROVE  GetNode(k) = Owners(t)
BY SearchIsUnique, RingInvType DEF GetNode, Owners

(* The same in the next state. *)
LEMMA GetNodeIsOwnersNext ==
  RingInv' => (\A k \in Keys : \A t \in Search(hashKey[k]) : GetNode(k) = Owners(t))'
<1>1. RingInv => \A k \in Keys : \A t \in Search(hashKey[k]) : GetNode(k) = Owners(t)
  BY GetNodeIsOwners
<1> QED BY <1>1, PTL

(* A ring is complete in the next state, too. *)
LEMMA CompleteNext == RingInv' => RingIsComplete'
BY RingInvImpliesComplete, PTL

(* A lookup in the next state finds a point of its ring. *)
LEMMA SearchFindsNext ==
  RingInv' => (\A k \in Keys : \A t \in Search(hashKey[k]) : t \in sortedKeys)'
<1>1. RingInv => \A k \in Keys : \A t \in Search(hashKey[k]) : t \in sortedKeys
  BY DEF Search
<1> QED BY <1>1, PTL

(* A lookup in the next state finds a point if there is a member. *)
LEMMA NonEmptySearchNext ==
  RingInv' => (nodes # {} => \A k \in Keys : Search(hashKey[k]) # {})'
<1>1. RingInv => (nodes # {} => \A k \in Keys : Search(hashKey[k]) # {})
  BY RingInvImpliesComplete DEF RingIsComplete, GetNode
<1> QED BY <1>1, PTL

(* The owners of k before and after a change of members. *)
Moves(k) ==
  /\ \A m \in nodes' \ nodes : GetNode(k)' \in {GetNode(k), {m}, GetNode(k) \cup {m}}
  /\ \A m \in nodes \ nodes' :
       IF GetNode(k) = {m} THEN m \notin GetNode(k)' ELSE GetNode(k)' = GetNode(k) \ {m}

(* A new node takes a key when it owns the point found now, together with  *)
(* the old owners when their point is the same.                            *)
LEMMA AddNodeMoves ==
  ASSUME RingInv, RingInv', NEW m \in NodeIDs, AddNode(m), NEW k \in Keys
  PROVE  Moves(k)
<1>1. /\ nodes' = nodes \cup {m} /\ m \notin nodes /\ UNCHANGED <<hashKey, hashNode>>
      /\ sortedKeys \subseteq sortedKeys'
  BY DEF AddNode, RingInv, Rebuilt
<1>2. \A x : Points(x)' = Points(x)
  BY <1>1 DEF Points
<1>3. PICK t : t \in Search(hashKey[k])'
  BY <1>1, NonEmptySearchNext
<1>4. GetNode(k)' = {x \in nodes' : t \in Points(x)}
  BY <1>1, <1>2, <1>3, GetNodeIsOwnersNext DEF Owners
<1>5. GetNode(k)' # {}
  BY <1>1, CompleteNext DEF RingIsComplete
<1>6. CASE t \in sortedKeys
  <2>1. t \in Search(hashKey[k])
    BY <1>1, <1>3, <1>6, SearchGrows
  <2>2. GetNode(k) = {x \in nodes : t \in Points(x)}
    BY <2>1, GetNodeIsOwners DEF Owners
  <2>3. GetNode(k)' \in {GetNode(k), GetNode(k) \cup {m}}
    BY <1>1, <1>4, <2>2
  <2> QED BY <1>1, <2>3 DEF Moves
<1>7. CASE t \notin sortedKeys
  <2>1. \A x \in nodes : t \notin Points(x)
    BY <1>7 DEF RingInv, Rebuilt
  <2>2. GetNode(k)' = {m}
    BY <1>1, <1>4, <1>5, <2>1
  <2> QED BY <1>1, <2>2 DEF Moves
<1> QED BY <1>6, <1>7

(* Without a node the point found is the same, unless no other owned it.   *)
LEMMA RemoveNodeMoves ==
  ASSUME RingInv, RingInv', NEW m \in NodeIDs, RemoveNode(m), NEW k \in Keys
  PROVE  Moves(k)
<1>1. /\ nodes' = nodes \ {m} /\ m \in nodes /\ UNCHANGED <<hashKey, hashNode>>
      /\ sortedKeys' \subseteq sortedKeys
  BY DEF RemoveNode, RingInv, Rebuilt
<1>2. \A x : Points(x)' = Points(x)
  BY <1>1 DEF Points
<1>3. m \notin GetNode(k)'
  BY <1>1 DEF GetNode
<1>4. CASE GetNode(k) = {m}
  BY <1>1, <1>3, <1>4 DEF Moves
<1>5. CASE GetNode(k) # {m}
  <2>1. GetNode(k) # {}
    BY <1>1, RingInvImpliesComplete DEF RingIsComplete
  <2>2. PICK x \in GetNode(k) : x # m
    BY <1>5, <2>1
  <2>3. PICK t \in Search(hashKey[k]) : t \in Points(x) /\ x \in nodes
    BY <2>2 DEF GetNode
  <2>4. GetNode(k) = {y \in nodes : t \in Points(y)}
    BY <2>3, GetNodeIsOwners DEF Owners
  <2>5. t \in sortedKeys'
    <3>1. x \in nodes' /\ t \in Points(x)'
      BY <1>1, <1>2, <2>2, <2>3
    <3> QED BY <3>1 DEF RingInv, Rebuilt
  <2>6. t \in Search(hashKey[k])'
    BY <1>1, <2>3, <2>5, SearchShrinks DEF Search
  <2>7. GetNode(k)' = {y \in nodes' : t \in Points(y)}
    BY <1>1, <1>2, <2>6, GetNodeIsOwnersNext DEF Owners
  <2>8. GetNode(k)' = GetNode(k) \ {m}
    BY <1>1, <2>4, <2>7
  <2> QED BY <1>1, <2>8 DEF Moves
<1> QED BY <1>4, <1>5

(* What any step moves. *)
LEMMA StepMoves == RingInv /\ RingInv' /\ [Next]_vars => \A k \in Keys : Moves(k)
<1> SUFFICES ASSUME RingInv, RingInv', [Next]_vars, NEW k \in Keys PROVE Moves(k)
  OBVIOUS
<1>1. ASSUME NEW m \in NodeIDs, AddNode(m) PROVE Moves(k)
  BY <1>1, AddNodeMoves
<1>2. ASSUME NEW m \in NodeIDs, RemoveNode(m) PROVE Moves(k)
  BY <1>2, RemoveNodeMoves
<1>3. CASE nodes' = nodes
  BY <1>3 DEF Moves
<1>4. ASSUME NEW m \in NodeIDs, NEW isLeader \in BOOLEAN, UpdateNodeLeader(m, isLeader)
      PROVE  Moves(k)
  BY <1>3, <1>4 DEF UpdateNodeLeader
<1>5. ASSUME NEW j \in Keys, NEW n \in 1 .. MaxReplicas, GetReplicas(j, n) PROVE Moves(k)
  BY <1>3, <1>5 DEF GetReplicas, ring
<1>6. CASE Loop
  BY <1>3, <1>6 DEF Loop, TakeReplica, NextPoint, ReturnReplicas, ring
<1>7. CASE UNCHANGED vars
  BY <1>3, <1>7 DEF vars, ring
<1> QED BY <1>1, <1>2, <1>4, <1>5, <1>6, <1>7 DEF Next

(* Adding a node moves keys only to it, removing one moves only its keys.  *)
THEOREM RebalancingIsMinimal == Spec => MinimalRebalancing
<1>1. RingInv /\ RingInv' /\ [Next]_vars =>
        [\A k \in Keys :
           /\ \A m \in nodes' \ nodes :
                GetNode(k)' \in {GetNode(k), {m}, GetNode(k) \cup {m}}
           /\ \A m \in nodes \ nodes' :
                IF GetNode(k) = {m} THEN m \notin GetNode(k)'
                                    ELSE GetNode(k)' = GetNode(k) \ {m}]_vars
  BY StepMoves DEF Moves
<1> QED BY <1>1, InitiallyRingInv, RingInvStep, PTL DEF Spec, MinimalRebalancing

-----------------------------------------------------------------------------
(* The walk of GetReplicas. *)

(* How far clockwise h is from hash. *)
Dist(hash, h) == IF h >= hash THEN h - hash ELSE h + (MaxHash + 1) - hash

(* A distance is a number. *)
LEMMA DistType ==
  ASSUME NEW hash \in Hashes, NEW h \in Hashes
  PROVE  Dist(hash, h) \in Nat
BY MaxHashAssumption DEF Dist, Hashes

(* Two points at the same distance are the same point. *)
LEMMA DistInjective ==
  ASSUME NEW hash \in Hashes, NEW p \in Hashes, NEW q \in Hashes,
         Dist(hash, p) = Dist(hash, q)
  PROVE  p = q
<1>1. /\ hash \in Nat /\ p \in Nat /\ q \in Nat /\ MaxHash \in Nat
      /\ hash <= MaxHash /\ p <= MaxHash /\ q <= MaxHash
  BY MaxHashAssumption DEF Hashes
<1> QED BY <1>1 DEF Dist

(* The distance of a node is that of its nearest point. *)
LEMMA DistanceIsLeast ==
  ASSUME hashNode \in [NodeIDs -> [Indices -> Hashes]],
         NEW hash \in Hashes, NEW m \in NodeIDs
  PROVE  /\ \E h \in Points(m) : Distance(hash, m) = Dist(hash, h)
         /\ \A h \in Points(m) : Distance(hash, m) <= Dist(hash, h)
<1> DEFINE d == {Dist(hash, h) : h \in Points(m)}
<1>1. d \in SUBSET Nat /\ d # {}
  BY PointsType, DistType
<1>2. \E least \in d : \A y \in d : least <= y
  BY <1>1, LeastExists
<1>3. Distance(hash, m) = CHOOSE x \in d : \A y \in d : x <= y
  BY DEF Distance, Dist
<1> HIDE DEF d
<1>4. Distance(hash, m) \in d /\ \A y \in d : Distance(hash, m) <= y
  BY <1>2, <1>3
<1> QED BY <1>4 DEF d

(* The walk starts at the point nearest to the hash. *)
LEMMA SearchIsNearest ==
  ASSUME sortedKeys \subseteq Hashes, NEW hash \in Hashes,
         NEW h \in Search(hash), NEW p \in sortedKeys
  PROVE  Dist(hash, h) <= Dist(hash, p)
<1>1. h \in sortedKeys
  BY DEF Search
<1>2. h \in Nat /\ p \in Nat /\ hash \in Nat /\ h <= MaxHash /\ p <= MaxHash /\ MaxHash \in Nat
  BY <1>1, MaxHashAssumption DEF Hashes
<1>3. CASE {g \in sortedKeys : g >= hash} # {}
  <2>1. h >= hash /\ (p >= hash => h <= p)
    BY <1>3 DEF Search
  <2> QED BY <1>2, <2>1 DEF Dist
<1>4. CASE {g \in sortedKeys : g >= hash} = {}
  <2>1. h <= p /\ ~(h >= hash) /\ ~(p >= hash)
    BY <1>1, <1>4 DEF Search
  <2> QED BY <1>2, <2>1 DEF Dist
<1> QED BY <1>3, <1>4

(* No point lies between a point and its successor; only at the point      *)
(* farthest from the hash does the walk come round.                        *)
LEMMA SuccessorIsNext ==
  ASSUME sortedKeys \subseteq Hashes, NEW hash \in Hashes,
         NEW h \in sortedKeys, NEW q \in Successor(h)
  PROVE  \/ \A p \in sortedKeys : Dist(hash, p) <= Dist(hash, h)
         \/ /\ Dist(hash, h) < Dist(hash, q)
            /\ \A p \in sortedKeys :
                 Dist(hash, p) <= Dist(hash, h) \/ Dist(hash, q) <= Dist(hash, p)
<1>1. q \in sortedKeys
  BY DEF Successor, Search
<1>2. /\ \A p \in sortedKeys : p \in Nat /\ p <= MaxHash
      /\ hash \in Nat /\ MaxHash \in Nat
  BY MaxHashAssumption DEF Hashes
<1>3. CASE \E g \in sortedKeys : g > h
  <2>1. {g \in sortedKeys : g >= h + 1} # {}
    BY <1>2, <1>3
  <2>2. q > h /\ \A p \in sortedKeys : p > h => q <= p
    BY <1>1, <1>2, <1>3, <2>1 DEF Successor, Search
  <2>3. CASE h < hash /\ q >= hash
    <3>1. \A p \in sortedKeys : p <= h \/ p >= hash
      BY <1>1, <1>2, <2>2, <2>3
    <3>2. \A p \in sortedKeys : Dist(hash, p) <= Dist(hash, h)
      BY <1>2, <2>3, <3>1 DEF Dist
    <3> QED BY <3>2
  <2>4. CASE ~(h < hash /\ q >= hash)
    <3>1. Dist(hash, h) < Dist(hash, q)
      BY <1>1, <1>2, <2>2, <2>4 DEF Dist
    <3>2. \A p \in sortedKeys : Dist(hash, p) <= Dist(hash, h) \/ Dist(hash, q) <= Dist(hash, p)
      <4> SUFFICES ASSUME NEW p \in sortedKeys
                   PROVE  Dist(hash, p) <= Dist(hash, h) \/ Dist(hash, q) <= Dist(hash, p)
        OBVIOUS
      <4>1. p <= h \/ q <= p
        BY <1>2, <2>2
      <4> QED BY <1>1, <1>2, <2>2, <2>4, <4>1 DEF Dist
    <3> QED BY <3>1, <3>2
  <2> QED BY <2>3, <2>4
<1>4. CASE ~\E g \in sortedKeys : g > h
  <2>1. {g \in sortedKeys : g >= 0} = sortedKeys
    <3>1. \A g \in sortedKeys : g >= 0
      BY <1>2
    <3> QED BY <3>1, Zenon
  <2>2. \A p \in sortedKeys : q <= p /\ p <= h
    BY <1>1, <1>2, <1>4, <2>1 DEF Successor, Search
  <2>3. CASE h >= hash /\ q < hash
    <3>1. Dist(hash, h) < Dist(hash, q)
      BY <1>1, <1>2, <2>3 DEF Dist
    <3>2. \A p \in sortedKeys : Dist(hash, p) <= Dist(hash, h) \/ Dist(hash, q) <= Dist(hash, p)
      <4> SUFFICES ASSUME NEW p \in sortedKeys
                   PROVE  Dist(hash, p) <= Dist(hash, h) \/ Dist(hash, q) <= Dist(hash, p)
        OBVIOUS
      <4>1. q <= p /\ p <= h
        BY <2>2
      <4> QED BY <1>1, <1>2, <2>3, <4>1 DEF Dist
    <3> QED BY <3>1, <3>2
  <2>4. CASE ~(h >= hash /\ q < hash)
    <3>1. \A p \in sortedKeys : Dist(hash, p) <= Dist(hash, h)
      <4> SUFFICES ASSUME NEW p \in sortedKeys
                   PROVE  Dist(hash, p) <= Dist(hash, h)
        OBVIOUS
      <4>1. q <= p /\ p <= h
        BY <2>2
      <4> QED BY <1>1, <1>2, <2>4, <4>1 DEF Dist
    <3> QED BY <3>1
  <2> QED BY <2>3, <2>4
<1> QED BY <1>3, <1>4

(* What a walk keeps: it has taken every node with a point nearer to the   *)
(* key than the one it is at, and no node without a point as near.         *)
WalkInv(w) ==
  /\ w \in Walk
  /\ w.n <= Cardinality(nodes)
  /\ w.idx \in sortedKeys
  /\ w.replicas \in Seq(nodes)
  /\ IsFiniteSet(Seen(w)) /\ Cardinality(Seen(w)) = Len(w.replicas)
  /\ IF w.replicas = <<>> THEN w.idx \in Search(hashKey[w.key])
                          ELSE w.replicas[1] \in GetNode(w.key)
  /\ \A p \in sortedKeys :
       Dist(hashKey[w.key], p) < Dist(hashKey[w.key], w.idx) => Owners(p) \subseteq Seen(w)
  /\ \A m \in Seen(w) : \E p \in Points(m) :
       Dist(hashKey[w.key], p) <= Dist(hashKey[w.key], w.idx)

WalksInv == RingInv /\ leaders \subseteq nodes /\ \A w \in walk : WalkInv(w)

(* A walk without replicas has seen no node. *)
LEMMA SeenEmpty ==
  ASSUME NEW w, w.replicas = <<>>
  PROVE  Seen(w) = {} /\ IsFiniteSet(Seen(w)) /\ Cardinality(Seen(w)) = 0
<1>1. Seen(w) = {}
  BY DEF Seen
<1> QED BY <1>1, FS_EmptySet

(* Taking a node adds it to the nodes seen. *)
LEMMA SeenGrows ==
  ASSUME NEW S, NEW w, w.replicas \in Seq(S), NEW m, NEW v,
         v.replicas = Append(w.replicas, m)
  PROVE  Seen(v) = Seen(w) \cup {m}
<1>1. /\ Len(w.replicas) \in Nat
      /\ Len(v.replicas) = Len(w.replicas) + 1
      /\ v.replicas[Len(w.replicas) + 1] = m
      /\ \A j \in 1 .. Len(w.replicas) : v.replicas[j] = w.replicas[j]
  OBVIOUS
<1>2. \A j : j \in 1 .. Len(v.replicas) <=> j \in 1 .. Len(w.replicas) \/ j = Len(w.replicas) + 1
  BY <1>1
<1> QED BY <1>1, <1>2 DEF Seen

(* A walk that begins. *)
LEMMA GetReplicasWalks ==
  ASSUME WalksInv, NEW k \in Keys, NEW n \in 1 .. MaxReplicas, GetReplicas(k, n),
         NEW w \in walk'
  PROVE  WalkInv(w)
<1> DEFINE cap == IF n > Cardinality(nodes) THEN Cardinality(nodes) ELSE n
<1>1. PICK start \in Search(hashKey[k]) :
        w = [key |-> k, n |-> cap, idx |-> start, replicas |-> <<>>]
  BY DEF GetReplicas
<1>2. nodes \subseteq NodeIDs /\ sortedKeys \subseteq Hashes /\ hashKey[k] \in Hashes
  BY RingInvType DEF WalksInv, RingInv
<1>3. Cardinality(nodes) \in Nat
  BY <1>2, NodesAssumption, FS_Subset, FS_CardinalityType
<1>4. cap \in Nat /\ cap <= Cardinality(nodes)
  BY <1>3
<1>5. start \in sortedKeys /\ \A p \in sortedKeys : Dist(hashKey[k], start) <= Dist(hashKey[k], p)
  BY <1>2, SearchIsNearest DEF Search
<1>6. \A p \in sortedKeys : Dist(hashKey[k], p) \in Int
  BY <1>2, DistType
<1> HIDE DEF cap
<1>7. Seen(w) = {} /\ IsFiniteSet(Seen(w)) /\ Cardinality(Seen(w)) = 0
  BY <1>1, SeenEmpty
<1>8. Len(w.replicas) = 0 /\ w.replicas \in Seq(nodes)
  BY <1>1
<1>9. w \in Walk
  <2>1. start \in Hashes /\ <<>> \in Seq(NodeIDs)
    BY <1>2, <1>5
  <2> QED BY <1>1, <1>4, <2>1 DEF Walk
<1> QED BY <1>1, <1>4, <1>5, <1>6, <1>7, <1>8, <1>9 DEF WalkInv

(* An owner of the point is taken. *)
LEMMA TakeReplicaWalks ==
  ASSUME WalksInv, TakeReplica, NEW v \in walk'
  PROVE  WalkInv(v)
<1>1. PICK w \in walk : \E m \in Owners(w.idx) \ Seen(w) : v = [w EXCEPT !.replicas = Append(@, m)]
  BY DEF TakeReplica
<1>2. PICK m \in Owners(w.idx) : m \notin Seen(w) /\ v = [w EXCEPT !.replicas = Append(@, m)]
  BY <1>1
<1>3. WalkInv(w) /\ RingInv
  BY DEF WalksInv
<1>4. /\ m \in nodes /\ m \in NodeIDs /\ w.idx \in Points(m)
      /\ w \in Walk /\ w.replicas \in Seq(nodes) /\ w.replicas \in Seq(NodeIDs)
      /\ hashKey[w.key] \in Hashes /\ w.idx \in Hashes
  BY <1>3 DEF WalkInv, RingInv, Owners, Walk
<1>5. /\ Append(w.replicas, m) \in Seq(nodes) /\ Append(w.replicas, m) \in Seq(NodeIDs)
      /\ Append(w.replicas, m) # <<>>
      /\ Len(w.replicas) \in Nat
      /\ Len(Append(w.replicas, m)) = Len(w.replicas) + 1
      /\ w.replicas # <<>> => Append(w.replicas, m)[1] = w.replicas[1]
      /\ w.replicas = <<>> => Append(w.replicas, m)[1] = m
  BY <1>4
<1>6. /\ v \in Walk
      /\ v.key = w.key /\ v.n = w.n /\ v.idx = w.idx
      /\ v.replicas = Append(w.replicas, m)
  BY <1>2, <1>4, <1>5 DEF Walk
<1>7. Seen(v) = Seen(w) \cup {m}
  BY <1>4, <1>6, SeenGrows
<1>8. IsFiniteSet(Seen(v)) /\ Cardinality(Seen(v)) = Len(v.replicas)
  <2>1. IsFiniteSet(Seen(w)) /\ Cardinality(Seen(w)) = Len(w.replicas)
    BY <1>3 DEF WalkInv
  <2>2. m \notin Seen(w)
    BY <1>2
  <2>3. /\ IsFiniteSet(Seen(w) \cup {m})
        /\ Cardinality(Seen(w) \cup {m}) = Cardinality(Seen(w)) + 1
    BY <2>1, <2>2, FS_AddElement
  <2> QED BY <1>5, <1>6, <1>7, <2>1, <2>3
<1>9. v.replicas[1] \in GetNode(v.key)
  <2>1. CASE w.replicas = <<>>
    <3>1. m \in GetNode(w.key)
      BY <1>3, <1>4, <2>1 DEF WalkInv, GetNode
    <3> QED BY <1>5, <1>6, <2>1, <3>1
  <2>2. CASE w.replicas # <<>>
    BY <1>3, <1>5, <1>6, <2>2 DEF WalkInv
  <2> QED BY <2>1, <2>2
<1>10. Dist(hashKey[w.key], w.idx) <= Dist(hashKey[w.key], w.idx)
  BY <1>4, DistType
<1>11. \A o \in Seen(v) : \E p \in Points(o) :
         Dist(hashKey[v.key], p) <= Dist(hashKey[v.key], v.idx)
  BY <1>3, <1>4, <1>6, <1>7, <1>10 DEF WalkInv
<1>12. \A p \in sortedKeys :
         Dist(hashKey[v.key], p) < Dist(hashKey[v.key], v.idx) => Owners(p) \subseteq Seen(v)
  BY <1>3, <1>6, <1>7 DEF WalkInv
<1> QED BY <1>3, <1>5, <1>6, <1>8, <1>9, <1>11, <1>12 DEF WalkInv

(* A walk that has been to the farthest point has taken every node. *)
LEMMA WalkEndsBeforeItComesRound ==
  ASSUME WalksInv, NEW w \in walk, Len(w.replicas) < w.n, Owners(w.idx) \subseteq Seen(w)
  PROVE  \E p \in sortedKeys : ~(Dist(hashKey[w.key], p) <= Dist(hashKey[w.key], w.idx))
<1> SUFFICES ASSUME \A p \in sortedKeys :
                      Dist(hashKey[w.key], p) <= Dist(hashKey[w.key], w.idx)
             PROVE  FALSE
  OBVIOUS
<1>1. WalkInv(w) /\ RingInv
  BY DEF WalksInv
<1>2. sortedKeys \subseteq Hashes /\ w.idx \in sortedKeys /\ hashKey[w.key] \in Hashes
  BY <1>1, RingInvType DEF WalkInv, RingInv, Walk
<1>3. ASSUME NEW m \in nodes
      PROVE  m \in Seen(w)
  <2>1. PICK p \in Points(m) : p \in sortedKeys
    BY <1>1, PointsType DEF RingInv, Rebuilt
  <2>2. m \in Owners(p)
    BY <2>1 DEF Owners
  <2>3. CASE Dist(hashKey[w.key], p) < Dist(hashKey[w.key], w.idx)
    BY <1>1, <2>1, <2>2, <2>3 DEF WalkInv
  <2>4. CASE ~(Dist(hashKey[w.key], p) < Dist(hashKey[w.key], w.idx))
    <3>1. p = w.idx
      <4>1. Dist(hashKey[w.key], p) = Dist(hashKey[w.key], w.idx)
        BY <1>2, <2>1, <2>4, DistType
      <4>2. p \in Hashes /\ w.idx \in Hashes
        BY <1>2, <2>1
      <4> QED BY <1>2, <4>1, <4>2, DistInjective
    <3> QED BY <2>2, <3>1
  <2> QED BY <2>3, <2>4
<1>4. Seen(w) \subseteq nodes
  BY <1>1 DEF WalkInv, Seen
<1>5. Seen(w) = nodes
  BY <1>3, <1>4
<1>6. w.n \in Nat /\ w.n <= Len(w.replicas) /\ Len(w.replicas) \in Nat
  BY <1>1, <1>5 DEF WalkInv, Walk
<1> QED BY <1>6

(* The walk goes on to the next point. *)
LEMMA NextPointWalks ==
  ASSUME WalksInv, NextPoint, NEW v \in walk'
  PROVE  WalkInv(v)
<1>1. PICK w \in walk :
        /\ Len(w.replicas) < w.n
        /\ Owners(w.idx) \subseteq Seen(w)
        /\ \E h \in Successor(w.idx) : v = [w EXCEPT !.idx = h]
  BY DEF NextPoint
<1>2. PICK h \in Successor(w.idx) : v = [w EXCEPT !.idx = h]
  BY <1>1
<1>3. WalkInv(w) /\ RingInv
  BY DEF WalksInv
<1>4. /\ sortedKeys \subseteq Hashes /\ w.idx \in sortedKeys /\ hashKey[w.key] \in Hashes
      /\ h \in sortedKeys
  BY <1>2, <1>3, RingInvType DEF WalkInv, RingInv, Walk, Successor, Search
<1>5. /\ v \in Walk
      /\ v.key = w.key /\ v.n = w.n /\ v.idx = h /\ v.replicas = w.replicas
      /\ Seen(v) = Seen(w)
  BY <1>2, <1>3, <1>4 DEF WalkInv, Walk, Seen
<1> DEFINE dist(p) == Dist(hashKey[w.key], p)
<1>6. dist(w.idx) < dist(h) /\ \A p \in sortedKeys : dist(p) <= dist(w.idx) \/ dist(h) <= dist(p)
  BY <1>1, <1>2, <1>4, WalkEndsBeforeItComesRound, SuccessorIsNext
<1>7. \A p \in sortedKeys : dist(p) \in Nat
  BY <1>4, DistType
<1>8. w.replicas # <<>>
  <2>1. Owners(w.idx) # {}
    BY <1>3, <1>4 DEF RingInv, Rebuilt, Owners
  <2> QED BY <1>1, <2>1, SeenEmpty
<1>9. ASSUME NEW p \in sortedKeys, dist(p) < dist(h)
      PROVE  Owners(p) \subseteq Seen(w)
  <2>1. dist(p) <= dist(w.idx)
    BY <1>4, <1>6, <1>7, <1>9
  <2>2. CASE dist(p) < dist(w.idx)
    BY <1>3, <2>2 DEF WalkInv
  <2>3. CASE dist(p) = dist(w.idx)
    <3>1. p = w.idx
      BY <1>4, <2>3, DistInjective
    <3> QED BY <1>1, <3>1
  <2> QED BY <1>4, <1>7, <2>1, <2>2, <2>3
<1>10. ASSUME NEW m \in Seen(w)
       PROVE  \E p \in Points(m) : dist(p) <= dist(h)
  <2>1. PICK p \in Points(m) : dist(p) <= dist(w.idx)
    BY <1>3 DEF WalkInv
  <2>2. m \in nodes /\ nodes \subseteq NodeIDs
    BY <1>3 DEF WalkInv, Seen, RingInv
  <2>3. dist(p) \in Nat
    BY <1>3, <1>4, <2>2, PointsType, DistType DEF RingInv
  <2> QED BY <1>4, <1>6, <1>7, <2>1, <2>3
<1> HIDE DEF dist
<1>11. \A p \in sortedKeys : dist(p) < dist(h) => Owners(p) \subseteq Seen(w)
  BY <1>9
<1> QED BY <1>3, <1>4, <1>5, <1>8, <1>10, <1>11 DEF WalkInv, dist

(* While the ring stays as it is, so does what is known of a walk. *)
LEMMA WalkInvStays ==
  ASSUME UNCHANGED <<hashKey, hashNode, ring>>
  PROVE  \A w : WalkInv(w)' <=> WalkInv(w)
BY DEF WalkInv, Owners, Points, Search, GetNode, ring, Seen

(* Every action keeps the invariant of walks. *)
LEMMA WalksInvStep == WalksInv /\ [Next]_vars => WalksInv'
<1> SUFFICES ASSUME WalksInv, [Next]_vars PROVE WalksInv'
  OBVIOUS
<1>1. RingInv'
  BY RingInvStep DEF WalksInv
<1>2. leaders' \subseteq nodes'
  BY DEF WalksInv, Next, AddNode, RemoveNode, UpdateNodeLeader, GetReplicas, Loop,
         TakeReplica, NextPoint, ReturnReplicas, ring, vars
<1>3. CASE \/ \E m \in NodeIDs : AddNode(m) \/ RemoveNode(m)
           \/ \E m \in NodeIDs, isLeader \in BOOLEAN : UpdateNodeLeader(m, isLeader)
           \/ ReturnReplicas
  <2>1. walk' = {}
    BY <1>3 DEF AddNode, RemoveNode, UpdateNodeLeader, ReturnReplicas
  <2> QED BY <1>1, <1>2, <2>1 DEF WalksInv
<1>4. CASE \/ \E k \in Keys, n \in 1 .. MaxReplicas : GetReplicas(k, n)
           \/ TakeReplica \/ NextPoint \/ UNCHANGED vars
  <2>1. UNCHANGED <<hashKey, hashNode, ring>>
    BY <1>4 DEF GetReplicas, TakeReplica, NextPoint, vars
  <2>2. \A w \in walk' : WalkInv(w)
    <3>1. CASE UNCHANGED vars
      BY <3>1 DEF vars, WalksInv
    <3> QED BY <1>4, <3>1, GetReplicasWalks, TakeReplicaWalks, NextPointWalks
  <2> QED BY <1>1, <1>2, <2>1, <2>2, WalkInvStays DEF WalksInv
<1> QED BY <1>3, <1>4 DEF Next, Loop

(* There is no walk at first. *)
LEMMA InitiallyWalksInv == Init => WalksInv
BY InitiallyRingInv DEF Init, WalksInv

(* No node that is left out has a point nearer than where the walk is.     *)
LEMMA WalksAreNearest ==
  ASSUME WalksInv
  PROVE  ReplicasAreNearest
<1> SUFFICES ASSUME NEW w \in walk
             PROVE  /\ Cardinality(Seen(w)) = Len(w.replicas)
                    /\ w.replicas # <<>> => w.replicas[1] \in GetNode(w.key)
                    /\ \A j \in 1 .. Len(w.replicas) : \A m \in nodes \ Seen(w) :
                         Distance(hashKey[w.key], w.replicas[j]) <= Distance(hashKey[w.key], m)
  BY DEF ReplicasAreNearest
<1>1. WalkInv(w) /\ RingInv
  BY DEF WalksInv
<1> DEFINE hash == hashKey[w.key]
<1>2. /\ hash \in Hashes /\ w.idx \in Hashes /\ sortedKeys \subseteq Hashes
      /\ nodes \subseteq NodeIDs /\ hashNode \in [NodeIDs -> [Indices -> Hashes]]
  BY <1>1, RingInvType DEF WalkInv, RingInv, Walk
<1>3. ASSUME NEW j \in 1 .. Len(w.replicas), NEW m \in nodes \ Seen(w)
      PROVE  Distance(hash, w.replicas[j]) <= Distance(hash, m)
  <2> DEFINE o == w.replicas[j]
  <2>1. o \in Seen(w) /\ o \in NodeIDs /\ m \in NodeIDs
    BY <1>1, <1>2 DEF WalkInv, Seen
  <2>2. PICK p \in Points(o) : Dist(hash, p) <= Dist(hash, w.idx)
    BY <1>1, <2>1 DEF WalkInv
  <2>3. PICK q \in Points(m) : Distance(hash, m) = Dist(hash, q)
    BY <1>2, <2>1, DistanceIsLeast
  <2>4. q \in sortedKeys /\ m \in Owners(q)
    BY <1>1, <2>3 DEF RingInv, Rebuilt, Owners
  <2>5. ~(Dist(hash, q) < Dist(hash, w.idx))
    BY <1>1, <2>4 DEF WalkInv
  <2>6. Distance(hash, o) <= Dist(hash, p)
    BY <1>2, <2>1, <2>2, DistanceIsLeast
  <2>7. Dist(hash, p) \in Nat /\ Dist(hash, q) \in Nat /\ Dist(hash, w.idx) \in Nat
    BY <1>2, <2>1, <2>2, <2>4, PointsType, DistType
  <2>8. Distance(hash, o) \in Nat
    BY <1>2, <2>1, DistanceIsLeast, PointsType, DistType
  <2> HIDE DEF o, hash
  <2>9. Distance(hash, o) <= Distance(hash, m)
    BY <2>2, <2>3, <2>5, <2>6, <2>7, <2>8
  <2> QED BY <2>9 DEF o
<1> QED BY <1>1, <1>3 DEF WalkInv

(* The ring's fields have their types; only members can be leaders. *)
THEOREM RingTypeCorrect == Spec => []TypeOK
<1>1. WalksInv => TypeOK
  BY RingInvType DEF WalksInv, TypeOK, RingInv, WalkInv
<1> QED BY <1>1, InitiallyWalksInv, WalksInvStep, PTL DEF Spec

(* GetReplicas (ring.go:137-193) takes distinct nodes, the key's owner     *)
(* first, and none that is farther from the key than one it leaves out,    *)
(* whatever points coincide.                                               *)
THEOREM ReplicasNearest == Spec => []ReplicasAreNearest
<1>1. WalksInv => ReplicasAreNearest
  BY WalksAreNearest
<1> QED BY <1>1, InitiallyWalksInv, WalksInvStep, PTL DEF Spec

=============================================================================
