-------------------------- MODULE MembershipProofs --------------------------
(***************************************************************************)
(* What is proved of Membership, for every set of nodes, addresses,        *)
(* connections and requests.  The inductive invariant says of each node on *)
(* its own what ForwardFindsClient says of the whole map, and says it in   *)
(* the middle of a refresh too.                                            *)
(***************************************************************************)
EXTENDS Membership, TLAPS

(* A client of the map is open, unless its ring address cannot be parsed. *)
ClosedOnlyUndialable ==
  \A m \in Nodes :
    clients[m] # NoConn /\ address[m] \in Dialable => clients[m] \in open

(* Until Close, a member that can be dialed has a client. *)
MembersHaveClients ==
  ~closed =>
    \A m \in Nodes \ {Local} : address[m] \in Dialable => clients[m] # NoConn

IInv == TypeOK /\ ClosedOnlyUndialable /\ MembersHaveClients

-----------------------------------------------------------------------------
(* The service starts with an empty ring and no clients. *)
LEMMA InitEstablishes == Init => IInv
  BY LocalAssumption, AddressAssumption
  DEF Init, IInv, TypeOK, Members, ClosedOnlyUndialable, MembersHaveClients

(* An added node gets an open client of its own, or none. *)
LEMMA AddNodeKeeps ==
  ASSUME IInv, NEW m \in Nodes, NEW a \in Addresses, AddNode(m, a)
  PROVE  IInv'
<1> USE LocalAssumption, AddressAssumption, ConnAssumption
<1> USE DEF IInv, TypeOK, Members
<1>1. CASE m # Local /\ a \in Dialable
  <2>1. PICK c \in Conns : Connect(m, c) /\ open' = open \cup {c}
    BY <1>1 DEF AddNode
  <2>2. TypeOK'
    BY <1>1, <2>1 DEF AddNode, Connect, Unused, Unlocked
  <2>3. ClosedOnlyUndialable'
    BY <1>1, <2>1 DEF AddNode, Connect, ClosedOnlyUndialable
  <2>4. MembersHaveClients'
    BY <1>1, <2>1 DEF AddNode, Connect, MembersHaveClients
  <2> QED BY <2>2, <2>3, <2>4
<1>2. CASE ~(m # Local /\ a \in Dialable)
  <2>1. UNCHANGED <<clients, open>>
    BY <1>2 DEF AddNode
  <2>2. TypeOK'
    BY <2>1 DEF AddNode, Unlocked
  <2>3. ClosedOnlyUndialable'
    BY <1>2, <2>1 DEF AddNode, ClosedOnlyUndialable
  <2>4. MembersHaveClients'
    BY <1>2, <2>1 DEF AddNode, MembersHaveClients
  <2> QED BY <2>2, <2>3, <2>4
<1> QED BY <1>1, <1>2

(* Closing the connection of one node closes that of no other. *)
LEMMA RemoveNodeKeeps ==
  ASSUME IInv, NEW m \in Nodes, RemoveNode(m)
  PROVE  IInv'
<1> USE LocalAssumption, AddressAssumption, ConnAssumption
<1> USE DEF IInv, TypeOK, Members, RemoveNode, Unlocked
<1>1. TypeOK'
  OBVIOUS
<1>2. ClosedOnlyUndialable'
  BY DEF ClosedOnlyUndialable
<1>3. MembersHaveClients'
  BY DEF MembersHaveClients
<1> QED BY <1>1, <1>2, <1>3

(* A closed service has neither clients nor connections. *)
LEMMA CloseKeeps ==
  ASSUME IInv, Close
  PROVE  IInv'
  BY LocalAssumption, ConnAssumption
  DEF IInv, TypeOK, Members, Close, Unlocked, ClosedOnlyUndialable, MembersHaveClients

(* A round of RefreshClients replaces the client of one node, or closes it *)
(* because its address cannot be parsed.                                   *)
LEMMA RefreshNodeKeeps ==
  ASSUME IInv, RefreshNode
  PROVE  IInv'
<1> USE LocalAssumption, AddressAssumption, ConnAssumption
<1> USE DEF IInv, TypeOK, Members
<1>1. PICK m \in todo : Refreshed(m) \/ RefreshFails(m)
  BY DEF RefreshNode
<1>2. m \in Nodes \ {Local} /\ UNCHANGED <<address, target, held, closed>>
  BY <1>1 DEF RefreshNode
<1>3. CASE Refreshed(m)
  <2>1. PICK c \in Conns : Connect(m, c) /\ open' = (open \ {clients[m]}) \cup {c}
    BY <1>3 DEF Refreshed
  <2>2. TypeOK'
    BY <1>2, <1>3, <2>1 DEF Refreshed, Connect, Unused
  <2>3. ClosedOnlyUndialable'
    BY <1>2, <1>3, <2>1 DEF Connect, ClosedOnlyUndialable
  <2>4. MembersHaveClients'
    BY <1>2, <1>3, <2>1 DEF Connect, MembersHaveClients
  <2> QED BY <2>2, <2>3, <2>4
<1>4. CASE RefreshFails(m)
  BY <1>2, <1>4 DEF RefreshFails, ClosedOnlyUndialable, MembersHaveClients
<1> QED BY <1>1, <1>3, <1>4

(* Requests only read the map. *)
LEMMA RequestKeeps ==
  ASSUME IInv, NEW r \in Requests, Route(r) \/ GetClient(r) \/ Return(r)
  PROVE  IInv'
  BY LocalAssumption
  DEF IInv, TypeOK, Members, Route, GetClient, Return, ClosedOnlyUndialable, MembersHaveClients

(* Every step keeps the invariant. *)
LEMMA StepKeeps ==
  ASSUME IInv, [Next]_vars
  PROVE  IInv'
<1>1. CASE \E m \in Nodes : RemoveNode(m) \/ \E a \in Addresses : AddNode(m, a)
  BY <1>1, RemoveNodeKeeps, AddNodeKeeps
<1>2. CASE Close
  BY <1>2, CloseKeeps
<1>3. CASE RefreshClients
  BY <1>3 DEF RefreshClients, IInv, TypeOK, Members, ClosedOnlyUndialable, MembersHaveClients
<1>4. CASE RefreshNode
  BY <1>4, RefreshNodeKeeps
<1>5. CASE \E r \in Requests : Route(r) \/ GetClient(r) \/ Return(r)
  BY <1>5, RequestKeeps
<1>6. CASE UNCHANGED vars
  BY <1>6 DEF vars, IInv, TypeOK, Members, ClosedOnlyUndialable, MembersHaveClients
<1> QED BY <1>1, <1>2, <1>3, <1>4, <1>5, <1>6 DEF Next

(* The invariant that carries the theorems below. *)
THEOREM Inductive == Spec => []IInv
  BY InitEstablishes, StepKeeps, PTL DEF Spec

(* The membership service is type correct: in particular no two nodes ever *)
(* share a connection and only members of the ring have one.               *)
THEOREM TypeCorrect == Spec => []TypeOK
<1>1. IInv => TypeOK
  BY DEF IInv
<1> QED BY <1>1, Inductive, PTL

(* However many nodes come and go, a request that the ring sends to a node *)
(* finds an open client for it (membership.go:82).                         *)
THEOREM ClientsAreOpen == Spec => []ForwardFindsClient
<1>1. IInv => ForwardFindsClient
  BY DEF IInv, ForwardFindsClient, ClosedOnlyUndialable, MembersHaveClients, Members
<1> QED BY <1>1, Inductive, PTL

LetsGo(m) ==
  clients'[m] # clients[m] /\ clients[m] \in open' => \E a \in Dialable : AddNode(m, a)

(* Whichever step takes a connection out of the map closes it. *)
LEMMA LetsGoClosed ==
  ASSUME IInv, [Next]_vars, NEW m \in Nodes
  PROVE  LetsGo(m)
<1> USE ConnAssumption DEF LetsGo, IInv, TypeOK
<1>1. ASSUME NEW n \in Nodes, RemoveNode(n)
      PROVE  LetsGo(m)
  BY <1>1 DEF RemoveNode
<1>2. ASSUME NEW n \in Nodes, NEW a \in Addresses, AddNode(n, a)
      PROVE  LetsGo(m)
  <2>1. SUFFICES ASSUME clients'[m] # clients[m]
                 PROVE  m = n /\ a \in Dialable
    BY <1>2
  <2>2. n # Local /\ a \in Dialable
    BY <1>2, <2>1 DEF AddNode
  <2>3. PICK c \in Conns : Connect(n, c)
    BY <1>2, <2>2 DEF AddNode
  <2> QED BY <2>1, <2>2, <2>3 DEF Connect
<1>3. CASE Close
  BY <1>3 DEF Close
<1>4. CASE RefreshNode
  <2>1. PICK n \in todo : Refreshed(n) \/ RefreshFails(n)
    BY <1>4 DEF RefreshNode
  <2>2. CASE Refreshed(n)
    <3>1. PICK c \in Conns : Connect(n, c) /\ open' = (open \ {clients[n]}) \cup {c}
      BY <2>2 DEF Refreshed
    <3> QED BY <2>1, <3>1 DEF Connect, Unused
  <2> QED BY <2>1, <2>2 DEF RefreshFails
<1>5. CASE RefreshClients \/ UNCHANGED vars \/ \E r \in Requests : Route(r) \/ GetClient(r) \/ Return(r)
  BY <1>5 DEF RefreshClients, vars, Route, GetClient, Return
<1> QED BY <1>1, <1>2, <1>3, <1>4, <1>5 DEF Next

(* No refresh, removal or Close leaves a connection open behind it; only   *)
(* AddNode of a node that has a client does (membership.go:44).            *)
THEOREM ConnectionsAreClosed == Spec => NothingLeaks
<1>1. IInv /\ [Next]_vars =>
        [\A m \in Nodes :
           clients'[m] # clients[m] /\ clients[m] \in open' =>
             \E a \in Dialable : AddNode(m, a)]_vars
  BY LetsGoClosed DEF LetsGo
<1> QED BY <1>1, Inductive, PTL DEF Spec, NothingLeaks

(* A client that was closed under a request is not given out again         *)
(* (membership.go:142).                                                    *)
THEOREM ClosedClientsGo == Spec => []ClosedClientIsGone
<1>1. IInv => ClosedClientIsGone
  BY DEF IInv, TypeOK, ClosedClientIsGone, ClosedOnlyUndialable
<1> QED BY <1>1, Inductive, PTL
=============================================================================
