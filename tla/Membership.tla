----------------------------- MODULE Membership -----------------------------
(***************************************************************************)
(* The membership service of one node, sharding/membership.go: the ring's  *)
(* nodes with their addresses, and a gRPC client for each of them that     *)
(* forwarded requests use.                                                 *)
(*                                                                         *)
(* m.mu makes AddNode, RemoveNode, Close and the lookups single steps.     *)
(* RefreshClients holds it for all its rounds, which are steps of their    *)
(* own: a request that has got its client before needs no lock to use it.  *)
(*                                                                         *)
(* RefreshClients ranges over a slice of nodes as if it were the map       *)
(* nodeID -> node, which the compiler refuses (membership.go:134); the     *)
(* model takes nodeID to be the ID of the node.                            *)
(***************************************************************************)
EXTENDS Naturals, FiniteSets

CONSTANTS
  Nodes,
  Local,       \* m.localNodeID
  Addresses,
  Dialable,    \* the addresses that grpc.NewClient can parse; it connects later
  NoAddress,   \* the address of a node that is not on the ring
  Conns,       \* connections that are open or remembered, enough for one more
  NoConn,
  MaxLeaks,    \* bound of the model: connections that AddNode has left open
  Requests     \* requests to be forwarded, each at most once at a time

ASSUME LocalAssumption == Local \in Nodes
ASSUME AddressAssumption == Dialable \subseteq Addresses /\ NoAddress \notin Addresses
ASSUME ConnAssumption == NoConn \notin Conns /\ MaxLeaks \in Nat

VARIABLES
  address,   \* address[m]: of node m on m.ring
  clients,   \* clients[m]: m.clients, the connection to m
  open,      \* the connections that are not closed
  todo,      \* the nodes RefreshClients has yet to refresh; m.mu is free when there are none
  target,    \* target[r]: the node a request is routed to, Local when it is not
  held,      \* held[r]: the connection GetClient has given it
  closed     \* Close has been called

vars == <<address, clients, open, todo, target, held, closed>>

Members == {m \in Nodes : address[m] # NoAddress}

(* The types; no two nodes share a connection, the local one has none, and *)
(* only members have one.                                                  *)
TypeOK ==
  /\ address \in [Nodes -> Addresses \cup {NoAddress}]
  /\ clients \in [Nodes -> Conns \cup {NoConn}]
  /\ \A m, n \in Nodes : clients[m] = clients[n] /\ clients[m] # NoConn => m = n
  /\ \A m \in Nodes : clients[m] # NoConn => m \in Members \ {Local}
  /\ open \subseteq Conns
  /\ todo \subseteq Members \ {Local}
  /\ target \in [Requests -> Nodes]
  /\ held \in [Requests -> Conns \cup {NoConn}]
  /\ closed \in BOOLEAN

Init ==
  /\ address = [m \in Nodes |-> NoAddress]
  /\ clients = [m \in Nodes |-> NoConn]
  /\ open = {}
  /\ todo = {}
  /\ target = [r \in Requests |-> Local]
  /\ held = [r \in Requests |-> NoConn]
  /\ closed = FALSE

-----------------------------------------------------------------------------
Unlocked == todo = {}

(* A connection that nobody knows yet, or any more. *)
Unused(c) ==
  /\ c \notin open
  /\ \A m \in Nodes : clients[m] # c
  /\ \A r \in Requests : held[r] # c

(* The connection to m becomes c, and an old one is left as it is. *)
Connect(m, c) ==
  /\ Unused(c)
  /\ clients' = [clients EXCEPT ![m] = c]

Leaked == open \ {clients[m] : m \in Nodes}

(* The ring keeps the address it has; the client gets the new one.  The    *)
(* node stays on the ring when there is no client for it.                  *)
AddNode(m, a) ==
  /\ Unlocked
  /\ address' = [address EXCEPT ![m] = IF @ = NoAddress THEN a ELSE @]
  /\ IF m # Local /\ a \in Dialable
     THEN /\ clients[m] \in open => Cardinality(Leaked) < MaxLeaks
          /\ \E c \in Conns : Connect(m, c) /\ open' = open \cup {c}
     ELSE UNCHANGED <<clients, open>>
  /\ UNCHANGED <<todo, target, held, closed>>

RemoveNodeOpen(m) ==   \* mutant of RemoveNode: the connection is not closed
  /\ Unlocked
  /\ clients' = [clients EXCEPT ![m] = NoConn]
  /\ address' = [address EXCEPT ![m] = NoAddress]
  /\ UNCHANGED <<open, todo, target, held, closed>>

RemoveNodeFromRing(m) ==   \* mutant of RemoveNode: the client stays
  /\ Unlocked
  /\ open' = open \ {clients[m]}
  /\ address' = [address EXCEPT ![m] = NoAddress]
  /\ UNCHANGED <<clients, todo, target, held, closed>>

RemoveNode(m) ==
  /\ Unlocked
  /\ open' = open \ {clients[m]}
  /\ clients' = [clients EXCEPT ![m] = NoConn]
  /\ address' = [address EXCEPT ![m] = NoAddress]
  /\ UNCHANGED <<todo, target, held, closed>>

CloseKeepingClients ==   \* mutant of Close: the map keeps the closed clients
  /\ Unlocked
  /\ open' = open \ {clients[m] : m \in Nodes}
  /\ closed' = TRUE
  /\ UNCHANGED <<address, clients, todo, target, held>>

Close ==
  /\ Unlocked
  /\ open' = open \ {clients[m] : m \in Nodes}
  /\ clients' = [m \in Nodes |-> NoConn]
  /\ closed' = TRUE
  /\ UNCHANGED <<address, todo, target, held>>

-----------------------------------------------------------------------------
(* RefreshClients, on every tick of the sync goroutine, which Close does   *)
(* not stop.                                                               *)
RefreshClients ==
  /\ Unlocked
  /\ todo' = Members \ {Local}
  /\ UNCHANGED <<address, clients, open, target, held, closed>>

Refreshed(m) ==
  /\ address[m] \in Dialable
  /\ todo' = todo \ {m}
  /\ \E c \in Conns : Connect(m, c) /\ open' = (open \ {clients[m]}) \cup {c}

(* Mutants of RefreshFails: the lock is kept, the loop goes on to close.   *)
RefreshFailsLocked(m) ==
  /\ address[m] \notin Dialable
  /\ open' = open \ {clients[m]}
  /\ UNCHANGED <<todo, clients>>

RefreshFailsClosing(m) ==
  /\ address[m] \notin Dialable
  /\ open' = open \ {clients[n] : n \in todo}
  /\ todo' = {}
  /\ UNCHANGED clients

(* The old client is closed and no new one takes its place; the nodes that *)
(* were to come after it keep what they have.                              *)
RefreshFails(m) ==
  /\ address[m] \notin Dialable
  /\ open' = open \ {clients[m]}
  /\ todo' = {}
  /\ UNCHANGED clients

RefreshNode ==
  /\ \E m \in todo : Refreshed(m) \/ RefreshFails(m)
  /\ UNCHANGED <<address, target, held, closed>>

-----------------------------------------------------------------------------
(* GetTargetNode and IsLocalNode: the node that owns the key of r. *)
Route(r) ==
  /\ Unlocked
  /\ target[r] = Local
  /\ \E m \in Members \ {Local} : target' = [target EXCEPT ![r] = m]
  /\ UNCHANGED <<address, clients, open, todo, held, closed>>

(* GetClient, under a lock of its own: m may have been removed since. *)
GetClient(r) ==
  /\ Unlocked
  /\ target[r] # Local
  /\ held[r] = NoConn
  /\ IF clients[target[r]] = NoConn
     THEN target' = [target EXCEPT ![r] = Local] /\ UNCHANGED held
     ELSE held' = [held EXCEPT ![r] = clients[target[r]]] /\ UNCHANGED target
  /\ UNCHANGED <<address, clients, open, todo, closed>>

(* The call on the connection, which fails when that is closed, returns. *)
Return(r) ==
  /\ held[r] # NoConn
  /\ held' = [held EXCEPT ![r] = NoConn]
  /\ target' = [target EXCEPT ![r] = Local]
  /\ UNCHANGED <<address, clients, open, todo, closed>>

Next ==
  \/ \E m \in Nodes : RemoveNode(m) \/ \E a \in Addresses : AddNode(m, a)
  \/ Close \/ RefreshClients \/ RefreshNode
  \/ \E r \in Requests : Route(r) \/ GetClient(r) \/ Return(r)

Spec == Init /\ [][Next]_vars

(* The refresh goroutine and the handlers are scheduled, and a handler     *)
(* that waits for RLock gets it: sync.RWMutex lets the waiting readers in  *)
(* when a writer unlocks.                                                  *)
FairSpec ==
  /\ Spec
  /\ WF_vars(RefreshNode)
  /\ \A r \in Requests : SF_vars(GetClient(r)) /\ WF_vars(Return(r))

-----------------------------------------------------------------------------
(* Whatever is added, removed and refreshed in whatever order: a request   *)
(* that the ring sends to a node finds a client for it, and an open one.   *)
(* Only a node whose address on the ring cannot be parsed may be without   *)
(* (membership.go:35, :142).                                               *)
ForwardFindsClient ==
  Unlocked /\ ~closed =>
    \A m \in Members \ {Local} : address[m] \in Dialable => clients[m] \in open

(* A refresh, RemoveNode or Close may close the client under a request     *)
(* that has it in hand (membership.go:142).  The next GetClient for the    *)
(* node then gives another one or none, never the closed one again; only a *)
(* node whose address on the ring cannot be parsed keeps a closed client.  *)
ClosedClientIsGone ==
  \A r \in Requests :
    held[r] # NoConn /\ held[r] = clients[target[r]] /\ held[r] \notin open =>
      address[target[r]] \notin Dialable

(* A connection is closed when the service lets go of it, so that refreshes *)
(* every 30 s do not pile them up.  AddNode of a node that has one already *)
(* is the exception (membership.go:44).                                    *)
NothingLeaks ==
  [][\A m \in Nodes :
       clients'[m] # clients[m] /\ clients[m] \in open' =>
         \E a \in Dialable : AddNode(m, a)]_vars

(* A request is never stuck: the lock is released on every path out of     *)
(* RefreshClients, also when it gives up in the middle.                    *)
RequestsReturn ==
  \A r \in Requests : target[r] # Local ~> target[r] = Local
=============================================================================
