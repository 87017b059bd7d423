------------------------ MODULE ShardedServerProofs ------------------------
(***************************************************************************)
(* What is proved of ShardedServer, for every set of nodes, keys, values   *)
(* and writes, and for every assignment of peers and hashes: the servers   *)
(* use their Raft group as RaftGroup allows, only nodes whose points       *)
(* collide send a request to and fro, what a client is told is true, and   *)
(* where the nodes agree on the target of a key its reads are fresh.       *)
(***************************************************************************)
EXTENDS ShardedServer, RaftGroupProofs, FiniteSetTheorems

Writes == {r \in requests : r.op = "write"}

(* An entry with this id is committed or may be. *)
Traced(id) == \E e \in proposed \cup CommittedEntries : e.id = id

-----------------------------------------------------------------------------
(* The parts of the inductive invariant. *)
OnOwnRing == \A n \in Nodes : n \in view[n]

(* Only writes have an id, and only they wait for raft. *)
Proper(r) == (r.op = "write" => r.entry.id \in Ids) /\ (r.waiting => r.op = "write")

Properly == \A r \in requests : Proper(r)

(* Each hop is to another node, which is no farther from the key. *)
Onward(r, i, j) ==
  /\ rank[r.entry.key][r.path[j]] <= rank[r.entry.key][r.path[i]]
  /\ j = i + 1 => r.path[i] # r.path[j]

Descending ==
  \A r \in requests : \A i, j \in 1 .. Len(r.path) : i < j => Onward(r, i, j)

WaitingIsLocal == \A r \in Writes : r.waiting => IsLocal(r)

OneRequest == \A q, r \in Writes : q.entry.id = r.entry.id => q = r

NotYetProposed == \A r \in Writes : ~r.waiting => ~Traced(r.entry.id)

DistinctIds ==
  /\ \A d, e \in proposed : d.id = e.id => d = e
  /\ \A e \in proposed : \A i \in 1 .. Len(committed) : committed[i].id # e.id
  /\ \A i, j \in 1 .. Len(committed) : committed[i].id = committed[j].id => i = j

(* What was not sent, or was refused, is nowhere. *)
NoTrace ==
  \A id \in Ids : told[id] \in {"nothing", "refused"} =>
    ~Traced(id) /\ \A r \in Writes : r.entry.id # id

(* The only target of a key has been past every acknowledged write of it. *)
Acknowledged ==
  \A id \in Ids : told[id] = "ok" =>
    \E i \in 1 .. Len(committed) :
      /\ committed[i].id = id
      /\ \A n \in Nodes :
           Target(n, n, committed[i].key) /\ OneTarget(committed[i].key) => i <= reached[n]

AnswerInv ==
  /\ WaitingIsLocal
  /\ OneRequest
  /\ NotYetProposed
  /\ DistinctIds
  /\ NoTrace
  /\ Acknowledged

TypeInv == TypeOK /\ OnOwnRing /\ Properly

ServerInv == TypeInv /\ Descending /\ StoreFollows /\ AnswerInv

-----------------------------------------------------------------------------
(* Types. *)

(* The handler at the end of a path is on a node. *)
LEMMA AtType ==
  ASSUME NEW r \in Request, r.path # <<>>
  PROVE  /\ At(r) \in Nodes
         /\ Len(r.path) \in Nat \ {0}
         /\ r.path[Len(r.path)] = At(r)
         /\ \A i \in 1 .. Len(r.path) : r.path[i] \in Nodes
<1>1. r.path \in Seq(Nodes)
  BY DEF Request
<1>2. Len(r.path) \in Nat \ {0}
  BY <1>1
<1> QED BY <1>1, <1>2 DEF At

(* A request as a client or a read repair sends it. *)
LEMMA NewType ==
  ASSUME NEW op \in {"write", "get", "check"}, NEW id \in Ids \cup {None},
         NEW k \in Keys, NEW v \in Stored, NEW n \in Nodes, NEW r,
         r = [op |-> op, entry |-> [id |-> id, key |-> k, val |-> v],
              path |-> <<n>>, waiting |-> FALSE]
  PROVE  /\ r \in Request
         /\ r.op = op /\ r.entry.id = id /\ r.entry.key = k /\ r.entry.val = v
         /\ r.path = <<n>> /\ Len(r.path) = 1 /\ At(r) = n /\ ~r.waiting
<1>1. <<n>> \in Seq(Nodes) /\ Len(<<n>>) = 1 /\ <<n>>[1] = n
  OBVIOUS
<1> QED BY <1>1 DEF Request, At

(* The calls of ApplyLogEntry in progress are those of these requests. *)
CallsOf(rs) == {[node |-> At(r), entry |-> r.entry] : r \in {q \in rs : q.waiting}}

(* The state of the servers is well typed when the group is and the rest is. *)
LEMMA TypeParts ==
  ASSUME TypeInv, GroupTypeOK', UNCHANGED routing,
         requests' \subseteq Request, \A r \in requests' : r.path # <<>>,
         told' \in [Ids -> {"nothing", "ok", "refused", "failed", "waits"}],
         calls' = CallsOf(requests'),
         \A r \in requests' : Proper(r)
  PROVE  TypeInv'
<1>1. rank' = rank /\ view' = view
  BY DEF routing
<1>2. TypeOK'
  BY <1>1 DEF TypeInv, TypeOK, CallsOf, At
<1>3. OnOwnRing'
  BY <1>1 DEF TypeInv, OnOwnRing
<1> QED BY <1>2, <1>3 DEF TypeInv, Properly

(* The same with a group that does not move. *)
LEMMA TypePartsStill ==
  ASSUME TypeInv, UNCHANGED group, UNCHANGED routing,
         requests' \subseteq Request, \A r \in requests' : r.path # <<>>,
         told' \in [Ids -> {"nothing", "ok", "refused", "failed", "waits"}],
         CallsOf(requests') = CallsOf(requests),
         \A r \in requests' : Proper(r)
  PROVE  TypeInv'
<1>1. GroupTypeOK'
  BY DEF TypeInv, TypeOK, GroupTypeOK, group
<1>2. calls' = CallsOf(requests')
  BY DEF TypeInv, TypeOK, CallsOf, group
<1> QED BY <1>1, <1>2, TypeParts

(* A client sends a write. *)
LEMMA PutTypes ==
  ASSUME TypeInv, NEW id \in Ids, NEW n \in Nodes, NEW k \in Keys, NEW v \in Stored,
         Put(id, n, k, v)
  PROVE  TypeInv'
<1> DEFINE p == [op |-> "write", entry |-> [id |-> id, key |-> k, val |-> v],
                 path |-> <<n>>, waiting |-> FALSE]
<1>1. p \in Request /\ p.op = "write" /\ p.entry.id = id /\ p.path # <<>> /\ ~p.waiting
  BY NewType
<1>2. requests' = requests \cup {p} /\ UNCHANGED <<group, routing>>
  BY DEF Put
<1> HIDE DEF p
<1>3. told' \in [Ids -> {"nothing", "ok", "refused", "failed", "waits"}]
  BY DEF Put, TypeInv, TypeOK
<1>4. CallsOf(requests') = CallsOf(requests)
  BY <1>1, <1>2 DEF CallsOf
<1> QED BY <1>1, <1>2, <1>3, <1>4, TypePartsStill DEF TypeInv, TypeOK, Properly, Proper

(* A client sends a Get. *)
LEMMA GetTypes ==
  ASSUME TypeInv, NEW n \in Nodes, NEW k \in Keys, Get(n, k)
  PROVE  TypeInv'
<1> DEFINE p == Read("get", n, k)
<1>1. p \in Request /\ p.op = "get" /\ p.path # <<>> /\ ~p.waiting
  BY NewType DEF Read, Stored
<1>2. requests' = requests \cup {p} /\ UNCHANGED <<group, routing, told>>
  BY DEF Get
<1> HIDE DEF p
<1>3. CallsOf(requests') = CallsOf(requests)
  BY <1>1, <1>2 DEF CallsOf
<1> QED BY <1>1, <1>2, <1>3, TypePartsStill DEF TypeInv, TypeOK, Properly, Proper
(* What is known of a request in progress. *)
LEMMA RequestFacts ==
  ASSUME TypeInv, NEW r \in requests
  PROVE  /\ r \in Request /\ r.path # <<>>
         /\ At(r) \in Nodes
         /\ r.entry.key \in Keys
         /\ r.op = "write" => r.entry \in Entry
<1>1. r \in Request /\ r.path # <<>>
  BY DEF TypeInv, TypeOK
<1>2. r.entry \in [id : Ids \cup {None}, key : Keys, val : Stored]
  BY <1>1 DEF Request
<1>3. r.op = "write" => r.entry.id \in Ids
  BY DEF TypeInv, Properly, Proper
<1>4. r.entry = [id |-> r.entry.id, key |-> r.entry.key, val |-> r.entry.val]
      /\ r.entry.key \in Keys /\ r.entry.val \in Stored
  BY <1>2
<1>5. r.op = "write" => r.entry \in Entry
  BY <1>3, <1>4 DEF Entry
<1> QED BY <1>1, <1>4, <1>5, AtType

(* A request that goes on to another node is the same but for its path. *)
LEMMA HopType ==
  ASSUME NEW r \in Request, r.path # <<>>, NEW m \in Nodes, NEW q,
         q = [r EXCEPT !.path = Append(@, m)]
  PROVE  /\ q \in Request
         /\ q.op = r.op /\ q.entry = r.entry /\ q.waiting = r.waiting
         /\ q.path = Append(r.path, m)
         /\ q.path # <<>>
         /\ Len(q.path) = Len(r.path) + 1
         /\ At(q) = m
<1>1. r.path \in Seq(Nodes)
  BY DEF Request
<1>2. Append(r.path, m) \in Seq(Nodes) /\ Len(Append(r.path, m)) = Len(r.path) + 1
      /\ Append(r.path, m)[Len(r.path) + 1] = m /\ Append(r.path, m) # <<>>
  BY <1>1
<1> QED BY <1>2 DEF Request, At

(* A handler calls the next node. *)
LEMMA ForwardTypes ==
  ASSUME TypeInv, NEW r \in requests, Forward(r)
  PROVE  TypeInv'
<1>1. r \in Request /\ r.path # <<>> /\ ~r.waiting
  BY RequestFacts DEF Forward
<1>0. PICK m \in Nodes :
        requests' = (requests \ {r}) \cup {[r EXCEPT !.path = Append(@, m)]}
  BY DEF Forward
<1>2. PICK q : q = [r EXCEPT !.path = Append(@, m)] /\ requests' = (requests \ {r}) \cup {q}
  BY <1>0
<1>3. q \in Request /\ q.op = r.op /\ q.entry = r.entry /\ ~q.waiting /\ q.path # <<>>
  BY <1>1, <1>2, HopType
<1>4. UNCHANGED <<group, routing, told>>
  BY DEF Forward
<1>5. CallsOf(requests') = CallsOf(requests)
  BY <1>1, <1>2, <1>3 DEF CallsOf
<1> QED BY <1>2, <1>3, <1>4, <1>5, TypePartsStill DEF TypeInv, TypeOK, Properly, Proper

(* A handler that answers without the group. *)
LEMMA AnswerTypes ==
  ASSUME TypeInv, NEW r \in requests, ~r.waiting, UNCHANGED <<group, routing>>,
         NEW answer \in {"ok", "refused", "failed"}, Answer(r, answer)
  PROVE  TypeInv'
<1>1. requests' = requests \ {r}
  BY DEF Answer
<1>2. told' \in [Ids -> {"nothing", "ok", "refused", "failed", "waits"}]
  BY DEF Answer, Tell, TypeInv, TypeOK
<1>3. CallsOf(requests') = CallsOf(requests)
  BY <1>1 DEF CallsOf
<1> QED BY <1>1, <1>2, <1>3, TypePartsStill DEF TypeInv, TypeOK, Properly, Proper

(* A handler that begins to wait for raft is the same otherwise. *)
LEMMA WaitType ==
  ASSUME NEW r \in Request, r.path # <<>>, NEW q, q = [r EXCEPT !.waiting = TRUE]
  PROVE  /\ q \in Request
         /\ q.op = r.op /\ q.entry = r.entry /\ q.path = r.path
         /\ q.waiting /\ At(q) = At(r)
BY DEF Request, At

(* A handler begins to wait, and its call is in progress. *)
LEMMA ApplyLogEntryTypes ==
  ASSUME TypeInv, NEW r \in requests, ApplyLogEntry(r)
  PROVE  TypeInv'
<1>1. /\ r \in Request /\ r.path # <<>> /\ ~r.waiting /\ r.op = "write"
      /\ At(r) \in Nodes /\ r.entry \in Entry
  BY RequestFacts DEF ApplyLogEntry
<1>2. PICK q : q = [r EXCEPT !.waiting = TRUE] /\ requests' = (requests \ {r}) \cup {q}
  BY DEF ApplyLogEntry
<1>3. /\ q \in Request /\ q.op = r.op /\ q.entry = r.entry /\ q.path # <<>>
      /\ q.waiting /\ At(q) = At(r)
  BY <1>1, <1>2, WaitType
<1>4. UNCHANGED <<routing, told>> /\ Propose(At(r), r.entry)
  BY DEF ApplyLogEntry
<1>5. GroupTypeOK'
  BY <1>1, <1>4 DEF TypeInv, TypeOK, GroupTypeOK, Propose
<1>6. calls = CallsOf(requests)
  BY DEF TypeInv, TypeOK, CallsOf
<1>7. CallsOf(requests') = CallsOf(requests) \cup {[node |-> At(r), entry |-> r.entry]}
  BY <1>1, <1>2, <1>3 DEF CallsOf
<1>8. calls' = CallsOf(requests')
  BY <1>4, <1>6, <1>7 DEF Propose
<1> QED BY <1>1, <1>2, <1>3, <1>4, <1>5, <1>8, TypeParts DEF TypeInv, TypeOK, Properly, Proper

(* Each of the checks of a read repair is a new request. *)
LEMMA ServeGetTypes ==
  ASSUME TypeInv, NEW r \in requests, ServeGet(r)
  PROVE  TypeInv'
<1>1. /\ r.entry.key \in Keys /\ r.op # "write" /\ ~r.waiting
      /\ UNCHANGED <<group, routing, told>>
  BY RequestFacts DEF ServeGet, TypeInv, Properly, Proper
<1>2. PICK checks :
        /\ requests' = (requests \ {r}) \cup checks
        /\ \A q \in checks : \E m \in Nodes : q = Read("check", m, r.entry.key)
  <2>0. PICK replicas \in Replicas(At(r), r.entry.key) :
          \E ms \in SUBSET (replicas \ {At(r)}) :
            requests' = (requests \ {r}) \cup {Read("check", m, r.entry.key) : m \in ms}
    BY DEF ServeGet
  <2>1. PICK ms \in SUBSET (replicas \ {At(r)}) :
          requests' = (requests \ {r}) \cup {Read("check", m, r.entry.key) : m \in ms}
    BY <2>0
  <2>2. ms \subseteq Nodes
    BY RequestFacts DEF Replicas, TypeInv, TypeOK
  <2> DEFINE sent == {Read("check", m, r.entry.key) : m \in ms}
  <2>3. \A q \in sent : \E m \in Nodes : q = Read("check", m, r.entry.key)
    BY <2>2
  <2>4. requests' = (requests \ {r}) \cup sent
    BY <2>1
  <2> HIDE DEF sent
  <2> QED BY <2>3, <2>4
<1>3. ASSUME NEW q \in checks
      PROVE  q \in Request /\ q.op = "check" /\ q.path # <<>> /\ ~q.waiting
  <2>1. PICK m \in Nodes : q = Read("check", m, r.entry.key)
    BY <1>2
  <2> QED BY <1>1, <2>1, NewType DEF Read, Stored
<1>4. CallsOf(requests') = CallsOf(requests)
  BY <1>1, <1>2, <1>3 DEF CallsOf
<1> QED BY <1>1, <1>2, <1>3, <1>4, TypePartsStill DEF TypeInv, TypeOK, Properly, Proper

(* A client stops listening. *)
LEMMA GiveUpTypes ==
  ASSUME TypeInv, NEW id \in Ids, GiveUp(id)
  PROVE  TypeInv'
<1>1. told' \in [Ids -> {"nothing", "ok", "refused", "failed", "waits"}]
  BY DEF GiveUp, TypeInv, TypeOK
<1>2. requests' = requests /\ UNCHANGED <<group, routing>> /\ CallsOf(requests') = CallsOf(requests)
  BY DEF GiveUp
<1> QED BY <1>1, <1>2, TypePartsStill DEF TypeInv, TypeOK, Properly

(* Steps of the group that end calls end the handlers that wait for them. *)
LEMMA EndTypes ==
  ASSUME TypeInv, GroupTypeOK', NEW ended,
         NEW answer \in {"ok", "refused", "failed"}, End(ended, answer),
         calls' = CallsOf(requests \ ended)
  PROVE  TypeInv'
<1>1. told' \in [Ids -> {"nothing", "ok", "refused", "failed", "waits"}]
  BY DEF End, TypeInv, TypeOK
<1>2. requests' = requests \ ended /\ UNCHANGED routing
  BY DEF End
<1> QED BY <1>1, <1>2, TypeParts DEF TypeInv, TypeOK, Properly

(* The committed log grows. *)
LEMMA RaftCommitTypes ==
  ASSUME TypeInv, RaftCommit
  PROVE  TypeInv'
<1>1. GroupTypeOK'
  <2>1. PICK e \in proposed : committed' = Append(committed, e) /\ proposed' = proposed \ {e}
    BY DEF RaftCommit, Commit
  <2>2. e \in Entry /\ committed \in Seq(Entry)
    BY DEF TypeInv, TypeOK, GroupTypeOK
  <2>3. committed' \in Seq(Entry) /\ Len(committed') = Len(committed) + 1 /\ Len(committed) \in Nat
    BY <2>1, <2>2
  <2> QED BY <2>1, <2>3 DEF TypeInv, TypeOK, GroupTypeOK, RaftCommit, Commit
<1>2. calls' = CallsOf(requests') /\ UNCHANGED <<requests, told, routing>>
  BY DEF RaftCommit, Commit, TypeInv, TypeOK, CallsOf
<1> QED BY <1>1, <1>2, TypeParts DEF TypeInv, TypeOK, Properly

(* The call for the entry ends with its handler. *)
LEMMA RaftApplyTypes ==
  ASSUME TypeInv, NEW n \in Nodes, RaftApply(n)
  PROVE  TypeInv'
<1> DEFINE ended == {r \in requests : r.waiting /\ At(r) = n /\ r.entry = NextEntry(n)}
<1>1. GroupTypeOK'
  BY ApplyTypes DEF TypeInv, TypeOK, RaftApply
<1>2. calls' = calls \ {[node |-> n, entry |-> NextEntry(n)]} /\ calls = CallsOf(requests)
  BY DEF RaftApply, Apply, TypeInv, TypeOK, CallsOf
<1>3. calls' = CallsOf(requests \ ended)
  BY <1>2 DEF CallsOf
<1>4. \E answer \in {"ok", "refused", "failed"} : End(ended, answer)
  BY DEF RaftApply
<1> QED BY <1>1, <1>3, <1>4, EndTypes

(* The calls that a deposed leader fails end with their handlers. *)
LEMMA RaftElectTypes ==
  ASSUME TypeInv, NEW n \in Nodes, RaftElect(n)
  PROVE  TypeInv'
<1> DEFINE ended == {r \in requests : r.waiting /\ r.entry \notin CommittedEntries}
<1>1. GroupTypeOK'
  BY DEF TypeInv, TypeOK, GroupTypeOK, RaftElect, Elect
<1>2. calls' = {c \in calls : c.entry \in CommittedEntries} /\ calls = CallsOf(requests)
  BY DEF RaftElect, Elect, TypeInv, TypeOK, CallsOf
<1>3. calls' = CallsOf(requests \ ended)
  BY <1>2 DEF CallsOf
<1>4. End(ended, "failed")
  BY DEF RaftElect
<1> QED BY <1>1, <1>3, <1>4, EndTypes

(* Raft moves a node on; the servers do not notice. *)
LEMMA RaftRestoreTypes ==
  ASSUME TypeInv, NEW n \in Nodes, RaftRestore(n)
  PROVE  TypeInv'
<1>1. GroupTypeOK'
  BY DEF TypeInv, TypeOK, GroupTypeOK, RaftRestore, Restore
<1>2. calls' = CallsOf(requests') /\ UNCHANGED <<requests, told, routing>>
  BY DEF RaftRestore, Restore, TypeInv, TypeOK, CallsOf
<1> QED BY <1>1, <1>2, TypeParts DEF TypeInv, TypeOK, Properly

(* The calls on a node end with the handlers on it. *)
LEMMA RestartNodeTypes ==
  ASSUME TypeInv, NEW n \in Nodes, RestartNode(n)
  PROVE  TypeInv'
<1>1. GroupTypeOK'
  BY DEF TypeInv, TypeOK, GroupTypeOK, RestartNode, Restart
<1>2. calls' = {c \in calls : c.node # n} /\ calls = CallsOf(requests)
  BY DEF RestartNode, Restart, TypeInv, TypeOK, CallsOf
<1>3. requests' = {r \in requests : At(r) # n} /\ UNCHANGED routing
  BY DEF RestartNode
<1>4. calls' = CallsOf(requests')
  BY <1>2, <1>3 DEF CallsOf
<1>5. told' \in [Ids -> {"nothing", "ok", "refused", "failed", "waits"}]
  BY DEF RestartNode, TypeInv, TypeOK
<1> QED BY <1>1, <1>3, <1>4, <1>5, TypeParts DEF TypeInv, TypeOK, Properly

(* Nothing happens. *)
LEMMA StillTypes ==
  ASSUME TypeInv, UNCHANGED vars
  PROVE  TypeInv'
<1>1. UNCHANGED <<group, routing>> /\ requests' = requests /\ told' = told
  BY DEF vars
<1>2. CallsOf(requests') = CallsOf(requests)
  BY <1>1
<1> QED BY <1>1, <1>2, TypePartsStill DEF TypeInv, TypeOK, Properly

(* A handler does whatever it does next. *)
LEMMA HandleTypes ==
  ASSUME TypeInv, NEW r \in requests, Handle(r)
  PROVE  TypeInv'
<1>1. CASE ForwardFails(r)
  BY <1>1, AnswerTypes DEF ForwardFails
<1>2. CASE Refuse(r)
  BY <1>2, AnswerTypes DEF Refuse
<1> QED BY <1>1, <1>2, ForwardTypes, ApplyLogEntryTypes, ServeGetTypes DEF Handle

(* Nothing has been sent. *)
LEMMA InitTypes == Init => TypeInv
<1> SUFFICES ASSUME Init
             PROVE  TypeInv
  OBVIOUS
<1>1. GroupTypeOK
  BY GroupInitEstablishes DEF Init, GroupInv
<1>2. calls = {} /\ requests = {}
  BY DEF Init, GroupInit
<1>3. told \in [Ids -> {"nothing", "ok", "refused", "failed", "waits"}]
  BY DEF Init
<1>4. /\ rank \in [Keys -> [Nodes -> 1 .. Cardinality(Nodes)]]
      /\ view \in [Nodes -> SUBSET Nodes]
      /\ OnOwnRing
  BY DEF Init, OnOwnRing
<1> QED BY <1>1, <1>2, <1>3, <1>4 DEF TypeInv, TypeOK, Properly

(* Every step keeps the types. *)
LEMMA NextTypes ==
  ASSUME TypeInv, [Next]_vars
  PROVE  TypeInv'
<1>1. CASE Next
  <2>1. NoValue \in Stored /\ Values \subseteq Stored
    BY DEF Stored
  <2> QED BY <1>1, <2>1, PutTypes, GetTypes, HandleTypes, GiveUpTypes, RaftApplyTypes,
             RaftElectTypes, RaftRestoreTypes, RestartNodeTypes, RaftCommitTypes
          DEF Next, Delete
<1> QED BY <1>1, StillTypes
-----------------------------------------------------------------------------
(* The group. *)

(* Every step of the servers is one that the group allows, or none of its. *)
LEMMA StepsOfTheGroup ==
  ASSUME TypeInv, [Next]_vars
  PROVE  [GroupNext]_group
<1>1. ASSUME NEW r \in requests, Handle(r)
      PROVE  [GroupNext]_group
  <2>1. At(r) \in Nodes /\ (r.op = "write" => r.entry \in Entry)
    BY RequestFacts
  <2>2. CASE ApplyLogEntry(r)
    BY <2>1, <2>2 DEF ApplyLogEntry, GroupNext, Propose
  <2>3. CASE Forward(r) \/ ForwardFails(r) \/ Refuse(r) \/ ServeGet(r)
    BY <2>3 DEF Forward, ForwardFails, Refuse, ServeGet, group
  <2> QED BY <1>1, <2>2, <2>3 DEF Handle
<1>2. CASE RaftCommit
  BY <1>2 DEF RaftCommit, Commit, GroupNext
<1>3. ASSUME NEW n \in Nodes,
             RaftApply(n) \/ RaftElect(n) \/ RaftRestore(n) \/ RestartNode(n)
      PROVE  [GroupNext]_group
  <2>1. Apply(n) \/ Elect(n) \/ Restore(n) \/ Restart(n)
    BY <1>3 DEF RaftApply, RaftElect, RaftRestore, RestartNode
  <2> QED BY <2>1 DEF GroupNext
<1>4. ASSUME \/ \E id \in Ids, n \in Nodes, k \in Keys :
                  Delete(id, n, k) \/ \E v \in Values : Put(id, n, k, v)
             \/ \E n \in Nodes, k \in Keys : Get(n, k)
             \/ \E id \in Ids : GiveUp(id)
             \/ UNCHANGED vars
      PROVE  [GroupNext]_group
  BY <1>4 DEF Delete, Put, Get, GiveUp, group, vars
<1> QED BY <1>1, <1>2, <1>3, <1>4 DEF Next

-----------------------------------------------------------------------------
(* Paths. *)

(* A hop is to a node that is no farther. *)
LEMMA HopDescends ==
  ASSUME TypeInv, NEW m \in Nodes, NEW n \in Nodes, NEW k \in Keys, Target(m, n, k)
  PROVE  rank[k][m] <= rank[k][n]
BY DEF Target, Nearest, TypeInv, OnOwnRing

(* A request that has been nowhere, or nowhere else than before. *)
LEMMA DescendingParts ==
  ASSUME Descending, rank' = rank,
         \A q \in requests' :
           \/ Len(q.path) = 1
           \/ \E r \in requests : q.path = r.path /\ q.entry = r.entry
  PROVE  Descending'
<1> SUFFICES ASSUME NEW q \in requests', NEW i \in 1 .. Len(q.path), NEW j \in 1 .. Len(q.path),
                    i < j
             PROVE  Onward(q, i, j)'
  BY DEF Descending
<1>1. Len(q.path) # 1
  <2> SUFFICES ASSUME Len(q.path) = 1
               PROVE  FALSE
    OBVIOUS
  <2>1. i \in 1 .. 1 /\ j \in 1 .. 1
    OBVIOUS
  <2> QED BY <2>1
<1>2. PICK r \in requests : q.path = r.path /\ q.entry = r.entry
  BY <1>1
<1>3. Onward(r, i, j)
  BY <1>2 DEF Descending
<1> QED BY <1>2, <1>3 DEF Onward

(* The one step that makes a path longer. *)
LEMMA ForwardDescends ==
  ASSUME TypeInv, Descending, NEW r \in requests, Forward(r)
  PROVE  Descending'
<1>1. r \in Request /\ r.path # <<>> /\ At(r) \in Nodes /\ r.entry.key \in Keys
  BY RequestFacts
<1>0. PICK m \in Nodes \ {At(r)} :
        /\ Target(m, At(r), r.entry.key)
        /\ requests' = (requests \ {r}) \cup {[r EXCEPT !.path = Append(@, m)]}
  BY DEF Forward
<1>2. PICK q : q = [r EXCEPT !.path = Append(@, m)] /\ requests' = (requests \ {r}) \cup {q}
  BY <1>0
<1>3. q.entry = r.entry /\ q.path = Append(r.path, m) /\ Len(q.path) = Len(r.path) + 1
  BY <1>1, <1>2, HopType
<1>4. rank' = rank
  BY DEF Forward, routing
<1> DEFINE d == rank[r.entry.key]
<1>5. d[m] <= d[At(r)] /\ m # At(r)
  BY <1>0, <1>1, HopDescends
<1>6. /\ Len(r.path) \in Nat \ {0} /\ r.path[Len(r.path)] = At(r)
      /\ \A i \in 1 .. Len(r.path) : r.path[i] \in Nodes
      /\ \A i \in 1 .. Len(r.path) : q.path[i] = r.path[i]
      /\ q.path[Len(r.path) + 1] = m
  <2>1. r.path \in Seq(Nodes)
    BY <1>1 DEF Request
  <2> QED BY <1>1, <1>3, <2>1, AtType
<1>7. \A n \in Nodes : d[n] \in Int
  BY <1>1 DEF TypeInv, TypeOK
<1>8. \A i, j \in 1 .. Len(r.path) :
        i < j => d[r.path[j]] <= d[r.path[i]] /\ (j = i + 1 => r.path[i] # r.path[j])
  BY DEF Descending, Onward
<1> HIDE DEF d
<1>9. ASSUME NEW i \in 1 .. Len(q.path), NEW j \in 1 .. Len(q.path), i < j
      PROVE  d[q.path[j]] <= d[q.path[i]] /\ (j = i + 1 => q.path[i] # q.path[j])
  <2>1. CASE j <= Len(r.path)
    BY <1>3, <1>6, <1>8, <1>9, <2>1
  <2>2. CASE j = Len(r.path) + 1
    <3>1. i \in 1 .. Len(r.path) /\ q.path[i] = r.path[i] /\ q.path[j] = m
      BY <1>3, <1>6, <1>9, <2>2
    <3>2. d[At(r)] <= d[r.path[i]]
      BY <1>1, <1>6, <1>7, <1>8, <3>1
    <3>3. d[m] <= d[r.path[i]]
      BY <1>0, <1>1, <1>5, <1>6, <1>7, <3>1, <3>2
    <3>4. j = i + 1 => r.path[i] = At(r)
      BY <1>6, <2>2, <3>1
    <3> QED BY <1>5, <3>1, <3>3, <3>4
  <2> QED BY <1>3, <1>6, <2>1, <2>2
<1>10. ASSUME NEW p \in requests', NEW i \in 1 .. Len(p.path), NEW j \in 1 .. Len(p.path), i < j
       PROVE  Onward(p, i, j)
  <2>1. CASE p \in requests
    BY <1>10, <2>1 DEF Descending
  <2>2. CASE p = q
    BY <1>3, <1>9, <1>10, <2>2 DEF d, Onward
  <2> QED BY <1>2, <2>1, <2>2
<1> QED BY <1>4, <1>10 DEF Descending, Onward

(* What else a handler does leaves paths as they are. *)
LEMMA HandleDescends ==
  ASSUME TypeInv, Descending, NEW r \in requests, Handle(r)
  PROVE  Descending'
<1>1. CASE ForwardFails(r) \/ Refuse(r)
  <2>1. requests' \subseteq requests /\ rank' = rank
    BY <1>1 DEF ForwardFails, Refuse, Answer, routing
  <2> QED BY <2>1, DescendingParts
<1>2. CASE ApplyLogEntry(r)
  <2>1. PICK q : q = [r EXCEPT !.waiting = TRUE] /\ requests' = (requests \ {r}) \cup {q}
    BY <1>2 DEF ApplyLogEntry
  <2>2. q.path = r.path /\ q.entry = r.entry
    BY <2>1, WaitType, RequestFacts
  <2>3. rank' = rank
    BY <1>2 DEF ApplyLogEntry, routing
  <2> QED BY <2>1, <2>2, <2>3, DescendingParts
<1>3. CASE ServeGet(r)
  <2>1. \A q \in requests' : q \in requests \/ \E m : q = Read("check", m, r.entry.key)
    BY <1>3 DEF ServeGet
  <2>2. \A m : Len(Read("check", m, r.entry.key).path) = 1
    BY DEF Read
  <2>3. rank' = rank
    BY <1>3 DEF ServeGet, routing
  <2> QED BY <2>1, <2>2, <2>3, DescendingParts
<1> QED BY <1>1, <1>2, <1>3, ForwardDescends DEF Handle

(* Every step keeps paths descending. *)
LEMMA NextDescends ==
  ASSUME TypeInv, Descending, [Next]_vars
  PROVE  Descending'
<1>1. ASSUME NEW id \in Ids, NEW n \in Nodes, NEW k \in Keys, NEW v \in Stored, Put(id, n, k, v)
      PROVE  Descending'
  <2> DEFINE q == [op |-> "write", entry |-> [id |-> id, key |-> k, val |-> v],
                   path |-> <<n>>, waiting |-> FALSE]
  <2>1. requests' = requests \cup {q} /\ q.path = <<n>>
    BY <1>1 DEF Put
  <2> HIDE DEF q
  <2>2. rank' = rank
    BY <1>1 DEF Put, routing
  <2>3. Len(q.path) = 1
    BY <2>1
  <2> QED BY <2>1, <2>2, <2>3, DescendingParts
<1>2. ASSUME NEW n \in Nodes, NEW k \in Keys, Get(n, k)
      PROVE  Descending'
  <2>1. rank' = rank /\ requests' = requests \cup {Read("get", n, k)}
    BY <1>2 DEF Get, routing
  <2>2. Len(Read("get", n, k).path) = 1
    BY DEF Read
  <2> QED BY <2>1, <2>2, DescendingParts
<1>3. ASSUME \/ \E id \in Ids : GiveUp(id)
             \/ \E n \in Nodes :
                  RaftApply(n) \/ RaftElect(n) \/ RaftRestore(n) \/ RestartNode(n)
             \/ RaftCommit
             \/ UNCHANGED vars
      PROVE  Descending'
  <2>1. requests' \subseteq requests /\ rank' = rank
    BY <1>3 DEF GiveUp, RaftApply, RaftElect, RaftRestore, RestartNode, RaftCommit, End,
                vars, routing
  <2> QED BY <2>1, DescendingParts
<1>4. NoValue \in Stored /\ Values \subseteq Stored
  BY DEF Stored
<1> QED BY <1>1, <1>2, <1>3, <1>4, HandleDescends DEF Next, Delete

(* Between two visits of a node a request gets no nearer to its key. *)
LEMMA DescendingLoopsOnCollisions ==
  ASSUME TypeInv, Descending
  PROVE  OnlyCollisionsLoop
<1> SUFFICES ASSUME NEW r \in requests, NEW i \in 1 .. Len(r.path), NEW j \in 1 .. Len(r.path),
                    i < j, r.path[i] = r.path[j], NEW h \in i .. j - 1
             PROVE  Collide(r.entry.key, r.path[h], r.path[h + 1])
  BY DEF OnlyCollisionsLoop
<1> DEFINE d(g) == rank[r.entry.key][r.path[g]]
<1>1. /\ r.entry.key \in Keys
      /\ \A g \in 1 .. Len(r.path) : r.path[g] \in Nodes
      /\ Len(r.path) \in Nat
  BY RequestFacts, AtType
<1>2. /\ h \in 1 .. Len(r.path) /\ h + 1 \in 1 .. Len(r.path)
      /\ (i < h \/ i = h) /\ h < h + 1 /\ (h + 1 < j \/ h + 1 = j)
  BY <1>1
<1>3. d(h) \in Int /\ d(h + 1) \in Int /\ d(i) \in Int
  BY <1>1, <1>2 DEF TypeInv, TypeOK
<1>4. \A f, g \in 1 .. Len(r.path) : f < g => Onward(r, f, g)
  BY DEF Descending
<1>5. d(h + 1) <= d(h) /\ r.path[h] # r.path[h + 1]
  BY <1>2, <1>4 DEF Onward
<1>6. d(h) <= d(i)
  BY <1>2, <1>3, <1>4 DEF Onward
<1>7. d(j) <= d(h + 1)
  BY <1>2, <1>3, <1>4 DEF Onward
<1>8. d(j) = d(i)
  OBVIOUS
<1> HIDE DEF d
<1>9. d(h) = d(h + 1)
  BY <1>3, <1>5, <1>6, <1>7, <1>8
<1> QED BY <1>5, <1>9 DEF Collide, d
-----------------------------------------------------------------------------
(* Answers. *)

(* Rings do not change. *)
LEMMA RoutesStay ==
  ASSUME UNCHANGED routing
  PROVE  /\ \A m, n, k : Target(m, n, k)' <=> Target(m, n, k)
         /\ \A k : OneTarget(k)' <=> OneTarget(k)
         /\ \A r : IsLocal(r)' <=> IsLocal(r)
BY DEF routing, Target, Nearest, OneTarget, IsLocal

(* No entry is proposed or committed, and no handler of a write begins. *)
LEMMA FewerWrites ==
  ASSUME AnswerInv, UNCHANGED <<proposed, committed>>, UNCHANGED routing, Writes' \subseteq Writes
  PROVE  /\ WaitingIsLocal' /\ OneRequest' /\ NotYetProposed' /\ DistinctIds'
         /\ \A id : Traced(id)' <=> Traced(id)
<1>1. \A id : Traced(id)' <=> Traced(id)
  BY DEF Traced, CommittedEntries
<1>2. WaitingIsLocal' /\ OneRequest'
  BY RoutesStay DEF AnswerInv, WaitingIsLocal, OneRequest
<1>3. NotYetProposed'
  BY <1>1 DEF AnswerInv, NotYetProposed
<1>4. DistinctIds'
  BY DEF AnswerInv, DistinctIds
<1> QED BY <1>1, <1>2, <1>3, <1>4

(* Nobody hears of a success, and no node goes back. *)
LEMMA AcknowledgedStays ==
  ASSUME Acknowledged, UNCHANGED routing,
         \A id \in Ids : told'[id] = "ok" => told[id] = "ok",
         \A i \in 1 .. Len(committed) : i \in 1 .. Len(committed') /\ committed'[i] = committed[i],
         \A n \in Nodes : reached[n] \in Nat /\ reached'[n] \in Nat /\ reached[n] <= reached'[n]
  PROVE  Acknowledged'
<1> SUFFICES ASSUME NEW id \in Ids, told'[id] = "ok"
             PROVE  \E i \in 1 .. Len(committed') :
                      /\ committed'[i].id = id
                      /\ \A n \in Nodes :
                           (Target(n, n, committed[i].key) /\ OneTarget(committed[i].key))'
                             => i <= reached'[n]
  BY DEF Acknowledged
<1>1. PICK i \in 1 .. Len(committed) :
        /\ committed[i].id = id
        /\ \A n \in Nodes :
             Target(n, n, committed[i].key) /\ OneTarget(committed[i].key) => i <= reached[n]
  BY DEF Acknowledged
<1>2. i \in 1 .. Len(committed') /\ committed'[i] = committed[i] /\ i \in Int
  BY <1>1
<1>3. ASSUME NEW n \in Nodes, (Target(n, n, committed[i].key) /\ OneTarget(committed[i].key))'
      PROVE  i <= reached'[n]
  <2>1. Target(n, n, committed'[i].key) /\ OneTarget(committed'[i].key)
    BY <1>3, RoutesStay
  <2> QED BY <1>1, <1>2, <2>1
<1> QED BY <1>1, <1>2, <1>3

(* Steps that end requests and tell of no success and of no refusal. *)
LEMMA QuietStep ==
  ASSUME TypeInv, AnswerInv, UNCHANGED <<proposed, committed, reached>>, UNCHANGED routing,
         Writes' \subseteq Writes,
         \A id \in Ids : told'[id] = told[id] \/ told'[id] = "failed"
  PROVE  AnswerInv'
<1>1. /\ WaitingIsLocal' /\ OneRequest' /\ NotYetProposed' /\ DistinctIds'
      /\ \A id : Traced(id)' <=> Traced(id)
  BY FewerWrites
<1>2. NoTrace'
  BY <1>1 DEF AnswerInv, NoTrace
<1>3. Acknowledged'
  <2>1. \A n \in Nodes : reached[n] \in Nat /\ reached'[n] = reached[n]
    BY DEF TypeInv, TypeOK, GroupTypeOK
  <2> QED BY <2>1, AcknowledgedStays DEF AnswerInv
<1> QED BY <1>1, <1>2, <1>3 DEF AnswerInv

(* A write is sent once, under an id of its own. *)
LEMMA PutAnswers ==
  ASSUME TypeInv, AnswerInv, NEW id \in Ids, NEW n \in Nodes, NEW k \in Keys, NEW v \in Stored,
         Put(id, n, k, v)
  PROVE  AnswerInv'
<1>1. PICK p :
        /\ requests' = requests \cup {p}
        /\ p.op = "write" /\ p.entry.id = id /\ ~p.waiting
  <2> DEFINE q == [op |-> "write", entry |-> [id |-> id, key |-> k, val |-> v],
                   path |-> <<n>>, waiting |-> FALSE]
  <2>1. requests' = requests \cup {q} /\ q.op = "write" /\ q.entry.id = id /\ ~q.waiting
    BY DEF Put
  <2> HIDE DEF q
  <2> QED BY <2>1
<1>2. told[id] = "nothing" /\ told' = [told EXCEPT ![id] = "waits"] /\ UNCHANGED <<group, routing>>
  BY DEF Put
<1>3. ~Traced(id) /\ \A r \in Writes : r.entry.id # id
  BY <1>2 DEF AnswerInv, NoTrace
<1>4. Writes' = Writes \cup {p}
  BY <1>1 DEF Writes
<1>5. \A d : Traced(d)' <=> Traced(d)
  BY <1>2 DEF group, Traced, CommittedEntries
<1>6. WaitingIsLocal'
  BY <1>1, <1>2, <1>4, RoutesStay DEF AnswerInv, WaitingIsLocal
<1>7. OneRequest'
  BY <1>1, <1>3, <1>4 DEF AnswerInv, OneRequest
<1>8. NotYetProposed'
  BY <1>1, <1>3, <1>4, <1>5 DEF AnswerInv, NotYetProposed
<1>9. DistinctIds'
  BY <1>2 DEF AnswerInv, DistinctIds, group
<1>10. \A d \in Ids : told'[d] = IF d = id THEN "waits" ELSE told[d]
  BY <1>2 DEF TypeInv, TypeOK
<1>11. NoTrace'
  BY <1>1, <1>4, <1>5, <1>10 DEF AnswerInv, NoTrace
<1>12. Acknowledged'
  <2>1. \A m \in Nodes : reached[m] \in Nat /\ reached'[m] = reached[m]
    BY <1>2 DEF TypeInv, TypeOK, GroupTypeOK, group
  <2>2. committed' = committed
    BY <1>2 DEF group
  <2> QED BY <1>2, <1>10, <2>1, <2>2, AcknowledgedStays DEF AnswerInv
<1> QED BY <1>6, <1>7, <1>8, <1>9, <1>11, <1>12 DEF AnswerInv

(* A hop leaves entry and handler as they are. *)
LEMMA ForwardAnswers ==
  ASSUME TypeInv, AnswerInv, NEW r \in requests, Forward(r)
  PROVE  AnswerInv'
<1>1. r \in Request /\ r.path # <<>> /\ ~r.waiting
  BY RequestFacts DEF Forward
<1>0. PICK m \in Nodes :
        requests' = (requests \ {r}) \cup {[r EXCEPT !.path = Append(@, m)]}
  BY DEF Forward
<1>2. PICK q : q = [r EXCEPT !.path = Append(@, m)] /\ requests' = (requests \ {r}) \cup {q}
  BY <1>0
<1>3. q.op = r.op /\ q.entry = r.entry /\ ~q.waiting
  BY <1>1, <1>2, HopType
<1>4. UNCHANGED <<group, routing, told>>
  BY DEF Forward
<1>5. \A d : Traced(d)' <=> Traced(d)
  BY <1>4 DEF group, Traced, CommittedEntries
<1>6. \A p \in Writes' : p \in Writes \ {r} \/ (p = q /\ r \in Writes)
  <2>1. \A p \in Writes' : p \in requests' /\ p.op = "write"
    BY DEF Writes
  <2>2. \A p \in requests' : p \in requests \ {r} \/ p = q
    BY <1>2
  <2> QED BY <1>3, <2>1, <2>2 DEF Writes
<1>7. WaitingIsLocal'
  BY <1>3, <1>4, <1>6, RoutesStay DEF AnswerInv, WaitingIsLocal
<1>8. OneRequest'
  BY <1>3, <1>6 DEF AnswerInv, OneRequest
<1>9. NotYetProposed'
  BY <1>1, <1>3, <1>5, <1>6 DEF AnswerInv, NotYetProposed
<1>10. DistinctIds'
  BY <1>4 DEF AnswerInv, DistinctIds, group
<1>11. NoTrace'
  BY <1>3, <1>4, <1>5, <1>6 DEF AnswerInv, NoTrace
<1>12. Acknowledged'
  <2>1. \A n \in Nodes : reached[n] \in Nat /\ reached'[n] = reached[n]
    BY <1>4 DEF TypeInv, TypeOK, GroupTypeOK, group
  <2> QED BY <1>4, <2>1, AcknowledgedStays DEF AnswerInv, group
<1> QED BY <1>7, <1>8, <1>9, <1>10, <1>11, <1>12 DEF AnswerInv

(* A refused write has never been proposed, and no other handler has it. *)
LEMMA RefuseAnswers ==
  ASSUME TypeInv, AnswerInv, NEW r \in requests, Refuse(r)
  PROVE  AnswerInv'
<1>1. /\ r \in Writes /\ ~r.waiting
      /\ requests' = requests \ {r}
      /\ UNCHANGED <<group, routing>>
  BY DEF Refuse, Answer, Writes
<1>2. \A d \in Ids : told'[d] = told[d] \/ (told'[d] = "refused" /\ d = r.entry.id)
  BY <1>1 DEF Refuse, Answer, Tell, TypeInv, TypeOK
<1>3. Writes' = Writes \ {r}
  BY <1>1 DEF Writes
<1>4. UNCHANGED <<proposed, committed>>
  BY <1>1 DEF group
<1>5. /\ WaitingIsLocal' /\ OneRequest' /\ NotYetProposed' /\ DistinctIds'
      /\ \A id : Traced(id)' <=> Traced(id)
  BY <1>1, <1>3, <1>4, FewerWrites
<1>6. ~Traced(r.entry.id) /\ \A q \in Writes \ {r} : q.entry.id # r.entry.id
  BY <1>1 DEF AnswerInv, NotYetProposed, OneRequest
<1>7. NoTrace'
  BY <1>2, <1>3, <1>5, <1>6 DEF AnswerInv, NoTrace
<1>8. Acknowledged'
  <2>1. \A n \in Nodes : reached[n] \in Nat /\ reached'[n] = reached[n]
    BY <1>1 DEF TypeInv, TypeOK, GroupTypeOK, group
  <2> QED BY <1>1, <1>2, <1>4, <2>1, AcknowledgedStays DEF AnswerInv
<1> QED BY <1>5, <1>7, <1>8 DEF AnswerInv
(* The target of a key proposes a write, for the first time. *)
LEMMA ApplyLogEntryAnswers ==
  ASSUME TypeInv, AnswerInv, NEW r \in requests, ApplyLogEntry(r)
  PROVE  AnswerInv'
<1> DEFINE e == r.entry
<1>1. /\ r \in Writes /\ ~r.waiting /\ IsLocal(r)
      /\ r \in Request /\ r.path # <<>>
      /\ e.id \in Ids
  BY RequestFacts DEF ApplyLogEntry, Writes, TypeInv, Properly, Proper
<1>2. PICK q : q = [r EXCEPT !.waiting = TRUE] /\ requests' = (requests \ {r}) \cup {q}
  BY DEF ApplyLogEntry
<1>3. q.op = r.op /\ q.entry = e /\ q.waiting /\ At(q) = At(r)
  BY <1>1, <1>2, WaitType
<1>4. /\ proposed' = proposed \cup {e}
      /\ UNCHANGED <<committed, reached, routing, told>>
  BY DEF ApplyLogEntry, Propose
<1> HIDE DEF e
<1>5. \A d : Traced(d)' => Traced(d) \/ d = e.id
  BY <1>4 DEF Traced, CommittedEntries
<1>6. Writes' = (Writes \ {r}) \cup {q}
  BY <1>1, <1>2, <1>3 DEF Writes
<1>7. ~Traced(e.id) /\ \A p \in Writes \ {r} : p.entry.id # e.id
  BY <1>1 DEF AnswerInv, NotYetProposed, OneRequest, e
<1>8. WaitingIsLocal'
  <2>1. IsLocal(q)
    BY <1>1, <1>3 DEF IsLocal, e
  <2> QED BY <1>4, <1>6, <2>1, RoutesStay DEF AnswerInv, WaitingIsLocal
<1>9. OneRequest'
  BY <1>3, <1>6, <1>7 DEF AnswerInv, OneRequest
<1>10. NotYetProposed'
  BY <1>3, <1>5, <1>6, <1>7 DEF AnswerInv, NotYetProposed
<1>11. DistinctIds'
  <2>1. \A d \in proposed : d.id # e.id
    BY <1>7 DEF Traced
  <2>2. \A i \in 1 .. Len(committed) : committed[i].id # e.id
    BY <1>7 DEF Traced, CommittedEntries
  <2> QED BY <1>4, <2>1, <2>2 DEF AnswerInv, DistinctIds
<1>12. NoTrace'
  <2>1. told[e.id] \notin {"nothing", "refused"}
    BY <1>1 DEF AnswerInv, NoTrace, e
  <2> QED BY <1>3, <1>4, <1>5, <1>6, <2>1 DEF AnswerInv, NoTrace
<1>13. Acknowledged'
  <2>1. \A n \in Nodes : reached[n] \in Nat /\ reached'[n] = reached[n]
    BY <1>4 DEF TypeInv, TypeOK, GroupTypeOK
  <2> QED BY <1>4, <2>1, AcknowledgedStays DEF AnswerInv
<1> QED BY <1>8, <1>9, <1>10, <1>11, <1>12, <1>13 DEF AnswerInv

(* An entry moves from the proposed ones to the end of the committed ones. *)
LEMMA RaftCommitAnswers ==
  ASSUME TypeInv, AnswerInv, RaftCommit
  PROVE  AnswerInv'
<1>1. PICK e \in proposed : committed' = Append(committed, e) /\ proposed' = proposed \ {e}
  BY DEF RaftCommit, Commit
<1>2. UNCHANGED <<reached, routing, requests, told>>
  BY DEF RaftCommit, Commit
<1>3. committed \in Seq(Entry) /\ e \in Entry
  BY DEF TypeInv, TypeOK, GroupTypeOK
<1>4. /\ Len(committed) \in Nat
      /\ Len(committed') = Len(committed) + 1
      /\ \A i \in 1 .. Len(committed) : committed'[i] = committed[i]
      /\ committed'[Len(committed) + 1] = e
  BY <1>1, <1>3
<1>5. \A i \in 1 .. Len(committed') :
        \/ i \in 1 .. Len(committed) /\ committed'[i] = committed[i]
        \/ i = Len(committed) + 1 /\ committed'[i] = e
  BY <1>4
<1>6. \A d : Traced(d)' => Traced(d)
  BY <1>1, <1>5 DEF Traced, CommittedEntries
<1>7. Writes' = Writes
  BY <1>2 DEF Writes
<1>8. WaitingIsLocal' /\ OneRequest' /\ NotYetProposed' /\ NoTrace'
  BY <1>2, <1>6, <1>7, RoutesStay
     DEF AnswerInv, WaitingIsLocal, OneRequest, NotYetProposed, NoTrace
<1>9. DistinctIds'
  <2>1. \A d \in proposed' : d \in proposed /\ d.id # e.id
    BY <1>1 DEF AnswerInv, DistinctIds
  <2>2. \A i \in 1 .. Len(committed) : committed[i].id # e.id
    BY DEF AnswerInv, DistinctIds
  <2>3. \A d \in proposed' : \A i \in 1 .. Len(committed') : committed'[i].id # d.id
    BY <1>5, <2>1 DEF AnswerInv, DistinctIds
  <2>4. \A i, j \in 1 .. Len(committed') : committed'[i].id = committed'[j].id => i = j
    BY <1>5, <2>2 DEF AnswerInv, DistinctIds
  <2>5. \A c, d \in proposed' : c.id = d.id => c = d
    BY <2>1 DEF AnswerInv, DistinctIds
  <2> QED BY <2>3, <2>4, <2>5 DEF DistinctIds
<1>10. Acknowledged'
  <2>1. \A n \in Nodes : reached[n] \in Nat /\ reached'[n] = reached[n]
    BY <1>2 DEF TypeInv, TypeOK, GroupTypeOK
  <2>2. \A i \in 1 .. Len(committed) : i \in 1 .. Len(committed') /\ committed'[i] = committed[i]
    BY <1>4
  <2> QED BY <1>2, <2>1, <2>2, AcknowledgedStays DEF AnswerInv
<1> QED BY <1>8, <1>9, <1>10 DEF AnswerInv

(* A node that takes itself for the target of a key with one target is it. *)
LEMMA OneTargetIsIt ==
  ASSUME TypeInv, NEW k \in Keys, OneTarget(k),
         NEW m \in Nodes, Target(m, m, k), NEW n \in Nodes, Target(n, n, k)
  PROVE  m = n
BY DEF OneTarget

(* The call that waits for the entry waits on the target of its key. *)
LEMMA RaftApplyAnswers ==
  ASSUME TypeInv, AnswerInv, NEW n \in Nodes, RaftApply(n)
  PROVE  AnswerInv'
<1> DEFINE ended == {r \in requests : r.waiting /\ At(r) = n /\ r.entry = NextEntry(n)}
<1>1. PICK i \in Nat, e \in Entry :
        i = applied[n] + 1 /\ i \in 1 .. Len(committed) /\ e = NextEntry(n) /\ e = committed[i]
  <2>1. Apply(n) /\ GroupTypeOK
    BY DEF RaftApply, TypeInv, TypeOK
  <2>2. applied[n] + 1 \in Nat
    BY <2>1 DEF GroupTypeOK
  <2> QED BY <2>1, <2>2, ApplyTypes
<1>2. /\ UNCHANGED <<proposed, committed>>
      /\ reached' = [reached EXCEPT ![n] = IF i > @ THEN i ELSE @]
  BY <1>1 DEF RaftApply, Apply
<1>3. PICK answer \in {"ok", "failed"} : End(ended, answer)
  BY DEF RaftApply
<1>4. Writes' \subseteq Writes /\ UNCHANGED routing
  BY <1>3 DEF End, Writes
<1>5. /\ WaitingIsLocal' /\ OneRequest' /\ NotYetProposed' /\ DistinctIds'
      /\ \A id : Traced(id)' <=> Traced(id)
  BY <1>2, <1>4, FewerWrites
<1>6. \A id \in Ids :
        \/ told'[id] = told[id]
        \/ told'[id] = answer /\ \E r \in ended : r.entry.id = id
  BY <1>3 DEF End
<1>7. NoTrace'
  BY <1>3, <1>4, <1>5, <1>6 DEF AnswerInv, NoTrace
<1>8. \A m \in Nodes : /\ reached[m] \in Nat /\ reached'[m] \in Nat
                       /\ reached[m] <= reached'[m]
  BY <1>2 DEF TypeInv, TypeOK, GroupTypeOK
<1>9. i <= reached'[n]
  BY <1>2 DEF TypeInv, TypeOK, GroupTypeOK
<1>10. Acknowledged'
  <2> SUFFICES ASSUME NEW id \in Ids, told'[id] = "ok"
               PROVE  \E j \in 1 .. Len(committed) :
                        /\ committed[j].id = id
                        /\ \A m \in Nodes :
                             Target(m, m, committed[j].key) /\ OneTarget(committed[j].key)
                               => j <= reached'[m]
    BY <1>2, <1>4, RoutesStay DEF Acknowledged
  <2>1. CASE told[id] = "ok"
    <3>1. PICK j \in 1 .. Len(committed) :
            /\ committed[j].id = id
            /\ \A m \in Nodes :
                 Target(m, m, committed[j].key) /\ OneTarget(committed[j].key) => j <= reached[m]
      BY <2>1 DEF AnswerInv, Acknowledged
    <3> QED BY <1>8, <3>1
  <2>2. CASE told[id] # "ok"
    <3>1. PICK r \in ended : r.entry.id = id
      BY <1>6, <2>2
    <3>2. r \in Writes /\ r.waiting /\ At(r) = n /\ r.entry = e
      BY <1>1, <3>1 DEF Writes, TypeInv, Properly, Proper
    <3>3. e.key \in Keys /\ Target(n, n, e.key)
      BY <3>2 DEF AnswerInv, WaitingIsLocal, IsLocal, Entry
    <3>4. \A m \in Nodes : Target(m, m, e.key) /\ OneTarget(e.key) => m = n
      BY <3>3, OneTargetIsIt
    <3> QED BY <1>1, <1>9, <3>1, <3>2, <3>4
  <2> QED BY <2>1, <2>2
<1> QED BY <1>5, <1>7, <1>10 DEF AnswerInv
(* Raft moves a node on, and proposed entries may get lost. *)
LEMMA RaftRestoreAnswers ==
  ASSUME TypeInv, AnswerInv, NEW n \in Nodes, RaftRestore(n)
  PROVE  AnswerInv'
<1>1. proposed' \subseteq proposed /\ UNCHANGED <<committed, requests, told, routing>>
  BY DEF RaftRestore, Restore
<1>2. \A d : Traced(d)' => Traced(d)
  BY <1>1 DEF Traced, CommittedEntries
<1>3. Writes' = Writes
  BY <1>1 DEF Writes
<1>4. WaitingIsLocal' /\ OneRequest' /\ NotYetProposed' /\ NoTrace'
  BY <1>1, <1>2, <1>3, RoutesStay
     DEF AnswerInv, WaitingIsLocal, OneRequest, NotYetProposed, NoTrace
<1>5. DistinctIds'
  BY <1>1 DEF AnswerInv, DistinctIds
<1>6. Acknowledged'
  <2>1. \A m \in Nodes : /\ reached[m] \in Nat /\ reached'[m] \in Nat
                         /\ reached[m] <= reached'[m]
    BY DEF RaftRestore, Restore, TypeInv, TypeOK, GroupTypeOK
  <2> QED BY <1>1, <2>1, AcknowledgedStays DEF AnswerInv
<1> QED BY <1>4, <1>5, <1>6 DEF AnswerInv

(* What a handler answers is true. *)
LEMMA HandleAnswers ==
  ASSUME TypeInv, AnswerInv, NEW r \in requests, Handle(r)
  PROVE  AnswerInv'
<1>1. CASE ForwardFails(r)
  <2>1. requests' \subseteq requests /\ UNCHANGED <<group, routing>>
    BY <1>1 DEF ForwardFails, Answer
  <2>2. Writes' \subseteq Writes /\ UNCHANGED <<proposed, committed, reached>>
    BY <2>1 DEF Writes, group
  <2>3. \A id \in Ids : told'[id] = told[id] \/ told'[id] = "failed"
    BY <1>1 DEF ForwardFails, Answer, Tell, TypeInv, TypeOK
  <2> QED BY <2>1, <2>2, <2>3, QuietStep
<1>2. CASE ServeGet(r)
  <2>1. \A q \in requests' : q \in requests \/ \E m : q = Read("check", m, r.entry.key)
    BY <1>2 DEF ServeGet
  <2>2. \A m : Read("check", m, r.entry.key).op # "write"
    BY DEF Read
  <2>3. Writes' \subseteq Writes
    BY <2>1, <2>2 DEF Writes
  <2>4. UNCHANGED <<proposed, committed, reached, routing, told>>
    BY <1>2 DEF ServeGet, group
  <2> QED BY <2>3, <2>4, QuietStep
<1> QED BY <1>1, <1>2, ForwardAnswers, RefuseAnswers, ApplyLogEntryAnswers DEF Handle

(* Every step keeps the answers true. *)
LEMMA NextAnswers ==
  ASSUME TypeInv, AnswerInv, [Next]_vars
  PROVE  AnswerInv'
<1>1. ASSUME NEW n \in Nodes, NEW k \in Keys, Get(n, k)
      PROVE  AnswerInv'
  <2>1. requests' = requests \cup {Read("get", n, k)} /\ Read("get", n, k).op # "write"
    BY <1>1 DEF Get, Read
  <2>2. Writes' \subseteq Writes
    BY <2>1 DEF Writes
  <2>3. UNCHANGED <<proposed, committed, reached, routing, told>>
    BY <1>1 DEF Get, group
  <2> QED BY <2>2, <2>3, QuietStep
<1>2. ASSUME \/ \E id \in Ids : GiveUp(id)
             \/ \E n \in Nodes : RaftElect(n) \/ RestartNode(n)
             \/ UNCHANGED vars
      PROVE  AnswerInv'
  <2>1. UNCHANGED <<proposed, committed, reached, routing>> /\ requests' \subseteq requests
    BY <1>2 DEF GiveUp, RaftElect, Elect, End, RestartNode, Restart, vars, group
  <2>2. \A id \in Ids : told'[id] = told[id] \/ told'[id] = "failed"
    BY <1>2 DEF GiveUp, RaftElect, End, RestartNode, vars, TypeInv, TypeOK
  <2>3. Writes' \subseteq Writes
    BY <2>1 DEF Writes
  <2> QED BY <2>1, <2>2, <2>3, QuietStep
<1>3. NoValue \in Stored /\ Values \subseteq Stored
  BY DEF Stored
<1> QED BY <1>1, <1>2, <1>3, PutAnswers, HandleAnswers, RaftCommitAnswers, RaftApplyAnswers,
        RaftRestoreAnswers DEF Next, Delete

(* Distinct ids make a write that is committed be so once. *)
LEMMA AnswersAreHonest ==
  ASSUME TypeInv, AnswerInv
  PROVE  HonestAnswers
<1>1. ASSUME NEW id \in Ids, told[id] = "ok"
      PROVE  Cardinality(Written(id)) = 1
  <2>1. PICK i \in 1 .. Len(committed) : committed[i].id = id
    BY <1>1 DEF AnswerInv, Acknowledged
  <2>2. Written(id) = {i}
    BY <2>1 DEF Written, AnswerInv, DistinctIds
  <2> QED BY <2>2, FS_Singleton
<1>2. ASSUME NEW id \in Ids, told[id] = "refused"
      PROVE  Written(id) = {} /\ \A e \in proposed : e.id # id
  BY <1>2 DEF AnswerInv, NoTrace, Traced, Written, CommittedEntries
<1> QED BY <1>1, <1>2 DEF HonestAnswers

(* The last write that the target has been past is no older than one that  *)
(* was acknowledged.                                                       *)
LEMMA TargetIsFresh == ServerInv => FreshReads
<1> SUFFICES ASSUME ServerInv, NEW r \in requests, IsLocal(r), OneTarget(r.entry.key),
                    At(r) \notin restored, applied[At(r)] = reached[At(r)],
                    NEW id \in Ids, told[id] = "ok",
                    NEW i \in Written(id), committed[i].key = r.entry.key
             PROVE  \E j \in i .. Len(committed) :
                      /\ committed[j].key = r.entry.key
                      /\ committed[j].val = store[At(r)][r.entry.key]
  BY DEF FreshReads
<1> DEFINE n == At(r)
           k == r.entry.key
<1>1. n \in Nodes /\ k \in Keys
  BY RequestFacts DEF ServerInv
<1>2. /\ reached[n] \in Nat /\ reached[n] <= Len(committed) /\ Len(committed) \in Nat
      /\ applied[n] = reached[n]
  BY <1>1 DEF ServerInv, TypeInv, TypeOK, GroupTypeOK
<1>3. i \in 1 .. Len(committed) /\ committed[i].id = id
  BY DEF Written
<1>4. i <= reached[n]
  <2>1. PICK j \in 1 .. Len(committed) :
          /\ committed[j].id = id
          /\ \A m \in Nodes :
               Target(m, m, committed[j].key) /\ OneTarget(committed[j].key) => j <= reached[m]
    BY DEF ServerInv, AnswerInv, Acknowledged
  <2>2. j = i
    BY <1>3, <2>1 DEF ServerInv, AnswerInv, DistinctIds
  <2> QED BY <1>1, <2>1, <2>2 DEF IsLocal
<1>5. PICK w \in Nat : LastWrite(k, w, reached[n]) /\ (w <= applied[n] => store[n][k] = ValueOf(w))
  BY <1>1 DEF ServerInv, StoreFollows, Follows
<1>6. committed[i].key = k
  OBVIOUS
<1> HIDE DEF n, k
<1>7. i <= w /\ w <= reached[n] /\ w > 0
  BY <1>2, <1>3, <1>4, <1>5, <1>6 DEF LastWrite
<1>8. committed[w].key = k /\ committed[w].val = store[n][k]
  BY <1>2, <1>5, <1>7 DEF LastWrite, ValueOf
<1>9. w \in i .. Len(committed)
  BY <1>2, <1>3, <1>7
<1> QED BY <1>8, <1>9 DEF n, k

-----------------------------------------------------------------------------
(* The inductive invariant at the start. *)
LEMMA InitEstablishes == Init => ServerInv
<1> SUFFICES ASSUME Init
             PROVE  ServerInv
  OBVIOUS
<1>1. TypeInv
  BY InitTypes
<1>2. StoreFollows
  BY GroupInitEstablishes DEF Init, GroupInv
<1>3. requests = {} /\ proposed = {} /\ committed = <<>>
  BY DEF Init, GroupInit
<1>4. \A id \in Ids : told[id] = "nothing"
  BY DEF Init
<1>5. Descending /\ WaitingIsLocal /\ OneRequest /\ NotYetProposed /\ NoTrace /\ DistinctIds
  BY <1>3 DEF Descending, Writes, WaitingIsLocal, OneRequest, NotYetProposed, NoTrace,
              DistinctIds, Traced, CommittedEntries
<1>6. Acknowledged
  BY <1>4 DEF Acknowledged
<1> QED BY <1>1, <1>2, <1>5, <1>6 DEF ServerInv, AnswerInv

(* The inductive invariant in every step. *)
LEMMA NextKeeps ==
  ASSUME ServerInv, [Next]_vars
  PROVE  ServerInv'
<1>1. TypeInv /\ GroupInv
  BY DEF ServerInv, TypeInv, TypeOK, GroupInv
<1>2. TypeInv' /\ Descending' /\ AnswerInv'
  BY NextTypes, NextDescends, NextAnswers DEF ServerInv
<1>3. [GroupNext]_group
  BY <1>1, StepsOfTheGroup
<1>4. GroupInv'
  BY <1>1, <1>3, StepKeeps
<1> QED BY <1>2, <1>3, <1>4 DEF ServerInv, GroupInv

(* The inductive invariant holds for every cluster. *)
THEOREM ServerInductive == Spec => []ServerInv
<1> QED BY InitEstablishes, NextKeeps, PTL DEF Spec

(* The servers' state has its types; a call of ApplyLogEntry has its       *)
(* handler (sharded_server.go:78).                                         *)
THEOREM ServerTypeCorrect == Spec => []TypeOK
<1>1. ServerInv => TypeOK
  BY DEF ServerInv, TypeInv
<1> QED BY <1>1, ServerInductive, PTL

(* The servers do to their Raft group only what RaftGroup allows. *)
THEOREM ServersUseTheGroup == Spec => GroupSpec
<1>1. Init => GroupInit
  BY DEF Init
<1>2. ServerInv /\ [Next]_vars => [GroupNext]_group
  BY StepsOfTheGroup DEF ServerInv
<1> QED BY <1>1, <1>2, ServerInductive, PTL DEF Spec, GroupSpec

(* So the stores of the nodes converge, whatever the servers do. *)
THEOREM StoresConverge == Spec => []Converges
BY ServersUseTheGroup, GroupConverges, PTL

(* However the -peers lists (main.go:66) disagree and points collide, a    *)
(* request comes back to a node only by hops between nodes whose points    *)
(* collide (ring.go:121).                                                  *)
THEOREM LoopsAreCollisions == Spec => []OnlyCollisionsLoop
<1>1. ServerInv => OnlyCollisionsLoop
  BY DescendingLoopsOnCollisions DEF ServerInv
<1> QED BY <1>1, ServerInductive, PTL

(* A success is told of a write that is committed once, a refusal of one   *)
(* that is nowhere (sharded_server.go:63-91).                              *)
THEOREM AnswersAreTrue == Spec => []HonestAnswers
<1>1. ServerInv => HonestAnswers
  BY AnswersAreHonest DEF ServerInv
<1> QED BY <1>1, ServerInductive, PTL

(* Local reads (sharded_server.go:117) of a key whose target all nodes     *)
(* agree on return nothing older than what was acknowledged, on a node     *)
(* that has applied again what it had and that no snapshot has moved on.   *)
THEOREM ReadsAreFresh == Spec => []FreshReads
<1>1. ServerInv => FreshReads
  BY TargetIsFresh
<1> QED BY <1>1, ServerInductive, PTL

=============================================================================
