-------------------------- MODULE ReplicationProofs --------------------------
(***************************************************************************)
(* Proofs about Replication: whatever elections, crashes, snapshots and    *)
(* new voters there are, what is committed stays committed, stores become  *)
(* what it says, callers are told of their own entries, and the nodes      *)
(* together implement RaftGroup.                                           *)
(***************************************************************************)
EXTENDS ReplicationInvariant, FiniteSetTheorems, SequenceTheorems, TLAPS

(* What the proofs use of the types. *)
LEMMA Types ==
  ASSUME TypeOK
  PROVE  /\ \A n \in Nodes :
              /\ log[n] \in Seq(LogEntry) /\ Len(log[n]) \in Nat
              /\ last[n] \in Nat /\ applied[n] \in Nat
              /\ reached[n] \in Nat /\ snapshot[n] \in Nat
         /\ Len(committed) \in Nat /\ term \in Nat
         /\ IsFiniteSet(members)
         /\ leader # None => leader \in Nodes
<1>1. \A n \in Nodes : log[n] \in Seq(LogEntry) /\ Len(log[n]) \in Nat
  BY LenProperties DEF TypeOK
<1>2. Len(committed) \in Nat
  BY LenProperties DEF TypeOK
<1>3. IsFiniteSet(members)
  BY FS_Subset, NodeAssumption DEF TypeOK
<1> QED BY <1>1, <1>2, <1>3, RaftAssumption DEF TypeOK

(* The leader appends one entry. *)
LEMMA CallExtends ==
  ASSUME TypeOK, LeaderInv, NEW n \in Nodes, NEW k \in Keys, NEW v \in Stored,
         ApplyLogEntry(n, k, v)
  PROVE  /\ leader # None /\ n = leader
         /\ [term |-> term, key |-> k, val |-> v] \in LogEntry
         /\ log' \in [Nodes -> Seq(LogEntry)]
         /\ Len(log'[n]) = Len(log[n]) + 1
         /\ \A i \in 1 .. Len(log[n]) : log'[n][i] = log[n][i]
         /\ log'[n][Len(log[n]) + 1] = [term |-> term, key |-> k, val |-> v]
         /\ \A m \in Nodes \ {n} : log'[m] = log[m]
<1> DEFINE e == [term |-> term, key |-> k, val |-> v]
<1>1. leader # None /\ n = leader
  BY NodeAssumption DEF ApplyLogEntry
<1>2. e \in LogEntry
  BY <1>1, RaftAssumption DEF LogEntry, LeaderInv, TypeOK
<1>3. log'[n] = Append(log[n], e) /\ \A m \in Nodes \ {n} : log'[m] = log[m]
  BY DEF ApplyLogEntry, TypeOK
<1>4. log[n] \in Seq(LogEntry)
  BY DEF TypeOK
<1> HIDE DEF e
<1>5. /\ Append(log[n], e) \in Seq(LogEntry)
      /\ Len(Append(log[n], e)) = Len(log[n]) + 1
      /\ \A i \in 1 .. Len(log[n]) : Append(log[n], e)[i] = log[n][i]
      /\ Append(log[n], e)[Len(log[n]) + 1] = e
  BY <1>2, <1>4, AppendProperties
<1>6. log' \in [Nodes -> Seq(LogEntry)]
  <2>1. log' = [log EXCEPT ![n] = Append(log[n], e)]
    BY DEF ApplyLogEntry, TypeOK, e
  <2> QED BY <1>5, <2>1 DEF TypeOK
<1> QED BY <1>1, <1>2, <1>3, <1>5, <1>6 DEF e

(* Commit adds to the committed entries the next one of the leader's log. *)
LEMMA CommitExtends ==
  ASSUME TypeOK, LeaderInv, Commit
  PROVE  /\ leader \in Nodes
         /\ committed' \in Seq(LogEntry)
         /\ Len(committed') = Len(committed) + 1
         /\ Len(committed') <= Len(log[leader])
         /\ \A i \in 1 .. Len(committed') : committed'[i] = log[leader][i]
         /\ \A i \in 1 .. Len(committed) : committed'[i] = committed[i]
<1> DEFINE c == Len(committed) + 1
<1>1. /\ leader # None /\ leader \in Nodes
      /\ log[leader] \in Seq(LogEntry) /\ Len(log[leader]) \in Nat
      /\ c \in Nat /\ c <= Len(log[leader]) /\ Len(committed) \in Nat
      /\ committed' = SubSeq(log[leader], 1, c)
  BY Types DEF Commit
<1> HIDE DEF c
<1>2. \A i \in 1 .. c : log[leader][i] \in LogEntry
  BY <1>1, ElementOfSeq
<1>3. /\ committed' \in Seq(LogEntry)
      /\ Len(committed') = IF 1 <= c THEN c - 1 + 1 ELSE 0
      /\ \A i \in 1 .. c - 1 + 1 : committed'[i] = log[leader][1 + i - 1]
  BY <1>1, <1>2, SubSeqProperties
<1>4. Len(committed') = c /\ \A i \in 1 .. c : committed'[i] = log[leader][i]
  BY <1>1, <1>3 DEF c
<1>5. \A i \in 1 .. Len(committed) : committed'[i] = committed[i]
  BY <1>1, <1>4 DEF LeaderInv, Complete, c
<1> QED BY <1>1, <1>3, <1>4, <1>5 DEF c

(* Every step keeps every variable in its type. *)
LEMMA TypeStep ==
  ASSUME TypeOK, LeaderInv, [Next]_vars
  PROVE  TypeOK'
<1>0. /\ \A n \in Nodes : Len(log[n]) + 1 \in Nat /\ applied[n] + 1 \in Nat
      /\ Len(committed) \in Nat
  BY Types
<1> USE DEF TypeOK, consensus, titan, history
<1>1. ASSUME NEW n \in Nodes, NEW bootstrap \in BOOLEAN, NewNode(n, bootstrap)
      PROVE  TypeOK'
  BY <1>1 DEF NewNode
<1>2. ASSUME NEW n \in Nodes, JoinCluster(n)
      PROVE  TypeOK'
  BY <1>2 DEF JoinCluster
<1>3. ASSUME NEW n \in Nodes, Kill(n)
      PROVE  TypeOK'
  BY <1>3 DEF Kill
<1>4. ASSUME NEW n \in Nodes, Elect(n)
      PROVE  TypeOK'
  BY <1>4, RaftAssumption DEF Elect
<1>5. ASSUME NEW n \in Nodes, Replicate(n)
      PROVE  TypeOK'
  BY <1>5, Types, RaftAssumption DEF Replicate
<1>6. ASSUME NEW n \in Nodes, InstallSnapshot(n)
      PROVE  TypeOK'
  <2>1. leader \in Nodes /\ log[leader] \in Seq(LogEntry) /\ snapshot[leader] \in Nat
    BY <1>6, Types DEF InstallSnapshot
  <2>2. log' \in [Nodes -> Seq(LogEntry)] /\ last' \in [Nodes -> 0 .. MaxTerm]
    BY <1>6, <2>1 DEF InstallSnapshot
  <2>3. /\ snapshot' \in [Nodes -> Nat] /\ applied' \in [Nodes -> Nat]
        /\ reached' \in [Nodes -> Nat] /\ restored' \subseteq Nodes
    BY <1>6, <2>1 DEF InstallSnapshot
  <2> QED BY <1>6, <2>2, <2>3 DEF InstallSnapshot
<1>7. ASSUME NEW n \in Nodes, Snapshot(n)
      PROVE  TypeOK'
  BY <1>7 DEF Snapshot
<1>8. ASSUME NEW n \in Nodes, Apply(n)
      PROVE  TypeOK'
  <2>1. applied[n] + 1 \in Nat /\ applied[n] + 1 \in 1 .. Len(committed)
    BY <1>0, <1>8 DEF Apply, Applicable
  <2>2. committed[applied[n] + 1] \in LogEntry
    BY <2>1, ElementOfSeq
  <2> DEFINE e == committed[applied[n] + 1]
  <2>3. e.key \in Keys /\ e.val \in Stored
    BY ONLY <2>2 DEF LogEntry
  <2>4. store' = [store EXCEPT ![n][e.key] = e.val]
    BY <1>8 DEF Apply
  <2> HIDE DEF e
  <2>5. store' \in [Nodes -> [Keys -> Stored]]
    BY <2>3, <2>4
  <2> QED BY <1>8, <2>1, <2>5 DEF Apply
<1>9. ASSUME NEW n \in Nodes, NEW k \in Keys, NEW v \in Stored, ApplyLogEntry(n, k, v)
      PROVE  TypeOK'
  <2>1. log' \in [Nodes -> Seq(LogEntry)]
    BY <1>9, CallExtends
  <2>2. waiting' \subseteq [node : Nodes, index : Nat]
    BY <1>0, <1>9 DEF ApplyLogEntry
  <2> QED BY <1>9, <2>1, <2>2 DEF ApplyLogEntry
<1>10. CASE Commit
  BY <1>10, CommitExtends DEF Commit
<1>11. CASE UNCHANGED vars
  BY <1>11 DEF vars
<1> QED BY <1>1, <1>2, <1>3, <1>4, <1>5, <1>6, <1>7, <1>8, <1>9, <1>10, <1>11
        DEF Next, Put, Delete, Stored

-----------------------------------------------------------------------------
(* A majority of the voters has one of Guards among it. *)
LEMMA MajoritiesMeetGuards ==
  ASSUME TypeOK, ElectionsAreSafe, NEW Q, Majority(Q)
  PROVE  \E m \in Q : m \in Guards
<1>1. IsFiniteSet(members) /\ Q \subseteq members /\ Guards \subseteq members
  BY Types DEF Majority, Guards
<1>2. /\ Cardinality(members) \in Nat
      /\ Cardinality(Q) \in Nat /\ Cardinality(Guards) \in Nat
  BY <1>1, FS_Subset, FS_CardinalityType
<1>3. Cardinality(Q) + Cardinality(Guards) > Cardinality(members)
  BY <1>2 DEF Majority, ElectionsAreSafe
<1>4. Q \cap Guards # {}
  BY <1>1, <1>3, FS_MajoritiesIntersect
<1> QED BY <1>4

(* More guards among the same voters are still at least one half. *)
LEMMA MoreGuards ==
  ASSUME TypeOK, members' = members, ElectionsAreSafe, Guards \subseteq Guards'
  PROVE  ElectionsAreSafe'
<1>1. IsFiniteSet(members) /\ Guards' \subseteq members
  BY Types DEF Guards
<1>2. IsFiniteSet(Guards') /\ Cardinality(Guards') \in Nat
  BY <1>1, FS_Subset, FS_CardinalityType
<1>3. Cardinality(Guards) <= Cardinality(Guards') /\ Cardinality(Guards) \in Nat
  BY <1>2, FS_Subset, FS_CardinalityType
<1>4. Cardinality(members) \in Nat
  BY <1>1, FS_CardinalityType
<1> QED BY <1>2, <1>3, <1>4 DEF ElectionsAreSafe

(* A log that is up to date with a holder of the first c entries of the    *)
(* leader holds them too.                                                  *)
LEMMA HoldersGuard ==
  ASSUME TypeOK, LeaderInv, LogsMatch, leader # None,
         NEW c \in Nat, NEW h \in Nodes, NEW q \in Nodes,
         last[h] = term, Len(log[h]) >= c, UpToDate(q, h)
  PROVE  c <= Len(log[q]) /\ \A i \in 1 .. c : log[q][i] = log[leader][i]
<1>1. leader \in Nodes /\ last[q] \in Nat /\ term \in Nat
      /\ Len(log[q]) \in Nat /\ Len(log[h]) \in Nat /\ Len(log[leader]) \in Nat
  BY Types
<1>2. last[q] <= term /\ last[leader] = term
  BY DEF LeaderInv
<1>3. last[q] = term /\ Len(log[q]) >= Len(log[h])
  BY <1>1, <1>2 DEF UpToDate
<1>4. Len(log[q]) <= Len(log[leader])
  BY <1>3 DEF LeaderInv
<1>5. \A i \in 1 .. Len(log[q]) : log[q][i] = log[leader][i]
  BY <1>1, <1>2, <1>3, <1>4 DEF LogsMatch
<1> QED BY <1>1, <1>3, <1>5

(* Elections are about what raft keeps, and nothing else. *)
LEMMA ConsensusSame ==
  ASSUME Elections, UNCHANGED consensus
  PROVE  Elections'
BY DEF Elections, consensus, LeaderInv, LogsMatch, ElectionsAreSafe, Guards, UpToDate, Complete

(* A node that wins an election has everything that is committed, for a    *)
(* guard has voted for it.                                                 *)
LEMMA ElectedIsComplete ==
  ASSUME TypeOK, Elections, NEW n \in Nodes, Elect(n)
  PROVE  Complete(n)
<1> DEFINE Q == {m \in up : m \in members /\ UpToDate(n, m)}
<1>1. Majority(Q)
  BY DEF Elect
<1>2. PICK m \in Q : m \in Guards
  BY <1>1, MajoritiesMeetGuards DEF Elections
<1> QED BY <1>2 DEF Guards

(* A node that wins holds what is committed, so its new term starts safely. *)
LEMMA ElectStep ==
  ASSUME TypeOK, Elections, NEW n \in Nodes, Elect(n)
  PROVE  Elections'
<1>1. /\ n \in members /\ members' = members /\ term' = term + 1 /\ leader' = n
      /\ last' = [last EXCEPT ![n] = term + 1] /\ log' = log /\ committed' = committed
  BY DEF Elect
<1>2. /\ last'[n] = term + 1
      /\ \A m \in Nodes \ {n} : last'[m] = last[m]
      /\ \A m \in Nodes : last[m] <= term /\ last[m] \in Nat /\ Len(log[m]) \in Nat
      /\ term \in Nat
  BY <1>1, Types DEF TypeOK, Elections, LeaderInv
<1>3. \A m \in Nodes : Complete(m)' <=> Complete(m)
  BY <1>1 DEF Complete
<1>4. LeaderInv'
  <2>1. \A m \in Nodes : last'[m] <= term'
    BY <1>1, <1>2
  <2>2. \A m \in Nodes : last'[m] = term' => m = n
    BY <1>1, <1>2
  <2>3. members' # {} /\ leader' \in members' /\ term' > 0 /\ last'[leader'] = term'
    BY <1>1, <1>2
  <2>4. Complete(n)'
    BY <1>3, ElectedIsComplete
  <2> QED BY <1>1, <1>2, <2>1, <2>2, <2>3, <2>4 DEF LeaderInv
<1>5. LogsMatch'
  <2> SUFFICES ASSUME NEW m \in Nodes, NEW q \in Nodes, last'[m] = last'[q],
                      Len(log[m]) <= Len(log[q]), NEW i \in 1 .. Len(log[m])
               PROVE  log[m][i] = log[q][i]
    BY <1>1 DEF LogsMatch
  <2>1. m = q \/ last[m] = last[q]
    BY <1>2
  <2> QED BY <2>1 DEF Elections, LogsMatch
<1>6. Guards \subseteq Guards'
  <2> SUFFICES ASSUME NEW m \in Guards, NEW q \in Nodes, UpToDate(q, m)'
               PROVE  Complete(q)
    BY <1>1, <1>3 DEF Guards
  <2>1. m \in Nodes /\ (UpToDate(q, m) => Complete(q))
    BY DEF Guards, TypeOK
  <2>2. CASE q = n
    BY <2>2, ElectedIsComplete
  <2>3. CASE q # n
    <3>1. UpToDate(q, m)
      BY <1>1, <1>2, <2>1, <2>3 DEF UpToDate
    <3> QED BY <2>1, <3>1
  <2> QED BY <2>2, <2>3
<1> QED BY <1>1, <1>4, <1>5, <1>6, MoreGuards DEF Elections

(* A follower takes over the log of the leader. *)
LEMMA CopyStep ==
  ASSUME TypeOK, Elections, leader # None, NEW n \in Nodes,
         log' = [log EXCEPT ![n] = log[leader]], last' = [last EXCEPT ![n] = term],
         UNCHANGED <<members, term, leader, committed>>
  PROVE  Elections'
<1> DEFINE From(m) == IF m = n THEN leader ELSE m
<1>1. /\ leader \in Nodes /\ last[leader] = term /\ leader \in members
      /\ Complete(leader) /\ term > 0
      /\ \A m \in Nodes : last[m] <= term /\ last[m] \in Nat /\ Len(log[m]) \in Nat
      /\ term \in Nat /\ Len(committed) \in Nat
  BY Types DEF Elections, LeaderInv
<1>2. \A m \in Nodes : /\ From(m) \in Nodes
                       /\ log'[m] = log[From(m)]
                       /\ last'[m] = last[From(m)]
  BY <1>1 DEF TypeOK
<1>3. \A m \in Nodes : m # n => From(m) = m
  OBVIOUS
<1>4. From(n) = leader /\ From(leader) = leader
  OBVIOUS
<1> HIDE DEF From
<1>5. \A m \in Nodes : Complete(m)' <=> Complete(From(m))
  BY <1>2 DEF Complete
<1>6. \A m, q \in Nodes : UpToDate(q, m)' <=> UpToDate(From(q), From(m))
  BY <1>2 DEF UpToDate
<1>7. LeaderInv'
  <2>1. \A m \in Nodes : last'[m] <= term
    BY <1>1, <1>2
  <2>2. last'[leader] = term /\ Complete(leader)' /\ log'[leader] = log[leader]
    BY <1>1, <1>2, <1>4, <1>5
  <2>3. \A m \in Nodes : last'[m] = term => Len(log'[m]) <= Len(log'[leader])
    BY <1>1, <1>2, <2>2 DEF Elections, LeaderInv
  <2> QED BY <1>1, <2>1, <2>2, <2>3 DEF LeaderInv
<1>8. LogsMatch'
  <2> SUFFICES ASSUME NEW m \in Nodes, NEW q \in Nodes, last'[m] = last'[q],
                      Len(log'[m]) <= Len(log'[q]), NEW i \in 1 .. Len(log'[m])
               PROVE  log'[m][i] = log'[q][i]
    BY DEF LogsMatch
  <2>1. /\ From(m) \in Nodes /\ From(q) \in Nodes
        /\ last[From(m)] = last[From(q)]
        /\ Len(log[From(m)]) <= Len(log[From(q)]) /\ i \in 1 .. Len(log[From(m)])
    BY <1>2
  <2>2. log[From(m)][i] = log[From(q)][i]
    BY <2>1 DEF Elections, LogsMatch
  <2> QED BY <1>2, <2>2
<1>9. Guards \subseteq Guards'
  <2> SUFFICES ASSUME NEW m \in Guards, NEW q \in Nodes, UpToDate(From(q), From(m))
               PROVE  Complete(From(q))
    BY <1>5, <1>6 DEF Guards, TypeOK
  <2>1. m \in Nodes /\ From(q) \in Nodes
    BY <1>2 DEF Guards, TypeOK
  <2>2. CASE m = n
    <3>1. /\ Len(committed) <= Len(log[leader])
          /\ \A i \in 1 .. Len(committed) : log[leader][i] = committed[i]
      BY <1>1 DEF Complete
    <3>2. /\ Len(committed) <= Len(log[From(q)])
          /\ \A i \in 1 .. Len(committed) : log[From(q)][i] = log[leader][i]
      BY <1>1, <1>4, <2>1, <2>2, <3>1, HoldersGuard DEF Elections
    <3> QED BY <3>1, <3>2 DEF Complete
  <2>3. CASE m # n
    BY <1>3, <2>1, <2>3 DEF Guards
  <2> QED BY <2>2, <2>3
<1> QED BY <1>7, <1>8, <1>9, MoreGuards DEF Elections

(* A voter that a leader adds is one more against one guard more: all who  *)
(* hold what is committed are guards.                                      *)
LEMMA JoinStep ==
  ASSUME TypeOK, Elections, NEW n \in Nodes, JoinCluster(n)
  PROVE  Elections'
<1> DEFINE H == Holders(Len(committed))
<1>1. /\ leader # None /\ n \notin members /\ Majority(H) /\ members' = members \cup {n}
      /\ UNCHANGED <<term, leader, log, last, committed>>
  BY DEF JoinCluster
<1>2. LeaderInv' /\ LogsMatch'
  BY <1>1 DEF Elections, LeaderInv, LogsMatch, Complete
<1>3. H \subseteq Guards'
  <2> SUFFICES ASSUME NEW h \in H, NEW q \in Nodes, UpToDate(q, h)
               PROVE  Complete(q)
    BY <1>1 DEF Holders, Guards, UpToDate, Complete
  <2>1. /\ h \in Nodes /\ last[h] = term /\ Len(log[h]) >= Len(committed)
        /\ Len(committed) \in Nat
    BY Types DEF Holders, TypeOK
  <2>2. /\ Len(committed) <= Len(log[leader])
        /\ \A i \in 1 .. Len(committed) : log[leader][i] = committed[i]
    BY <1>1 DEF Elections, LeaderInv, Complete
  <2>3. /\ Len(committed) <= Len(log[q])
        /\ \A i \in 1 .. Len(committed) : log[q][i] = log[leader][i]
    BY <1>1, <2>1, HoldersGuard DEF Elections
  <2> QED BY <2>2, <2>3 DEF Complete
<1>4. IsFiniteSet(members) /\ H \subseteq members /\ Guards' \subseteq members'
  BY Types DEF Holders, Guards
<1>5. /\ IsFiniteSet(members') /\ Cardinality(members') = Cardinality(members) + 1
      /\ Cardinality(members) \in Nat
  BY <1>1, <1>4, FS_AddElement, FS_CardinalityType
<1>6. IsFiniteSet(Guards') /\ Cardinality(H) <= Cardinality(Guards')
  BY <1>3, <1>4, <1>5, FS_Subset
<1>7. Cardinality(H) \in Nat /\ Cardinality(Guards') \in Nat
  BY <1>4, <1>6, FS_Subset, FS_CardinalityType
<1>8. 2 * Cardinality(H) > Cardinality(members)
  BY <1>1 DEF Majority
<1>9. 2 * Cardinality(Guards') >= Cardinality(members')
  BY <1>5, <1>6, <1>7, <1>8
<1> QED BY <1>2, <1>9 DEF Elections, ElectionsAreSafe

(* A node that starts keeps what it had; the first voter is a guard of the *)
(* empty log.                                                              *)
LEMMA StartStep ==
  ASSUME TypeOK, Elections, NEW n \in Nodes, NEW bootstrap \in BOOLEAN, NewNode(n, bootstrap)
  PROVE  Elections'
<1>1. UNCHANGED <<term, leader, log, last, committed>>
  BY DEF NewNode
<1>2. CASE members' = members
  BY <1>1, <1>2, ConsensusSame DEF consensus
<1>3. CASE members' # members
  <2>1. members = {} /\ members' = {n}
    BY <1>3 DEF NewNode
  <2>2. committed = <<>> /\ leader = None
    BY <2>1 DEF Elections, LeaderInv
  <2>3. Guards' = {n}
    <3>1. \A m \in Nodes : Complete(m)'
      <4>1. Len(committed) = 0 /\ \A m \in Nodes : Len(log[m]) \in Nat
        BY <2>2, Types
      <4> QED BY <1>1, <4>1 DEF Complete
    <3> QED BY <2>1, <3>1 DEF Guards
  <2>4. ElectionsAreSafe'
    <3>1. Cardinality({n}) = 1
      BY FS_Singleton
    <3> QED BY <2>1, <2>3, <3>1 DEF ElectionsAreSafe
  <2>5. LeaderInv' /\ LogsMatch'
    BY <1>1, <2>1, <2>2 DEF Elections, LeaderInv, LogsMatch
  <2> QED BY <2>4, <2>5 DEF Elections
<1> QED BY <1>2, <1>3

(* A crash takes away the leader, and nothing that is on a disk. *)
LEMMA KillStep ==
  ASSUME Elections, NEW n \in Nodes, Kill(n)
  PROVE  Elections'
<1>1. UNCHANGED <<members, term, log, last, committed>> /\ leader' \in {leader, None}
  BY DEF Kill
<1> QED BY <1>1 DEF Elections, LeaderInv, LogsMatch, ElectionsAreSafe, Guards, UpToDate, Complete

(* An entry that a majority holds is held by whoever they vote for. *)
LEMMA CommitStep ==
  ASSUME TypeOK, Elections, Commit
  PROVE  Elections'
<1> DEFINE c == Len(committed) + 1
           H == Holders(c)
<1>1. /\ leader # None /\ Majority(H)
      /\ UNCHANGED <<members, term, leader, log, last>>
  BY DEF Commit
<1>2. /\ leader \in Nodes /\ leader \in members
      /\ Len(committed') = c /\ c <= Len(log[leader]) /\ c \in Nat
      /\ \A i \in 1 .. c : committed'[i] = log[leader][i]
  BY <1>1, CommitExtends, Types DEF Elections, LeaderInv
<1> HIDE DEF c
<1>3. Complete(leader)'
  BY <1>1, <1>2 DEF Complete
<1>4. LeaderInv' /\ LogsMatch'
  BY <1>1, <1>2, <1>3 DEF Elections, LeaderInv, LogsMatch
<1>5. H \subseteq Guards'
  <2> SUFFICES ASSUME NEW h \in H, NEW q \in Nodes, UpToDate(q, h)
               PROVE  c <= Len(log[q]) /\ \A i \in 1 .. c : log[q][i] = committed'[i]
    BY <1>1, <1>2 DEF Holders, Guards, UpToDate, Complete
  <2>1. h \in Nodes /\ last[h] = term /\ Len(log[h]) >= c
    BY DEF Holders, TypeOK
  <2>2. c <= Len(log[q]) /\ \A i \in 1 .. c : log[q][i] = log[leader][i]
    BY <1>1, <1>2, <2>1, HoldersGuard DEF Elections
  <2> QED BY <1>2, <2>2
<1>6. IsFiniteSet(members) /\ H \subseteq members /\ Guards' \subseteq members
  BY <1>1, Types DEF Holders, Guards
<1>7. IsFiniteSet(Guards') /\ Cardinality(H) <= Cardinality(Guards')
  BY <1>5, <1>6, FS_Subset
<1>8. /\ Cardinality(H) \in Nat /\ Cardinality(Guards') \in Nat
      /\ Cardinality(members) \in Nat
  BY <1>6, <1>7, FS_Subset, FS_CardinalityType
<1>9. 2 * Cardinality(H) > Cardinality(members)
  BY <1>1 DEF Majority
<1> QED BY <1>1, <1>4, <1>7, <1>8, <1>9 DEF Elections, ElectionsAreSafe

(* The log that grows is the longest one of its term. *)
LEMMA CallStep ==
  ASSUME TypeOK, Elections, NEW n \in Nodes, NEW k \in Keys, NEW v \in Stored,
         ApplyLogEntry(n, k, v)
  PROVE  Elections'
<1>1. /\ leader # None /\ n = leader
      /\ Len(log'[n]) = Len(log[n]) + 1
      /\ \A i \in 1 .. Len(log[n]) : log'[n][i] = log[n][i]
      /\ \A m \in Nodes \ {n} : log'[m] = log[m]
      /\ UNCHANGED <<members, term, leader, last, committed>>
  BY CallExtends DEF ApplyLogEntry, Elections
<1>2. /\ last[n] = term /\ leader \in members /\ term > 0 /\ Complete(n)
      /\ \A m \in Nodes : /\ last[m] <= term /\ last[m] \in Nat /\ Len(log[m]) \in Nat
                          /\ last[m] = term => Len(log[m]) <= Len(log[n])
      /\ term \in Nat /\ Len(committed) \in Nat
  BY <1>1, Types DEF Elections, LeaderInv
<1>3. Complete(n)'
  BY <1>1, <1>2 DEF Complete
<1>4. LeaderInv'
  <2>1. \A m \in Nodes : last[m] = term => Len(log'[m]) <= Len(log'[n])
    BY <1>1, <1>2
  <2> QED BY <1>1, <1>2, <1>3, <2>1 DEF LeaderInv
<1>5. LogsMatch'
  <2> SUFFICES ASSUME NEW m \in Nodes, NEW q \in Nodes, last[m] = last[q],
                      Len(log'[m]) <= Len(log'[q]), NEW i \in 1 .. Len(log'[m])
               PROVE  log'[m][i] = log'[q][i]
    BY <1>1 DEF LogsMatch
  <2>1. CASE m = q
    BY <2>1
  <2>2. CASE m = n /\ q # n
    BY <1>1, <1>2, <2>2
  <2>3. CASE m # n
    <3>1. Len(log[m]) <= Len(log[q]) /\ log'[m] = log[m]
      BY <1>1, <1>2, <2>3
    <3>2. log[m][i] = log[q][i] /\ i \in 1 .. Len(log[q])
      BY <1>2, <3>1 DEF Elections, LogsMatch
    <3> QED BY <1>1, <3>1, <3>2
  <2> QED BY <2>1, <2>2, <2>3
<1>6. Guards \subseteq Guards'
  <2> SUFFICES ASSUME NEW m \in Guards, NEW q \in Nodes, UpToDate(q, m)'
               PROVE  Complete(q)'
    BY <1>1 DEF Guards
  <2>1. m \in Nodes /\ (UpToDate(q, m) => Complete(q))
    BY DEF Guards, TypeOK
  <2>2. CASE q = n
    BY <1>3, <2>2
  <2>3. CASE q # n
    <3>1. UpToDate(q, m)
      BY <1>1, <1>2, <2>1, <2>3 DEF UpToDate
    <3> QED BY <1>1, <2>1, <2>3, <3>1 DEF Complete
  <2> QED BY <2>2, <2>3
<1> QED BY <1>1, <1>4, <1>5, <1>6, MoreGuards DEF Elections

(* Elections, replication and changes of the members keep one another      *)
(* safe.                                                                   *)
LEMMA ElectionsStep ==
  ASSUME TypeOK, Elections, [Next]_vars
  PROVE  Elections'
<1>1. ASSUME NEW n \in Nodes, NEW bootstrap \in BOOLEAN, NewNode(n, bootstrap)
      PROVE  Elections'
  BY <1>1, StartStep
<1>2. ASSUME NEW n \in Nodes, JoinCluster(n)
      PROVE  Elections'
  BY <1>2, JoinStep
<1>3. ASSUME NEW n \in Nodes, Kill(n)
      PROVE  Elections'
  BY <1>3, KillStep
<1>4. ASSUME NEW n \in Nodes, Elect(n)
      PROVE  Elections'
  BY <1>4, ElectStep
<1>5. ASSUME NEW n \in Nodes, Replicate(n) \/ InstallSnapshot(n)
      PROVE  Elections'
  BY <1>5, CopyStep DEF Replicate, InstallSnapshot
<1>6. ASSUME NEW n \in Nodes, Snapshot(n) \/ Apply(n)
      PROVE  Elections'
  BY <1>6, ConsensusSame DEF Snapshot, Apply
<1>7. ASSUME NEW n \in Nodes, NEW k \in Keys, NEW v \in Stored, ApplyLogEntry(n, k, v)
      PROVE  Elections'
  BY <1>7, CallStep
<1>8. CASE Commit
  BY <1>8, CommitStep
<1>9. CASE UNCHANGED vars
  BY <1>9, ConsensusSame DEF vars
<1> QED BY <1>1, <1>2, <1>3, <1>4, <1>5, <1>6, <1>7, <1>8, <1>9
        DEF Next, Put, Delete, Stored

-----------------------------------------------------------------------------
(* What a node has applied stays in its log: a follower takes over only    *)
(* logs that have it, and nothing that is committed changes.               *)
LEMMA NodeStep ==
  ASSUME TypeOK, Elections, NodeInv, [Next]_vars
  PROVE  NodeInv'
<1> DEFINE Fits(n) ==
      /\ applied[n] <= reached[n]
      /\ reached[n] <= Len(committed)
      /\ reached[n] <= Len(log[n])
      /\ \A i \in 1 .. reached[n] : log[n][i] = committed[i]
      /\ snapshot[n] <= reached[n]
      /\ IF n \in up THEN snapshot[n] <= applied[n] ELSE applied[n] = 0
<1>1. \A n \in Nodes :
        /\ Fits(n)
        /\ Len(log[n]) \in Nat /\ Len(committed) \in Nat
        /\ applied[n] \in Nat /\ reached[n] \in Nat /\ snapshot[n] \in Nat
  BY Types DEF NodeInv
<1>2. (\A n \in Nodes : Fits(n)') => NodeInv'
  BY DEF NodeInv
<1>3. ASSUME NEW n \in Nodes, NEW bootstrap \in BOOLEAN, NewNode(n, bootstrap)
      PROVE  NodeInv'
  BY <1>1, <1>2, <1>3 DEF NewNode, TypeOK, history
<1>4. ASSUME NEW n \in Nodes, JoinCluster(n)
      PROVE  NodeInv'
  BY <1>1, <1>2, <1>4 DEF JoinCluster, titan, history
<1>5. ASSUME NEW n \in Nodes, Kill(n)
      PROVE  NodeInv'
  BY <1>1, <1>2, <1>5 DEF Kill, TypeOK, history
<1>6. ASSUME NEW n \in Nodes, Elect(n)
      PROVE  NodeInv'
  BY <1>1, <1>2, <1>6 DEF Elect, history
<1>7. ASSUME leader # None
      PROVE  /\ leader \in Nodes
             /\ Len(committed) <= Len(log[leader])
             /\ \A i \in 1 .. Len(committed) : log[leader][i] = committed[i]
  BY <1>7, Types DEF Elections, LeaderInv, Complete
<1>8. ASSUME NEW n \in Nodes, Replicate(n)
      PROVE  NodeInv'
  <2>1. /\ leader # None /\ log'[n] = log[leader]
        /\ \A m \in Nodes \ {n} : log'[m] = log[m]
        /\ UNCHANGED <<committed, snapshot, applied, up, reached>>
    BY <1>8 DEF Replicate, TypeOK, titan, history
  <2> QED BY <1>1, <1>2, <1>7, <2>1
<1>9. ASSUME NEW n \in Nodes, InstallSnapshot(n)
      PROVE  NodeInv'
  <2>1. /\ leader # None /\ n \in up /\ log'[n] = log[leader]
        /\ applied'[n] = snapshot[leader] /\ snapshot'[n] = snapshot[leader]
        /\ reached'[n] = snapshot[leader]
        /\ \A m \in Nodes \ {n} : /\ log'[m] = log[m] /\ applied'[m] = applied[m]
                                  /\ snapshot'[m] = snapshot[m] /\ reached'[m] = reached[m]
        /\ UNCHANGED <<committed, up>>
    BY <1>9 DEF InstallSnapshot, TypeOK, titan
  <2>2. snapshot[leader] <= Len(committed) /\ snapshot[leader] \in Nat
    BY <1>1, <1>7, <2>1
  <2>3. Fits(n)'
    BY <1>1, <1>7, <2>1, <2>2
  <2>4. \A m \in Nodes \ {n} : Fits(m)'
    BY <1>1, <2>1
  <2> QED BY <1>2, <2>3, <2>4
<1>10. ASSUME NEW n \in Nodes, Snapshot(n)
       PROVE  NodeInv'
  BY <1>1, <1>2, <1>10 DEF Snapshot, TypeOK, consensus, titan, history
<1>11. ASSUME NEW n \in Nodes, Apply(n)
       PROVE  NodeInv'
  <2> DEFINE i == applied[n] + 1
  <2>1. /\ n \in up /\ i <= Len(committed) /\ i <= Len(log[n]) /\ log[n][i] = committed[i]
        /\ applied'[n] = i /\ reached'[n] = IF i > reached[n] THEN i ELSE reached[n]
        /\ \A m \in Nodes \ {n} : applied'[m] = applied[m] /\ reached'[m] = reached[m]
        /\ UNCHANGED <<log, committed, snapshot, up>>
    BY <1>11 DEF Apply, Applicable, TypeOK, consensus
  <2>2. Fits(n)'
    BY <1>1, <2>1
  <2>3. \A m \in Nodes \ {n} : Fits(m)'
    BY <1>1, <2>1
  <2> QED BY <1>2, <2>2, <2>3
<1>12. ASSUME NEW n \in Nodes, NEW k \in Keys, NEW v \in Stored, ApplyLogEntry(n, k, v)
       PROVE  NodeInv'
  <2>1. /\ Len(log'[n]) = Len(log[n]) + 1
        /\ \A i \in 1 .. Len(log[n]) : log'[n][i] = log[n][i]
        /\ \A m \in Nodes \ {n} : log'[m] = log[m]
    BY <1>12, CallExtends DEF Elections
  <2>2. UNCHANGED <<committed, snapshot, applied, up, reached>>
    BY <1>12 DEF ApplyLogEntry, history
  <2> QED BY <1>1, <1>2, <2>1, <2>2
<1>13. CASE Commit
  <2>1. /\ Len(committed') = Len(committed) + 1
        /\ \A i \in 1 .. Len(committed) : committed'[i] = committed[i]
    BY <1>13, CommitExtends DEF Elections
  <2>2. UNCHANGED <<log, snapshot, applied, up, reached>>
    BY <1>13 DEF Commit, titan, history
  <2> QED BY <1>1, <1>2, <2>1, <2>2
<1>14. CASE UNCHANGED vars
  BY <1>14 DEF vars, consensus, titan, history, NodeInv
<1> QED BY <1>3, <1>4, <1>5, <1>6, <1>8, <1>9, <1>10, <1>11, <1>12, <1>13, <1>14
        DEF Next, Put, Delete, Stored

(* A call waits for the entry it made: the log of a leader only grows, and *)
(* the calls of one that is not the leader any more are answered.          *)
LEMMA CallInvStep ==
  ASSUME TypeOK, Elections, CallInv, [Next]_vars
  PROVE  CallInv'
<1> DEFINE Waits(w) ==
      /\ w.index \in 1 .. Len(log[w.node])
      /\ w.index <= Len(committed) => log[w.node][w.index] = committed[w.index]
      /\ w.index > Len(committed) => w.node = leader
<1>1. /\ \A w \in waiting : Waits(w) /\ w.node \in Nodes /\ w.index \in Nat
      /\ \A n \in Nodes : Len(log[n]) \in Nat
      /\ Len(committed) \in Nat
  BY Types DEF CallInv, TypeOK
<1>2. (\A w \in waiting' : Waits(w)') => CallInv'
  BY DEF CallInv
<1>3. ASSUME UNCHANGED <<leader, log, committed>>, waiting' \subseteq waiting
      PROVE  CallInv'
  BY <1>1, <1>2, <1>3
<1>4. ASSUME NEW n \in Nodes, NEW bootstrap \in BOOLEAN, NewNode(n, bootstrap)
      PROVE  CallInv'
  BY <1>3, <1>4 DEF NewNode
<1>5. ASSUME NEW n \in Nodes, JoinCluster(n) \/ Snapshot(n) \/ Apply(n)
      PROVE  CallInv'
  BY <1>3, <1>5 DEF JoinCluster, Snapshot, Apply, consensus, titan
<1>6. ASSUME NEW n \in Nodes, Kill(n)
      PROVE  CallInv'
  <2>1. /\ UNCHANGED <<log, committed>>
        /\ leader' = IF leader = n THEN None ELSE leader
        /\ waiting' = {w \in waiting : w.node # n}
    BY <1>6 DEF Kill
  <2> QED BY <1>1, <1>2, <2>1
<1>7. ASSUME NEW n \in Nodes, Elect(n)
      PROVE  CallInv'
  <2>1. UNCHANGED <<log, committed>> /\ waiting' = {w \in waiting : w.index <= Len(committed)}
    BY <1>7 DEF Elect
  <2> QED BY <1>1, <1>2, <2>1
<1>8. ASSUME NEW n \in Nodes, Replicate(n) \/ InstallSnapshot(n)
      PROVE  CallInv'
  <2>1. /\ leader # None /\ n # leader /\ log'[n] = log[leader]
        /\ \A m \in Nodes \ {n} : log'[m] = log[m]
        /\ UNCHANGED <<leader, committed, waiting>>
    BY <1>8 DEF Replicate, InstallSnapshot, TypeOK, titan
  <2>2. /\ leader \in Nodes /\ Len(committed) <= Len(log[leader])
        /\ \A i \in 1 .. Len(committed) : log[leader][i] = committed[i]
    BY <2>1, Types DEF Elections, LeaderInv, Complete
  <2>3. ASSUME NEW w \in waiting, w.node = n
        PROVE  Waits(w)'
    <3>1. w.index <= Len(committed) /\ w.index \in 1 .. Len(committed)
      BY <1>1, <2>1, <2>3
    <3> QED BY <1>1, <2>1, <2>2, <2>3, <3>1
  <2>4. ASSUME NEW w \in waiting, w.node # n
        PROVE  Waits(w)'
    BY <1>1, <2>1, <2>4
  <2> QED BY <1>2, <2>1, <2>3, <2>4
<1>9. ASSUME NEW n \in Nodes, NEW k \in Keys, NEW v \in Stored, ApplyLogEntry(n, k, v)
      PROVE  CallInv'
  <2>1. /\ n = leader /\ leader # None
        /\ Len(log'[n]) = Len(log[n]) + 1
        /\ \A i \in 1 .. Len(log[n]) : log'[n][i] = log[n][i]
        /\ \A m \in Nodes \ {n} : log'[m] = log[m]
    BY <1>9, CallExtends DEF Elections
  <2>2. /\ UNCHANGED <<leader, committed>>
        /\ waiting' = waiting \cup {[node |-> n, index |-> Len(log[n]) + 1]}
    BY <1>9 DEF ApplyLogEntry
  <2>3. Len(committed) <= Len(log[n])
    BY <2>1 DEF Elections, LeaderInv, Complete
  <2>4. ASSUME NEW w \in waiting
        PROVE  Waits(w)'
    <3>1. log'[w.node][w.index] = log[w.node][w.index] /\ w.index \in 1 .. Len(log'[w.node])
      BY <1>1, <2>1
    <3> QED BY <1>1, <2>2, <3>1
  <2>5. ASSUME NEW w, w = [node |-> n, index |-> Len(log[n]) + 1]
        PROVE  Waits(w)'
    BY <1>1, <2>1, <2>2, <2>3, <2>5
  <2> QED BY <1>2, <2>2, <2>4, <2>5
<1>10. CASE Commit
  <2>1. /\ Len(committed') = Len(committed) + 1
        /\ \A i \in 1 .. Len(committed') : committed'[i] = log[leader][i]
        /\ \A i \in 1 .. Len(committed) : committed'[i] = committed[i]
    BY <1>10, CommitExtends DEF Elections
  <2>2. UNCHANGED <<leader, log, waiting>>
    BY <1>10 DEF Commit, titan
  <2>3. ASSUME NEW w \in waiting
        PROVE  Waits(w)'
    <3>1. CASE w.index <= Len(committed)
      BY <1>1, <2>1, <2>2, <3>1
    <3>2. CASE w.index > Len(committed)
      BY <1>1, <2>1, <2>2, <3>2
    <3> QED BY <1>1, <3>1, <3>2
  <2> QED BY <1>2, <2>2, <2>3
<1>11. CASE UNCHANGED vars
  BY <1>3, <1>11 DEF vars, consensus, titan
<1> QED BY <1>4, <1>5, <1>6, <1>7, <1>8, <1>9, <1>10, <1>11
        DEF Next, Put, Delete, Stored

(* Entry w stays the last write of k where the committed entries stay. *)
LEMMA LastWriteKept ==
  ASSUME NEW k, NEW i \in Nat, NEW w, LastWriteIs(k, w, i),
         \A j \in 1 .. i : committed'[j] = committed[j]
  PROVE  LastWriteIs(k, w, i)' /\ (w > 0 => committed'[w] = committed[w])
<1>1. w \in 0 .. i /\ (w > 0 => w \in 1 .. i) /\ \A j \in w + 1 .. i : j \in 1 .. i
  BY DEF LastWriteIs
<1> QED BY <1>1 DEF LastWriteIs

(* A node that has applied nothing new and restarts no further back keeps  *)
(* what its store has.                                                     *)
LEMMA StoreKept ==
  ASSUME TypeOK, NEW n \in Nodes, Follows(n),
         UNCHANGED <<reached[n], store[n]>>,
         Covered(n)' \in Nat, Covered(n)' <= Covered(n),
         \A i \in 1 .. reached[n] : committed'[i] = committed[i]
  PROVE  Follows(n)'
<1> DEFINE r == reached[n]
<1>0. r \in Nat /\ Covered(n) \in Nat
  BY DEF TypeOK, Covered
<1> HIDE DEF r
<1> SUFFICES ASSUME NEW k \in Keys
             PROVE  \E w \in 0 .. r :
                      /\ LastWriteIs(k, w, r)'
                      /\ w <= Covered(n)' =>
                           store[n][k] = IF w = 0 THEN NoValue ELSE committed'[w].val
  BY DEF Follows, r
<1>1. PICK w \in 0 .. r :
        /\ LastWriteIs(k, w, r)
        /\ w <= Covered(n) => store[n][k] = IF w = 0 THEN NoValue ELSE committed[w].val
  BY DEF Follows, r
<1>2. LastWriteIs(k, w, r)' /\ (w > 0 => committed'[w] = committed[w])
  <2>1. r' = r
    BY DEF r
  <2>2. \A j \in 1 .. r : committed'[j] = committed[j]
    BY DEF r
  <2> QED BY <1>0, <1>1, <2>1, <2>2, LastWriteKept
<1>3. w <= Covered(n)' => w <= Covered(n)
  BY <1>0, <1>1
<1> QED BY <1>0, <1>1, <1>2, <1>3

(* Apply brings the store of n forward: by a new last write of the key, or *)
(* by one more entry that every other key need not wait for.               *)
LEMMA StoreApplied ==
  ASSUME TypeOK, NodeInv, NEW n \in Nodes, Follows(n), Apply(n)
  PROVE  Follows(n)'
<1> DEFINE i == applied[n] + 1
           e == committed[i]
           r == reached[n]
<1>1. /\ n \in up /\ n \in up' /\ applied'[n] = i
      /\ reached'[n] = IF i > r THEN i ELSE r
      /\ UNCHANGED committed
  BY DEF Apply, TypeOK, consensus
<1>2. applied[n] \in Nat /\ r \in Nat /\ applied[n] <= r
  BY Types DEF NodeInv
<1>3. Covered(n) = i - 1 /\ Covered(n)' = i
  BY <1>1, <1>2 DEF Covered
<1>4. e \in LogEntry
  <2>1. Len(committed) \in Nat
    BY Types
  <2>2. i \in 1 .. Len(committed)
    BY <1>2, <2>1 DEF Apply, Applicable
  <2>3. committed \in Seq(LogEntry)
    BY DEF TypeOK
  <2> QED BY <2>2, <2>3, ElementOfSeq
<1>5. e.key \in Keys
  BY ONLY <1>4 DEF LogEntry
<1>6. \A k \in Keys : store'[n][k] = IF k = e.key THEN e.val ELSE store[n][k]
  <2>1. store' = [store EXCEPT ![n][e.key] = e.val]
    BY DEF Apply
  <2> HIDE DEF e
  <2>2. store[n] \in [Keys -> Stored]
    BY DEF TypeOK
  <2> QED BY <1>5, <2>1, <2>2 DEF TypeOK
<1> SUFFICES ASSUME NEW k \in Keys
             PROVE  \E w \in 0 .. reached'[n] :
                      /\ LastWriteIs(k, w, reached'[n])
                      /\ w <= i =>
                           store'[n][k] = IF w = 0 THEN NoValue ELSE committed[w].val
  BY <1>1, <1>3 DEF Follows, LastWriteIs
<1>7. PICK w \in 0 .. r :
        /\ LastWriteIs(k, w, r)
        /\ w <= Covered(n) => store[n][k] = IF w = 0 THEN NoValue ELSE committed[w].val
  BY DEF Follows
<1>8. i \in Nat /\ i > 0 /\ w \in Nat
  BY <1>2, <1>7
<1>9. (w > 0 => committed[w].key = k) /\ \A j \in w + 1 .. r : committed[j].key # k
  BY <1>7 DEF LastWriteIs
<1>10. CASE i <= r
  <2>1. reached'[n] = r
    BY <1>1, <1>2, <1>10
  <2>2. w <= i => store'[n][k] = IF w = 0 THEN NoValue ELSE committed[w].val
    <3>1. CASE k = e.key
      <4>1. ~(i \in w + 1 .. r)
        BY <1>9, <3>1
      <4>2. w <= i => w = i
        BY <1>2, <1>8, <1>10, <4>1
      <4> QED BY <1>6, <1>8, <3>1, <4>2
    <3>2. CASE k # e.key
      <4>1. w # i
        BY <1>8, <1>9, <3>2
      <4>2. w <= i => w <= Covered(n)
        BY <1>2, <1>3, <1>8, <4>1
      <4>3. store'[n][k] = store[n][k]
        BY <1>6, <3>2
      <4> QED BY <1>7, <4>2, <4>3
    <3> QED BY <3>1, <3>2
  <2> QED BY <1>7, <2>1, <2>2
<1>11. CASE i > r
  <2>1. reached'[n] = i /\ r = i - 1 /\ Covered(n) = r
    BY <1>1, <1>2, <1>3, <1>11
  <2>2. CASE k = e.key
    <3>1. LastWriteIs(k, i, i)
      BY <1>8, <2>2 DEF LastWriteIs
    <3>2. store'[n][k] = IF i = 0 THEN NoValue ELSE committed[i].val
      BY <1>6, <1>8, <2>2
    <3> QED BY <1>8, <2>1, <3>1, <3>2
  <2>3. CASE k # e.key
    <3>1. LastWriteIs(k, w, i)
      BY <1>2, <1>7, <1>8, <1>9, <2>1, <2>3 DEF LastWriteIs
    <3>2. store'[n][k] = IF w = 0 THEN NoValue ELSE committed[w].val
      BY <1>6, <1>7, <2>1, <2>3
    <3>3. w \in 0 .. i
      BY <1>2, <1>7, <2>1
    <3> QED BY <2>1, <3>1, <3>2, <3>3
  <2> QED BY <2>2, <2>3
<1> QED BY <1>2, <1>8, <1>10, <1>11

(* No step leaves a store without the last write its node has been past.   *)
LEMMA StoreStep ==
  ASSUME TypeOK, Elections, NodeInv, StoreInv, [Next]_vars
  PROVE  StoreInv'
<1>1. \A n \in Nodes :
        /\ n \notin restored => Follows(n)
        /\ applied[n] \in Nat /\ snapshot[n] \in Nat /\ reached[n] \in Nat
        /\ reached[n] <= Len(committed) /\ Len(committed) \in Nat
        /\ IF n \in up THEN snapshot[n] <= applied[n] ELSE applied[n] = 0
  BY Types DEF StoreInv, NodeInv
<1>2. (\A n \in Nodes : n \notin restored' => Follows(n)') => StoreInv'
  BY DEF StoreInv
<1>3. ASSUME UNCHANGED <<committed, snapshot, applied, up, store, reached, restored>>
      PROVE  StoreInv'
  BY <1>3 DEF StoreInv, Follows, LastWriteIs, Covered
<1>4. ASSUME UNCHANGED <<committed, store, reached, restored>>,
             \A n \in Nodes : Covered(n)' \in Nat /\ Covered(n)' <= Covered(n)
      PROVE  StoreInv'
  BY <1>1, <1>2, <1>4, StoreKept
<1>5. ASSUME NEW n \in Nodes, NEW bootstrap \in BOOLEAN, NewNode(n, bootstrap)
      PROVE  StoreInv'
  <2>1. \A m \in Nodes : Covered(m)' \in Nat /\ Covered(m)' <= Covered(m)
    BY <1>1, <1>5 DEF NewNode, Covered, TypeOK
  <2> QED BY <1>4, <1>5, <2>1 DEF NewNode, history
<1>6. ASSUME NEW n \in Nodes, JoinCluster(n) \/ Elect(n) \/ Replicate(n)
      PROVE  StoreInv'
  BY <1>3, <1>6 DEF JoinCluster, Elect, Replicate, titan, history
<1>7. ASSUME NEW n \in Nodes, Kill(n)
      PROVE  StoreInv'
  <2>1. \A m \in Nodes : Covered(m)' \in Nat /\ Covered(m)' <= Covered(m)
    BY <1>1, <1>7 DEF Kill, Covered, TypeOK
  <2> QED BY <1>4, <1>7, <2>1 DEF Kill, history
<1>8. ASSUME NEW n \in Nodes, InstallSnapshot(n)
      PROVE  StoreInv'
  <2> SUFFICES ASSUME NEW m \in Nodes, m \notin restored'
               PROVE  Follows(m)'
    BY <1>2
  <2>1. m # n /\ m \notin restored
    BY <1>8 DEF InstallSnapshot
  <2>2. UNCHANGED <<committed, reached[m], store[m], applied[m], snapshot[m], up>>
    BY <1>8, <2>1 DEF InstallSnapshot, TypeOK, titan
  <2>3. Covered(m)' = Covered(m) /\ Covered(m) \in Nat
    BY <1>1, <2>2 DEF Covered
  <2> QED BY <1>1, <2>1, <2>2, <2>3, StoreKept
<1>9. ASSUME NEW n \in Nodes, Snapshot(n)
      PROVE  StoreInv'
  <2>1. \A m \in Nodes : Covered(m)' \in Nat /\ Covered(m)' <= Covered(m)
    BY <1>1, <1>9 DEF Snapshot, Covered, TypeOK, titan
  <2> QED BY <1>4, <1>9, <2>1 DEF Snapshot, consensus, titan, history
<1>10. ASSUME NEW n \in Nodes, Apply(n)
       PROVE  StoreInv'
  <2> SUFFICES ASSUME NEW m \in Nodes, m \notin restored'
               PROVE  Follows(m)'
    BY <1>2
  <2>1. m \notin restored
    BY <1>10 DEF Apply
  <2>2. CASE m = n
    BY <1>1, <1>10, <2>1, <2>2, StoreApplied
  <2>3. CASE m # n
    <3>1. UNCHANGED <<committed, reached[m], store[m], applied[m], snapshot[m], up>>
      BY <1>10, <2>3 DEF Apply, TypeOK, consensus
    <3>2. Covered(m)' = Covered(m) /\ Covered(m) \in Nat
      BY <1>1, <3>1 DEF Covered
    <3> QED BY <1>1, <2>1, <3>1, <3>2, StoreKept
  <2> QED BY <2>2, <2>3
<1>11. ASSUME NEW n \in Nodes, NEW k \in Keys, NEW v \in Stored, ApplyLogEntry(n, k, v)
       PROVE  StoreInv'
  BY <1>3, <1>11 DEF ApplyLogEntry, history
<1>12. CASE Commit
  <2> SUFFICES ASSUME NEW m \in Nodes, m \notin restored'
               PROVE  Follows(m)'
    BY <1>2
  <2>1. UNCHANGED <<snapshot, applied, up, store, reached, restored>>
    BY <1>12 DEF Commit, titan, history
  <2>2. \A i \in 1 .. reached[m] : committed'[i] = committed[i]
    BY <1>1, <1>12, CommitExtends DEF Elections
  <2>3. Covered(m)' = Covered(m) /\ Covered(m) \in Nat
    BY <1>1, <2>1 DEF Covered
  <2> QED BY <1>1, <2>1, <2>2, <2>3, StoreKept
<1>13. CASE UNCHANGED vars
  BY <1>3, <1>13 DEF vars, consensus, titan, history
<1> QED BY <1>5, <1>6, <1>7, <1>8, <1>9, <1>10, <1>11, <1>12, <1>13
        DEF Next, Put, Delete, Stored

(* Init is as IInv wants it. *)
LEMMA InitInvariant == Init => IInv
<1> SUFFICES ASSUME Init PROVE IInv
  OBVIOUS
<1> USE DEF Init
<1>1. TypeOK
  <2>1. <<>> \in Seq(LogEntry)
    BY EmptySeq
  <2> QED BY <2>1, RaftAssumption DEF TypeOK, Stored
<1>2. Len(committed) = 0 /\ \A n \in Nodes : Len(log[n]) = 0
  OBVIOUS
<1>3. LeaderInv /\ LogsMatch
  BY <1>2, RaftAssumption DEF LeaderInv, LogsMatch
<1>4. ElectionsAreSafe
  <2>1. Guards = {} /\ Cardinality({}) = 0
    BY FS_EmptySet DEF Guards
  <2> QED BY <2>1 DEF ElectionsAreSafe
<1>5. NodeInv /\ CallInv
  BY <1>2 DEF NodeInv, CallInv
<1>6. StoreInv
  <2> SUFFICES ASSUME NEW n \in Nodes, NEW k \in Keys
               PROVE  /\ reached[n] = 0 /\ LastWriteIs(k, 0, 0)
                      /\ store[n][k] = NoValue
    BY DEF StoreInv, Follows
  <2> QED BY DEF LastWriteIs
<1> QED BY <1>1, <1>3, <1>4, <1>5, <1>6 DEF IInv, Elections

(* IInv is inductive: every step of the group keeps it.                    *)
LEMMA StepInvariant == IInv /\ [Next]_vars => IInv'
<1> SUFFICES ASSUME IInv, [Next]_vars PROVE IInv'
  OBVIOUS
<1>1. TypeOK /\ Elections /\ NodeInv /\ StoreInv /\ CallInv
  BY DEF IInv
<1>2. TypeOK'
  BY <1>1, TypeStep DEF Elections
<1>3. Elections'
  BY <1>1, ElectionsStep
<1>4. NodeInv'
  BY <1>1, NodeStep
<1>5. StoreInv'
  BY <1>1, StoreStep
<1>6. CallInv'
  BY <1>1, CallInvStep
<1> QED BY <1>2, <1>3, <1>4, <1>5, <1>6 DEF IInv

(* The invariant of elections, replication and the state machines holds in *)
(* every reachable state.                                                  *)
THEOREM InvariantHolds == Spec => []IInv
BY InitInvariant, StepInvariant, PTL DEF Spec

(* What raft, the state machines and their stores hold has its type. *)
THEOREM TypeCorrect == Spec => []TypeOK
<1>1. IInv => TypeOK
  BY DEF IInv
<1> QED BY <1>1, InvariantHolds, PTL

(* A call in ApplyLogEntry is never answered with the fate of an entry     *)
(* that is not its own.                                                    *)
THEOREM CallersToldTheirOwn == Spec => []CallersOwnEntry
<1>1. IInv => CallersOwnEntry
  <2> SUFFICES ASSUME IInv, NEW w \in waiting
               PROVE  /\ w.index <= Len(log[w.node])
                      /\ w.index <= Len(committed) => log[w.node][w.index] = committed[w.index]
    BY DEF CallersOwnEntry
  <2>1. /\ w.index \in 1 .. Len(log[w.node])
        /\ w.index <= Len(committed) => log[w.node][w.index] = committed[w.index]
    BY DEF IInv, CallInv
  <2>2. Len(log[w.node]) \in Nat
    BY Types DEF IInv, TypeOK
  <2> QED BY <2>1, <2>2
<1> QED BY <1>1, InvariantHolds, PTL

(* No change of leaders, members or nodes that run replaces an entry that  *)
(* a majority has committed.                                               *)
THEOREM CommittedNeverReplaced == Spec => CommittedStays
<1>1. ASSUME IInv, [Next]_vars
      PROVE  /\ Len(committed) <= Len(committed')
             /\ \A i \in 1 .. Len(committed) : committed'[i] = committed[i]
  <2>1. TypeOK /\ LeaderInv /\ Len(committed) \in Nat
    BY <1>1, Types DEF IInv, Elections
  <2>2. CASE Commit
    BY <2>1, <2>2, CommitExtends
  <2>3. CASE ~Commit
    <3>1. UNCHANGED committed
      BY <1>1, <2>3 DEF Next, NewNode, JoinCluster, Kill, Elect, Replicate, InstallSnapshot,
                        Snapshot, Apply, Put, Delete, ApplyLogEntry, vars, consensus
    <3> QED BY <2>1, <3>1
  <2> QED BY <2>2, <2>3
<1> QED BY <1>1, InvariantHolds, PTL DEF Spec, CommittedStays

(* After a restart that applies entries again the store of a node comes    *)
(* back to what the committed log says of every key.                       *)
THEOREM StoresConverge == Spec => []ReplayConverges
<1>1. IInv => ReplayConverges
  <2> SUFFICES ASSUME IInv, NEW n \in Nodes \ restored, applied[n] >= reached[n]
               PROVE  store[n] = StateAt(applied[n])
    BY DEF ReplayConverges
  <2> DEFINE r == applied[n]
  <2>1. /\ r \in Nat /\ reached[n] = r /\ Covered(n) = r
    BY Types DEF IInv, NodeInv, Covered
  <2>2. store[n] \in [Keys -> Stored]
    BY DEF IInv, TypeOK
  <2>3. Follows(n)
    BY DEF IInv, StoreInv
  <2> HIDE DEF r
  <2>4. ASSUME NEW k \in Keys
        PROVE  store[n][k] = IF Writes(k, r) = {} THEN NoValue
                             ELSE committed[LastWrite(k, r)].val
    <3>1. PICK w \in 0 .. r :
            /\ LastWriteIs(k, w, r)
            /\ store[n][k] = IF w = 0 THEN NoValue ELSE committed[w].val
      BY <2>1, <2>3 DEF Follows
    <3>2. (w > 0 => committed[w].key = k) /\ \A j \in w + 1 .. r : committed[j].key # k
      BY <3>1 DEF LastWriteIs
    <3>3. \A j \in Writes(k, r) : j <= w /\ j \in Nat
      BY <2>1, <3>1, <3>2 DEF Writes
    <3>4. CASE w = 0
      <4>1. Writes(k, r) = {}
        BY <3>3, <3>4 DEF Writes
      <4> QED BY <3>1, <3>4, <4>1
    <3>5. CASE w > 0
      <4>1. w \in Writes(k, r)
        BY <2>1, <3>1, <3>2, <3>5 DEF Writes
      <4>2. LastWrite(k, r) \in Writes(k, r) /\ w <= LastWrite(k, r)
        BY <3>3, <4>1 DEF LastWrite
      <4>3. LastWrite(k, r) = w
        BY <3>1, <3>3, <4>2
      <4> QED BY <3>1, <3>5, <4>1, <4>3
    <3> QED BY <3>1, <3>4, <3>5
  <2> QED BY <2>2, <2>4 DEF StateAt, r
<1> QED BY <1>1, InvariantHolds, PTL

-----------------------------------------------------------------------------
(* Entries at different places of the logs are different. *)
LEMMA TagsTell ==
  ASSUME NEW d, NEW e, NEW i, NEW j, Tagged(d, i) = Tagged(e, j)
  PROVE  i = j
<1>1. Tagged(d, i).id = <<d.term, i>> /\ Tagged(e, j).id = <<e.term, j>>
  BY DEF Tagged
<1> QED BY <1>1

(* An entry is committed only at the position its tag names.               *)
LEMMA TagOfCommitted ==
  ASSUME TypeOK, NEW e, NEW j \in Nat, Tagged(e, j) \in CommittedEntries
  PROVE  j \in 1 .. Len(committed)
BY TagsTell DEF CommittedEntries

(* What the mapping reads of the state.  A step that leaves it alone does  *)
(* not move the group.                                                     *)
LEMMA MappedSame ==
  ASSUME TypeOK, UNCHANGED <<leader, log, committed, waiting, store, reached, restored>>,
         \A n \in Nodes : Covered(n)' = Covered(n)
  PROVE  UNCHANGED Group!group
BY DEF Group!group, CommittedLog, Proposed, LogEntries, CommittedEntries, Calls, CallOf

(* Only entries of the leader reach another log, and a call that waits on  *)
(* the node that takes them over waits for a committed one.                *)
LEMMA CopyMapped ==
  ASSUME TypeOK, Elections, CallInv, leader # None, NEW n \in Nodes, n # leader,
         log' = [log EXCEPT ![n] = log[leader]], UNCHANGED <<leader, committed, waiting>>
  PROVE  /\ UNCHANGED CommittedLog
         /\ Proposed' \subseteq Proposed
         /\ UNCHANGED Calls
<1>1. /\ leader \in Nodes /\ Len(committed) \in Nat
      /\ log'[n] = log[leader] /\ \A m \in Nodes \ {n} : log'[m] = log[m]
      /\ \A i \in 1 .. Len(committed) : log[leader][i] = committed[i]
  BY Types DEF Elections, LeaderInv, Complete, TypeOK
<1>2. UNCHANGED CommittedLog /\ UNCHANGED CommittedEntries
  BY DEF CommittedLog, CommittedEntries
<1>3. LogEntries' \subseteq LogEntries
  <2>1. ASSUME NEW m \in Nodes, NEW i \in 1 .. Len(log'[m])
        PROVE  Tagged(log'[m][i], i) \in LogEntries
    <3>1. PICK q \in Nodes : log'[m] = log[q]
      BY <1>1
    <3> QED BY <3>1 DEF LogEntries
  <2> QED BY <2>1 DEF LogEntries
<1>4. \A w \in waiting : CallOf(w)' = CallOf(w)
  <2> SUFFICES ASSUME NEW w \in waiting
               PROVE  log'[w.node][w.index] = log[w.node][w.index]
    BY DEF CallOf, Tagged
  <2>1. w.node \in Nodes /\ w.index \in Nat
    BY DEF TypeOK
  <2>2. CASE w.node = n
    <3>1. w.index \in 1 .. Len(committed) /\ log[n][w.index] = committed[w.index]
      BY <1>1, <2>1, <2>2 DEF CallInv
    <3> QED BY <1>1, <2>2, <3>1
  <2>3. CASE w.node # n
    BY <1>1, <2>1, <2>3
  <2> QED BY <2>2, <2>3
<1>5. UNCHANGED Calls
  BY <1>4 DEF Calls
<1> QED BY <1>2, <1>3, <1>5 DEF Proposed

(* Raft sends a snapshot to a node that has not got what it covers. *)
LEMMA SnapshotIsAhead ==
  ASSUME TypeOK, Elections, NodeInv, leader # None, NEW n \in Nodes, Behind(n)
  PROVE  snapshot[leader] \in reached[n] .. Len(committed)
<1>1. /\ leader \in Nodes
      /\ snapshot[leader] \in Nat /\ reached[n] \in Nat
      /\ Len(committed) \in Nat /\ Len(log[n]) \in Nat /\ Len(log[leader]) \in Nat
  BY Types
<1>2. /\ reached[n] <= Len(committed) /\ reached[n] <= Len(log[n])
      /\ \A i \in 1 .. reached[n] : log[n][i] = committed[i]
      /\ snapshot[leader] <= Len(committed)
  <2>1. reached[leader] \in Nat
    BY <1>1, Types
  <2> QED BY <1>1, <2>1 DEF NodeInv
<1>3. /\ Len(committed) <= Len(log[leader])
      /\ \A i \in 1 .. Len(committed) : log[leader][i] = committed[i]
  BY DEF Elections, LeaderInv, Complete
<1>4. 1 .. reached[n] \subseteq Common(n)
  BY <1>1, <1>2, <1>3 DEF Common
<1>5. IsFiniteSet(Common(n))
  <2>1. 1 \in Int /\ Len(log[n]) \in Int
    BY <1>1
  <2>2. IsFiniteSet(1 .. Len(log[n]))
    BY ONLY <2>1, FS_Interval
  <2>3. Common(n) \subseteq 1 .. Len(log[n])
    BY DEF Common
  <2> QED BY <2>2, <2>3, FS_Subset
<1>6. Cardinality(1 .. reached[n]) = reached[n]
  <2> DEFINE r == reached[n]
  <2>1. r \in Nat
    BY <1>1
  <2> HIDE DEF r
  <2>2. Cardinality(1 .. r) = IF 1 > r THEN 0 ELSE r - 1 + 1
    <3>1. 1 \in Int /\ r \in Int
      BY <2>1
    <3> QED BY ONLY <3>1, FS_Interval
  <2>3. Cardinality(1 .. r) = r
    BY <2>1, <2>2
  <2> QED BY <2>3 DEF r
<1>7. reached[n] <= Cardinality(Common(n)) /\ Cardinality(Common(n)) \in Nat
  BY <1>4, <1>5, <1>6, FS_Subset, FS_CardinalityType
<1>8. Cardinality(Common(n)) < snapshot[leader] - TrailingLogs
  BY DEF Behind
<1> QED BY <1>1, <1>2, <1>7, <1>8, RaftAssumption

(* The entry that a leader makes is not one of those that are committed:   *)
(* its place in the log comes after them.                                  *)
LEMMA ProposeMapped ==
  ASSUME IInv, NEW n \in Nodes, NEW k \in Keys, NEW v \in Stored, ApplyLogEntry(n, k, v)
  PROVE  \E e \in Group!Entry : Group!Propose(n, e)
<1> DEFINE i == Len(log[n]) + 1
           d == [term |-> term, key |-> k, val |-> v]
           e == Tagged(d, i)
<1>1. TypeOK /\ Elections /\ CallInv /\ LeaderInv
  BY DEF IInv, Elections
<1>2. /\ leader # None /\ n = leader
      /\ Len(log'[n]) = i /\ log'[n][i] = d
      /\ \A j \in 1 .. Len(log[n]) : log'[n][j] = log[n][j]
      /\ \A m \in Nodes \ {n} : log'[m] = log[m]
  BY <1>1, CallExtends
<1>3. /\ Len(log[n]) < MaxLog
      /\ waiting' = waiting \cup {[node |-> n, index |-> i]}
      /\ UNCHANGED <<leader, committed, snapshot, applied, up, store, reached, restored>>
  BY DEF ApplyLogEntry, history
<1>4. /\ i \in 1 .. MaxLog /\ Len(log[n]) \in Nat /\ Len(committed) \in Nat
      /\ Len(committed) < i
  BY <1>1, <1>2, <1>3, Types, RaftAssumption DEF LeaderInv, Complete
<1>5. e \in Group!Entry
  <2>1. term \in 1 .. MaxTerm
    BY <1>1, <1>2 DEF TypeOK, LeaderInv
  <2> QED BY <1>4, <2>1 DEF Group!Entry, Tagged, Stored, Group!Stored
<1>6. e \notin CommittedEntries
  BY <1>1, <1>4, TagOfCommitted
<1> HIDE DEF d, e
<1>7. LogEntries' = LogEntries \cup {e}
  <2>1. ASSUME NEW m \in Nodes, NEW j \in 1 .. Len(log[m])
        PROVE  log'[m][j] = log[m][j] /\ j \in 1 .. Len(log'[m])
    BY <1>2, <1>4
  <2>2. LogEntries \subseteq LogEntries'
    BY <2>1 DEF LogEntries
  <2>3. e \in LogEntries'
    <3>1. i \in 1 .. Len(log'[n]) /\ e = Tagged(log'[n][i], i)
      BY <1>2, <1>4 DEF e
    <3> QED BY <3>1 DEF LogEntries
  <2>4. ASSUME NEW m \in Nodes, NEW j \in 1 .. Len(log'[m])
        PROVE  Tagged(log'[m][j], j) \in LogEntries \cup {e}
    <3>1. CASE j \in 1 .. Len(log[m])
      BY <2>1, <3>1 DEF LogEntries
    <3>2. CASE ~(j \in 1 .. Len(log[m]))
      <4>1. m = n /\ j = i
        BY <1>2, <1>4, <3>2
      <4> QED BY <1>2, <4>1 DEF e
    <3> QED BY <3>1, <3>2
  <2>5. LogEntries' \subseteq LogEntries \cup {e}
    BY <2>4 DEF LogEntries
  <2> QED BY <2>2, <2>3, <2>5
<1>8. UNCHANGED CommittedEntries /\ UNCHANGED CommittedLog
  BY <1>3 DEF CommittedEntries, CommittedLog
<1>9. Proposed' = Proposed \cup {e}
  BY <1>6, <1>7, <1>8 DEF Proposed
<1>10. Calls' = Calls \cup {[node |-> n, entry |-> e]}
  <2>1. ASSUME NEW w \in waiting
        PROVE  CallOf(w)' = CallOf(w)
    <3>1. w.node \in Nodes /\ w.index \in 1 .. Len(log[w.node])
      BY <1>1 DEF TypeOK, CallInv
    <3> QED BY <1>2, <3>1 DEF CallOf, Tagged
  <2>2. PICK c : c = [node |-> n, index |-> i]
    OBVIOUS
  <2>3. CallOf(c)' = [node |-> n, entry |-> e]
    BY <1>2, <2>2 DEF CallOf, e
  <2>4. waiting' = waiting \cup {c}
    BY <1>3, <2>2
  <2> QED BY <2>1, <2>3, <2>4 DEF Calls
<1>11. Group!Propose(n, e)
  <2>1. UNCHANGED [m \in Nodes |-> Covered(m)]
    BY <1>3 DEF Covered
  <2> QED BY <1>2, <1>3, <1>8, <1>9, <1>10, <2>1 DEF Group!Propose
<1> QED BY <1>5, <1>11

(* What is committed next is a proposed entry, and it comes last. *)
LEMMA CommitMapped ==
  ASSUME IInv, Commit
  PROVE  Group!Commit
<1> DEFINE c == Len(committed)
           e == Tagged(committed'[c + 1], c + 1)
<1>1. TypeOK /\ LeaderInv
  BY DEF IInv, Elections
<1>2. /\ leader \in Nodes /\ c \in Nat
      /\ Len(committed') = c + 1 /\ c + 1 <= Len(log[leader])
      /\ committed'[c + 1] = log[leader][c + 1]
      /\ \A i \in 1 .. c : committed'[i] = committed[i]
      /\ Len(log[leader]) \in Nat
  BY <1>1, CommitExtends, Types
<1>3. UNCHANGED <<leader, log, snapshot, applied, up, store, waiting, reached, restored>>
  BY DEF Commit, titan, history
<1>4. e \in LogEntries
  <2>1. c + 1 \in 1 .. Len(log[leader]) /\ e = Tagged(log[leader][c + 1], c + 1)
    BY <1>2
  <2> QED BY <1>2, <2>1 DEF LogEntries
<1>5. e \notin CommittedEntries
  BY <1>1, <1>2, TagOfCommitted
<1> DEFINE d == committed'[c + 1]
<1> HIDE DEF c, d
<1>6. CommittedEntries' = CommittedEntries \cup {e}
  <2>1. 1 .. (c + 1) = (1 .. c) \cup {c + 1}
    BY <1>2
  <2>2. CommittedEntries' = {Tagged(committed'[i], i) : i \in 1 .. (c + 1)}
    BY <1>2 DEF CommittedEntries
  <2>3. CommittedEntries = {Tagged(committed'[i], i) : i \in 1 .. c}
    BY <1>2 DEF CommittedEntries, Tagged, c
  <2> QED BY <2>1, <2>2, <2>3 DEF d
<1> HIDE DEF e
<1>7. Proposed' = Proposed \ {e} /\ e \in Proposed
  <2>1. LogEntries' = LogEntries
    BY <1>3 DEF LogEntries
  <2> QED BY <1>4, <1>5, <1>6, <2>1 DEF Proposed
<1>8. CommittedLog' = Append(CommittedLog, e)
  <2>1. /\ CommittedLog = [i \in 1 .. c |-> Tagged(committed[i], i)]
        /\ CommittedLog' = [i \in 1 .. c + 1 |-> Tagged(committed'[i], i)]
    BY <1>2 DEF CommittedLog, c
  <2>2. Len(CommittedLog) = c
    BY <1>2, <2>1
  <2>3. Append(CommittedLog, e) =
          [i \in 1 .. c + 1 |-> IF i = c + 1 THEN e ELSE Tagged(committed[i], i)]
    BY <1>2, <2>1, <2>2
  <2>4. \A i \in 1 .. c + 1 :
          Tagged(committed'[i], i) = IF i = c + 1 THEN e ELSE Tagged(committed[i], i)
    BY <1>2 DEF e, d
  <2> QED BY <2>1, <2>3, <2>4
<1>9. UNCHANGED Calls /\ UNCHANGED [n \in Nodes |-> Covered(n)]
  BY <1>3 DEF Calls, CallOf, Covered
<1> QED BY <1>3, <1>7, <1>8, <1>9 DEF Group!Commit

(* The group's list of committed entries, by index. *)
LEMMA CommittedLogIs ==
  ASSUME TypeOK
  PROVE  /\ Len(CommittedLog) = Len(committed)
         /\ \A i \in 1 .. Len(committed) : CommittedLog[i] = Tagged(committed[i], i)
         /\ Group!CommittedEntries = CommittedEntries
<1>1. Len(committed) \in Nat
  BY Types
<1>2. Len(CommittedLog) = Len(committed)
  BY <1>1 DEF CommittedLog
<1>3. \A i \in 1 .. Len(committed) : CommittedLog[i] = Tagged(committed[i], i)
  BY DEF CommittedLog
<1>4. Group!CommittedEntries = {Tagged(committed[i], i) : i \in 1 .. Len(committed)}
  BY <1>2, <1>3 DEF Group!CommittedEntries
<1> QED BY <1>2, <1>3, <1>4 DEF CommittedEntries

(* The calls that an election fails are those whose entries are not among  *)
(* the committed ones.                                                     *)
LEMMA ElectMapped ==
  ASSUME IInv, NEW n \in Nodes, Elect(n)
  PROVE  Group!Elect(n)
<1>1. TypeOK /\ CallInv
  BY DEF IInv
<1>2. /\ leader' = n /\ waiting' = {w \in waiting : w.index <= Len(committed)}
      /\ UNCHANGED <<log, committed, snapshot, applied, up, store, reached, restored>>
  BY DEF Elect, history
<1>3. /\ UNCHANGED CommittedLog /\ UNCHANGED Proposed
      /\ UNCHANGED [m \in Nodes |-> Covered(m)]
  BY <1>2 DEF CommittedLog, Proposed, LogEntries, CommittedEntries, Covered
<1>4. \A w \in waiting : CallOf(w)' = CallOf(w)
  BY <1>2 DEF CallOf
<1>5. ASSUME NEW w \in waiting
      PROVE  w.index <= Len(committed) <=> CallOf(w).entry \in CommittedEntries
  <2>1. w.index \in Nat /\ w.index > 0 /\ Len(committed) \in Nat
    <3>1. w.index \in 1 .. Len(log[w.node])
      BY <1>1 DEF CallInv
    <3>2. w.node \in Nodes /\ w.index \in Nat
      BY <1>1 DEF TypeOK
    <3>3. Len(log[w.node]) \in Nat /\ Len(committed) \in Nat
      BY <1>1, <3>2, Types
    <3> QED BY <3>1, <3>2, <3>3
  <2>2. CallOf(w).entry = Tagged(log[w.node][w.index], w.index)
    BY DEF CallOf
  <2>3. CASE w.index <= Len(committed)
    <3>1. w.index \in 1 .. Len(committed) /\ log[w.node][w.index] = committed[w.index]
      BY <1>1, <2>1, <2>3 DEF CallInv
    <3> QED BY <2>2, <2>3, <3>1 DEF CommittedEntries
  <2>4. CASE CallOf(w).entry \in CommittedEntries
    <3>1. w.index \in 1 .. Len(committed)
      BY <1>1, <2>1, <2>2, <2>4, TagOfCommitted
    <3> QED BY <2>1, <2>4, <3>1
  <2> QED BY <2>3, <2>4
<1>6. Calls' = {c \in Calls : c.entry \in CommittedEntries}
  <2>1. Calls' = {CallOf(w) : w \in {x \in waiting : x.index <= Len(committed)}}
    BY <1>2, <1>4 DEF Calls
  <2>2. Calls' = {CallOf(w) : w \in {x \in waiting : CallOf(x).entry \in CommittedEntries}}
    BY <1>5, <2>1
  <2> QED BY <2>2 DEF Calls
<1> QED BY <1>1, <1>2, <1>3, <1>6, CommittedLogIs DEF Group!Elect

(* After a crash raft goes on where the newest snapshot ends. *)
LEMMA KillMapped ==
  ASSUME IInv, NEW n \in Nodes, Kill(n)
  PROVE  Group!Restart(n)
<1>1. /\ n \in up /\ up' = up \ {n}
      /\ leader' = IF leader = n THEN None ELSE leader
      /\ applied' = [applied EXCEPT ![n] = 0]
      /\ waiting' = {w \in waiting : w.node # n}
      /\ UNCHANGED <<log, committed, snapshot, store, reached, restored>>
  BY DEF Kill, history
<1>2. /\ UNCHANGED CommittedLog /\ UNCHANGED Proposed
      /\ \A w \in waiting : CallOf(w)' = CallOf(w)
  BY <1>1 DEF CommittedLog, Proposed, LogEntries, CommittedEntries, CallOf
<1>3. snapshot[n] \in 0 .. Covered(n)
  <2>1. snapshot[n] \in Nat /\ applied[n] \in Nat /\ snapshot[n] <= applied[n]
    BY <1>1, Types DEF IInv, NodeInv
  <2> QED BY <1>1, <2>1 DEF Covered
<1>4. [m \in Nodes |-> Covered(m)]' = [[m \in Nodes |-> Covered(m)] EXCEPT ![n] = snapshot[n]]
  <2>1. Covered(n)' = snapshot[n] /\ \A m \in Nodes \ {n} : Covered(m)' = Covered(m)
    BY <1>1 DEF Covered, IInv, TypeOK
  <2> QED BY <2>1
<1>5. Calls' = {c \in Calls : c.node # n}
  <2>1. \A w \in waiting : CallOf(w).node = w.node
    BY DEF CallOf
  <2> QED BY <1>1, <1>2, <2>1 DEF Calls
<1> QED BY <1>1, <1>2, <1>3, <1>4, <1>5 DEF Group!Restart

(* A follower that is sent a snapshot is restored in the group.            *)
LEMMA InstallMapped ==
  ASSUME IInv, NEW n \in Nodes, InstallSnapshot(n)
  PROVE  Group!Restore(n)
<1> DEFINE i == snapshot[leader]
<1>1. /\ leader # None /\ n # leader /\ n \in up /\ Behind(n)
      /\ log' = [log EXCEPT ![n] = log[leader]]
      /\ snapshot' = [snapshot EXCEPT ![n] = i]
      /\ applied' = [applied EXCEPT ![n] = i]
      /\ reached' = [reached EXCEPT ![n] = i]
      /\ restored' = restored \cup {n}
      /\ UNCHANGED <<leader, committed, waiting, up, store>>
  BY DEF InstallSnapshot, titan
<1>2. TypeOK /\ Elections /\ NodeInv /\ CallInv
  BY DEF IInv
<1>3. UNCHANGED CommittedLog /\ Proposed' \subseteq Proposed /\ UNCHANGED Calls
  BY <1>1, <1>2, CopyMapped
<1>4. i \in reached[n] .. Len(CommittedLog)
  BY <1>1, <1>2, SnapshotIsAhead, CommittedLogIs
<1> HIDE DEF i
<1>5. [m \in Nodes |-> Covered(m)]' = [[m \in Nodes |-> Covered(m)] EXCEPT ![n] = i]
  <2>1. Covered(n)' = i /\ \A m \in Nodes \ {n} : Covered(m)' = Covered(m)
    BY <1>1, <1>2 DEF Covered, TypeOK
  <2> QED BY <2>1
<1> QED BY <1>1, <1>3, <1>4, <1>5 DEF Group!Restore

(* FSM.Apply gets the next committed entry, and its call is answered. *)
LEMMA ApplyMapped ==
  ASSUME IInv, NEW n \in Nodes, Apply(n)
  PROVE  Group!Apply(n)
<1> DEFINE i == applied[n] + 1
           e == committed[i]
<1>1. /\ n \in up /\ i <= Len(committed) /\ log[n][i] = e
      /\ store' = [store EXCEPT ![n][e.key] = e.val]
      /\ applied' = [applied EXCEPT ![n] = i]
      /\ reached' = [reached EXCEPT ![n] = IF i > reached[n] THEN i ELSE reached[n]]
      /\ waiting' = waiting \ Caller(n, i)
      /\ UNCHANGED <<leader, log, committed, snapshot, up, restored>>
  BY DEF Apply, Applicable, consensus, IInv, TypeOK
<1>2. TypeOK /\ i \in Nat /\ i \in 1 .. Len(committed)
  <2>1. applied[n] \in Nat /\ Len(committed) \in Nat /\ TypeOK
    BY Types DEF IInv
  <2> QED BY <1>1, <2>1
<1>3. Covered(n) + 1 = i /\ Len(CommittedLog) = Len(committed)
  BY <1>1, <1>2, CommittedLogIs DEF Covered
<1>4. CommittedLog[i] = Tagged(e, i)
  BY <1>2, CommittedLogIs
<1>5. CommittedLog[i].key = e.key /\ CommittedLog[i].val = e.val
  BY <1>4 DEF Tagged
<1>6. UNCHANGED CommittedLog /\ UNCHANGED Proposed
  BY <1>1 DEF CommittedLog, Proposed, LogEntries, CommittedEntries
<1> HIDE DEF e, i
<1>7. [m \in Nodes |-> Covered(m)]' = [[m \in Nodes |-> Covered(m)] EXCEPT ![n] = i]
  <2>1. Covered(n)' = i /\ \A m \in Nodes \ {n} : Covered(m)' = Covered(m)
    BY <1>1, <1>2 DEF Covered, TypeOK
  <2> QED BY <2>1
<1>8. Calls' = Calls \ {[node |-> n, entry |-> CommittedLog[i]]}
  <2>1. \A w \in waiting : CallOf(w)' = CallOf(w)
    BY <1>1 DEF CallOf
  <2>2. ASSUME NEW w \in waiting
        PROVE  w \in Caller(n, i) <=> CallOf(w) = [node |-> n, entry |-> CommittedLog[i]]
    <3>1. CASE w \in Caller(n, i)
      BY <1>1, <1>4, <3>1 DEF Caller, CallOf
    <3>2. CASE CallOf(w) = [node |-> n, entry |-> CommittedLog[i]]
      <4>1. w.node = n /\ Tagged(log[w.node][w.index], w.index) = Tagged(e, i)
        BY <1>4, <3>2 DEF CallOf
      <4>2. w.index = i
        BY <4>1, TagsTell
      <4> QED BY <3>2, <4>1, <4>2 DEF Caller
    <3> QED BY <3>1, <3>2
  <2>3. Calls' = {CallOf(w) : w \in waiting \ Caller(n, i)}
    BY <1>1, <2>1 DEF Calls
  <2> QED BY <2>2, <2>3 DEF Calls
<1> QED BY <1>1, <1>2, <1>3, <1>5, <1>6, <1>7, <1>8
        DEF Group!Apply, Group!NextEntry

(* A group starts as RaftGroup's does: nothing is committed or pending.    *)
LEMMA InitMapped == Init => Group!GroupInit
<1> SUFFICES ASSUME Init PROVE Group!GroupInit
  OBVIOUS
<1> USE DEF Init
<1>1. Len(committed) = 0 /\ \A n \in Nodes : Len(log[n]) = 0
  OBVIOUS
<1>2. CommittedLog = <<>>
  <2>1. CommittedLog \in Seq({}) /\ Len(CommittedLog) = 0
    BY <1>1 DEF CommittedLog
  <2> QED BY <2>1, EmptySeq
<1>3. Proposed = {} /\ Calls = {}
  BY <1>1 DEF Proposed, LogEntries, Calls
<1>4. [n \in Nodes |-> Covered(n)] = [n \in Nodes |-> 0]
  BY DEF Covered
<1> QED BY <1>2, <1>3, <1>4 DEF Group!GroupInit

(* Every step of raft, of a state machine or of a crash is one the group   *)
(* may take, or none that it sees.                                         *)
LEMMA StepMapped ==
  ASSUME IInv, [Next]_vars
  PROVE  [Group!GroupNext]_Group!group
<1>0. TypeOK /\ Elections /\ CallInv
  BY DEF IInv
<1>1. ASSUME NEW n \in Nodes, NEW bootstrap \in BOOLEAN, NewNode(n, bootstrap)
      PROVE  UNCHANGED Group!group
  <2>1. \A m \in Nodes : Covered(m)' = Covered(m)
    BY <1>0, <1>1 DEF NewNode, Covered, TypeOK
  <2>2. UNCHANGED <<leader, log, committed, waiting, store, reached, restored>>
    BY <1>1 DEF NewNode, history
  <2> QED BY <1>0, <2>1, <2>2, MappedSame
<1>2. ASSUME NEW n \in Nodes, JoinCluster(n)
      PROVE  UNCHANGED Group!group
  <2>1. UNCHANGED <<leader, log, committed, waiting, store, reached, restored,
                    up, applied, snapshot>>
    BY <1>2 DEF JoinCluster, titan, history
  <2> QED BY <1>0, <2>1, MappedSame DEF Covered
<1>3. ASSUME NEW n \in Nodes, Snapshot(n)
      PROVE  UNCHANGED Group!group
  <2>1. \A m \in Nodes : Covered(m)' = Covered(m)
    BY <1>0, <1>3 DEF Snapshot, Covered, TypeOK, titan
  <2>2. UNCHANGED <<leader, log, committed, waiting, store, reached, restored>>
    BY <1>3 DEF Snapshot, consensus, titan, history
  <2> QED BY <1>0, <2>1, <2>2, MappedSame
<1>4. ASSUME NEW n \in Nodes, Replicate(n)
      PROVE  Group!Forget
  <2>1. /\ leader # None /\ n # leader /\ log' = [log EXCEPT ![n] = log[leader]]
        /\ UNCHANGED <<leader, committed, waiting, store, reached, restored,
                       up, applied, snapshot>>
    BY <1>4 DEF Replicate, titan, history
  <2>2. UNCHANGED CommittedLog /\ Proposed' \subseteq Proposed /\ UNCHANGED Calls
    BY <1>0, <2>1, CopyMapped
  <2>3. UNCHANGED [m \in Nodes |-> Covered(m)]
    BY <2>1 DEF Covered
  <2> QED BY <2>1, <2>2, <2>3 DEF Group!Forget
<1>5. CASE UNCHANGED vars
  <2>1. UNCHANGED <<leader, log, committed, waiting, store, reached, restored,
                    up, applied, snapshot>>
    BY <1>5 DEF vars, consensus, titan, history
  <2> QED BY <1>0, <2>1, MappedSame DEF Covered
<1>6. ASSUME NEW n \in Nodes,
             Kill(n) \/ Elect(n) \/ InstallSnapshot(n) \/ Apply(n)
      PROVE  Group!GroupNext
  BY <1>6, KillMapped, ElectMapped, InstallMapped, ApplyMapped DEF Group!GroupNext
<1>7. ASSUME NEW n \in Nodes, NEW k \in Keys, NEW v \in Stored, ApplyLogEntry(n, k, v)
      PROVE  Group!GroupNext
  BY <1>7, ProposeMapped DEF Group!GroupNext
<1>8. CASE Commit
  BY <1>8, CommitMapped DEF Group!GroupNext
<1> QED BY <1>1, <1>2, <1>3, <1>4, <1>5, <1>6, <1>7, <1>8
        DEF Next, Put, Delete, Stored, Group!GroupNext

(* The nodes of one raft group, with their logs, elections, snapshots and  *)
(* crashes, implement the group that the sharded server builds on: one     *)
(* list of committed entries that each node applies in order.              *)
THEOREM GroupRefinement == Spec => KeepsGroupPromise
<1>1. Init => Group!GroupInit
  BY InitMapped
<1>2. IInv /\ [Next]_vars => [Group!GroupNext]_Group!group
  BY StepMapped
<1> QED BY <1>1, <1>2, InvariantHolds, PTL DEF Spec, KeepsGroupPromise, Group!GroupSpec
=============================================================================
