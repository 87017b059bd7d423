------------------------------ MODULE KVStore ------------------------------
(***************************************************************************)
(* What the storage API (storage/api.go) promises to its callers, with no  *)
(* files, offsets or index in sight: one writer at a time, reads answered  *)
(* from `store', a write that returned without an error survives every     *)
(* crash, and a write cut short by a crash either happened or did not.     *)
(***************************************************************************)
CONSTANTS Keys, Values, NoValue

VARIABLES
  store,     \* store[k]: what a Get of k returns, NoValue for "key not found"
  outcomes,  \* outcomes[k]: the values a power failure may leave for k
  pending,   \* the writes begun and not yet answered: at most one record
  status     \* "up", "down", or "refused": the store cannot be opened again

kvVars == <<store, outcomes, pending, status>>

Stored == Values \cup {NoValue}

Write == [key : Keys, val : Stored]

(* The types of what the API shows. *)
TypeOK ==
  /\ store \in [Keys -> Stored]
  /\ outcomes \in [Keys -> SUBSET Stored]
  /\ pending \in SUBSET Write
  /\ status \in {"up", "down", "refused"}

Init ==
  /\ store = [k \in Keys |-> NoValue]
  /\ outcomes = [k \in Keys |-> {NoValue}]
  /\ pending = {}
  /\ status = "down"

(* api.Put and api.Delete: a Delete is the write of NoValue, and is only   *)
(* begun for a key that is there.                                          *)
Begin ==
  /\ status = "up"
  /\ pending = {}
  /\ \E w \in Write :
       /\ w.val = NoValue => store[w.key] # NoValue
       /\ pending' = {w}
  /\ UNCHANGED <<store, outcomes, status>>

(* The stores and outcomes in which a power failure may bring back values  *)
(* in outs, or fewer of them, and what a caller sees is one that it may.   *)
Narrowed(outs) ==
  {p \in [Keys -> Stored] \X [Keys -> SUBSET Stored] :
     \A k \in Keys : p[2][k] \subseteq outs[k] /\ p[1][k] \in p[2][k]}

(* The write returns without an error: from now on it is the only outcome. *)
Acknowledge ==
  \E w \in pending :
    /\ store' = [store EXCEPT ![w.key] = w.val]
    /\ <<store', outcomes'>> \in Narrowed([outcomes EXCEPT ![w.key] = {w.val}])
    /\ pending' = {}
    /\ UNCHANGED status

(* The write returns an error and has no effect. *)
Fail ==
  /\ pending # {}
  /\ pending' = {}
  /\ UNCHANGED <<store, outcomes, status>>

(* Nothing a caller sees changes, but values that a power failure could    *)
(* have brought back no longer can.                                        *)
Settle ==
  /\ status = "up"
  /\ UNCHANGED <<store, pending, status>>
  /\ <<store', outcomes'>> \in Narrowed(outcomes)

(* A kill or a power failure: each key keeps one of its possible values,   *)
(* and only the write that was under way may add one.                      *)
Crash ==
  LET possible == [k \in Keys |->
                     outcomes[k] \cup {w.val : w \in {p \in pending : p.key = k}}]
  IN /\ status \in {"up", "down"}
     /\ status' = "down"
     /\ pending' = {}
     /\ <<store', outcomes'>> \in Narrowed(possible)

Open ==
  /\ status = "down"
  /\ status' = "up"
  /\ UNCHANGED <<store, outcomes, pending>>

(* The files on disk cannot be replayed: NewBitcask returns an error. *)
Refuse ==
  /\ status = "down"
  /\ status' = "refused"
  /\ UNCHANGED <<store, outcomes, pending>>

Next ==
  \/ Crash \/ Open \/ Refuse
  \/ Begin \/ Acknowledge \/ Fail \/ Settle

Spec == Init /\ [][Next]_kvVars
=============================================================================
