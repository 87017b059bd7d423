----------------------------- MODULE MCBitcask -----------------------------
EXTENDS BitcaskInvariant, TLC

Symmetry == Permutations(Keys) \cup Permutations(Values)

(* A tombstone is shorter than a record with a value. *)
Sizes == [k \in Keys |-> [v \in Stored |-> IF v = NoValue THEN 1 ELSE 2]]

(* One key is longer than the others, so records of two keys never have    *)
(* the same length, unless one of them is a tombstone.                     *)
UnequalSizes ==
  [k \in Keys |-> [v \in Stored |->
     (IF k = CHOOSE x \in Keys : TRUE THEN 1 ELSE 2) + (IF v = NoValue THEN 0 ELSE 1)]]
=============================================================================
