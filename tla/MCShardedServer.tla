-------------------------- MODULE MCShardedServer --------------------------
EXTENDS ShardedServer, TLC

Symmetry == Permutations(Nodes) \cup Permutations(Values) \cup Permutations(Ids)
=============================================================================
