--------------------------- MODULE MCReplication ---------------------------
EXTENDS ReplicationInvariant, TLC

Symmetry == Permutations(Nodes \ {Boot})
=============================================================================
