--------------------------- MODULE MCShardMigration ---------------------------
(* ShardMigration on small instances. *)
EXTENDS ShardMigration, TLC

Symmetry == Permutations(Nodes) \cup Permutations(Callers)
=============================================================================
