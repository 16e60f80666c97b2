---------------------------- MODULE MCNodeMigration ----------------------------
(* NodeMigration on small instances. *)
EXTENDS NodeMigration, TLC
=============================================================================
