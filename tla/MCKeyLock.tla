------------------------------ MODULE MCKeyLock ------------------------------
(* KeyLock on a small instance, with the symmetry of callers and keys. *)
EXTENDS KeyLock, TLC

Symmetry == Permutations(Procs) \cup Permutations(Keys)
=============================================================================
