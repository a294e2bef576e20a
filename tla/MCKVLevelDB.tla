----------------------------- MODULE MCKVLevelDB -----------------------------
(* A small instance of KVLevelDB for TLC, and the mutants of its code. *)
EXTENDS KVLevelDB, TLC

Perms == Permutations(Key) \union Permutations(Tx) \union Permutations(Val)
=============================================================================
