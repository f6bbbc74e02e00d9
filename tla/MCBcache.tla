------------------------------ MODULE MCBcache ------------------------------
(* Small instances of Bcache. *)
EXTENDS Bcache, TLC

BcacheSymmetry == Permutations(Proc) \cup Permutations(Block) \cup Permutations(Val)

=============================================================================
