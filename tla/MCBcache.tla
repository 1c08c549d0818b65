------------------------------ MODULE MCBcache ------------------------------
(* Instances of Bcache for TLC. *)
EXTENDS BcacheInv, TLC

Symmetry == Permutations(Proc) \cup Permutations(Buf) \cup Permutations(Block)
            \cup Permutations(Data)
=============================================================================
