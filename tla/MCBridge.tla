------------------------------ MODULE MCBridge ------------------------------
EXTENDS Bridge, TLC

(* Which push has which connection, and what the blocks say, is immaterial. *)
Symmetry == Permutations(Pushes) \cup Permutations(Block)
=============================================================================
