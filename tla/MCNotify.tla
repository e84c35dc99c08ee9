------------------------------ MODULE MCNotify ------------------------------
EXTENDS Notify, TLC

(* The deliverers run the same code: the path unit's and the health run's. *)
Symmetry == Permutations(Deliverers)
=============================================================================
