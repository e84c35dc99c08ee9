------------------------------ MODULE MCLedger ------------------------------
EXTENDS Ledger, TLC

Symmetry == Permutations(OwnerContent) \cup Permutations(KitContent)
=============================================================================
