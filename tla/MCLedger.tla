------------------------------ MODULE MCLedger -------------------------------
(* Instances of Ledger for TLC.                                            *)
EXTENDS Ledger, TLC

Symmetry == Permutations(Hash) \cup Permutations(Trail)
==============================================================================
