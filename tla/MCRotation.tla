----------------------------- MODULE MCRotation -----------------------------
(* Instances of Rotation for TLC.                                          *)
EXTENDS Rotation, TLC

Symmetry == Permutations(Hook) \cup Permutations(Server)
==============================================================================
