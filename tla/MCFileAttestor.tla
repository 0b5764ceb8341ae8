--------------------------- MODULE MCFileAttestor ---------------------------
(* Instances of FileAttestor, used in either way, for TLC.                 *)
EXTENDS SealedTrail, TLC

Symmetry == Permutations(Writer)
=============================================================================
