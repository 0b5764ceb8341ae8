--------------------------- MODULE MCJsonlBackend ---------------------------
(* Instances of JsonlBackend, with its contract, for TLC.                  *)
EXTENDS JsonlAsLog, TLC

\* Writers are interchangeable, and so are payloads: no action tells one
\* from another.  Used by the run that checks no liveness.
Symmetry == Permutations(Writer) \cup Permutations(Payload)
==============================================================================
