------------------------------ MODULE MCStorage ------------------------------
(***************************************************************************)
(* Instances of Backends and SegmentArchive for TLC.  The two share no     *)
(* state, so a behaviour is explored in which only one of them moves.      *)
(***************************************************************************)
EXTENDS Backends, SegmentArchive, TLC

MCRetain == {{}} \cup {{[mode |-> m, until |-> 1]} : m \in {"COMPLIANCE", "GOVERNANCE"}}

MCInit == Init /\ ArchiveInit /\ (kind = "memory" \/ olock = "off")

NoRowYet == faults = 0 /\ Begun = {}
NoCopyYet == arch = [a \in Archiver |-> Attempt] /\ clock = 0 /\ bucketSaid = "none" /\ listed = {}

MCNext ==
    \/ NoCopyYet /\ olock = "off" /\ Next /\ UNCHANGED archiveVars
    \/ NoRowYet /\ kind = "memory" /\ ArchiveNext /\ UNCHANGED vars

MCSpec == MCInit /\ [][MCNext]_<<vars, archiveVars>>

Symmetry == Permutations(Writer) \cup Permutations(Event)
==============================================================================
