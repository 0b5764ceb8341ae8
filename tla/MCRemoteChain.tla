---------------------------- MODULE MCRemoteChain ----------------------------
(* Instances of RemoteChain for TLC.                                       *)
EXTENDS RemoteChain, TLC

Symmetry == Permutations(Client) \cup Permutations(Event)
==============================================================================
