----------------------------- MODULE MCEvmClient -----------------------------
(* Instances of EvmClient for TLC.                                         *)
EXTENDS EvmClient, TLC

Symmetry == Permutations(Sink)

\* A read runs after one call at most, whose transaction is mined or gone;
\* it may still become final under the read.  What is not finalized no read
\* sees, so reorgs are left to the sinks.
Focus == rd.n > 0 => /\ Cardinality(ended) <= 1 /\ \A s \in Sink : job[s].pc = "idle"
                     /\ pool = {} /\ reorgs = 0 /\ now <= 2
                     /\ \A e \in ended : e.how # "refused" /\ e.op[2] <= 1

==============================================================================
