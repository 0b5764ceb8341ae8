----------------------------- MODULE MCSources ------------------------------
(***************************************************************************)
(* Instances of Ingest, ProofBundles, Records and Hooks for TLC.  They     *)
(* share no state beyond the trail each has its own view of, so a          *)
(* behaviour is one of the parts moving and the others at rest.            *)
(***************************************************************************)
EXTENDS Ingest, ProofBundles, Records, Hooks, TLC

VARIABLE part

Parts == {"ingest", "proofs", "records", "hooks"}

Incident(id, confirmed, reported, ref) ==
    [incident_id |-> id, confirmed_at |-> confirmed, reported_at |-> reported, report_ref |-> ref]

MCIncidents ==
    {Incident("i1", t, Null, Null) : t \in {Null, Naive, 0, 1}}
    \cup {Incident("i1", 0, t, "ref") : t \in {Null, Naive, 1, 2}}
    \cup {Incident("i1", 2, 1, "ref"), Incident("i2", Naive, 1, Null)}

\* Evidence kept outside is explored one kind at a time, over trails with at
\* most one entry of unknown fingerprint; tickets apart from the other records.
Focus ==
    /\ Cardinality({x \in {recorded, bindings} : x # {}})
         + (IF bundle = Quiet THEN 0 ELSE 1) <= 1
    /\ Cardinality({i \in DOMAIN body : body[i] \in Foreign}) <= 1
    /\ granted = 0 \/ \A i \in DOMAIN rows : rows[i].type = TICKET

mcVars == <<part, ingestVars, proofVars, recordVars, hookVars>>

MCInit == part \in Parts /\ IngestInit /\ ProofInit /\ RecordInit /\ HookInit

MCNext ==
    /\ UNCHANGED part
    /\ \/ part = "ingest" /\ IngestNext /\ UNCHANGED <<proofVars, recordVars, hookVars>>
       \/ part = "proofs" /\ ProofNext /\ UNCHANGED <<ingestVars, recordVars, hookVars>>
       \/ part = "records" /\ RecordNext /\ UNCHANGED <<ingestVars, proofVars, hookVars>>
       \/ part = "hooks" /\ HookNext /\ UNCHANGED <<ingestVars, proofVars, recordVars>>

MCSpec == MCInit /\ [][MCNext]_mcVars

Symmetry == Permutations(Runner) \cup Permutations(KINDS)
==============================================================================
