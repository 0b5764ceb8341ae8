----------------------------- MODULE MCVerifier -----------------------------
(* Instances of Verifier for TLC.                                          *)
EXTENDS Verifier, TLC

\* Every dimension measured, with nothing declared.
AllMeasured == [NoOption EXCEPT !.anchors = TRUE, !.ca = TRUE, !.witness = TRUE,
                                !.pin = TRUE]

\* The first of them to declare what later runs hold it to.
Declares == [AllMeasured EXCEPT !.ledger = TRUE, !.declare =
    [bind |-> TRUE, age |-> 0,
     topo |-> [declared |-> TRUE, sinks |-> 1, witness |-> TRUE, ledger |-> TRUE]]]

\* A run that only keeps the pin.
PinOnly == [NoOption EXCEPT !.pin = TRUE]

Verifiers == {"auditor", "second"}
Sinks == <<"rfc3161", "ots">>
MCOptions == [v \in Verifiers |-> IF v = "auditor" THEN {AllMeasured, Declares, PinOnly}
                                                   ELSE {PinOnly}]

\* Which combinations are explored: several sinks on a trail of one row, the
\* timestamping one on a longer trail, time passing while one row is anchored
\* at one sink, and the runs that only keep the pin, of one verifier or of two,
\* while no job has run.
Focus ==
    /\ Len(trail) > 1 => job.ask \subseteq {"rfc3161"} /\ clock = 0
    /\ clock > 0 => Cardinality(job.ask) <= 1
    /\ run["second"].pc # "idle" =>
         jobs = 0 /\ clock = 0 /\ run["auditor"].opt \in {PinOnly, NoOption}
    /\ run["auditor"].opt = PinOnly => jobs = 0

==============================================================================
