----------------------------- MODULE SealedTrail -----------------------------
(***************************************************************************)
(* FileAttestor in the two ways it is used.  In a behaviour either any     *)
(* number of processes race and anything may fail, or one process seals,   *)
(* restarts and anchors while the files are truncated or put back to an    *)
(* older copy.                                                             *)
(***************************************************************************)
EXTENDS FileAttestor

CONSTANTS Nobody,
          MaxRaceIncidents \* bound: incidents of a race

ASSUME SealedTrailAssumption == Nobody \notin Writer

VARIABLE alone  \* the one process of a behaviour of the second kind, or Nobody

trailVars == <<vars, alone>>

TrailInit == Init /\ alone \in Writer \cup {Nobody}

TrailNext ==
    /\ Next /\ UNCHANGED alone
    /\ IF alone # Nobody
       THEN /\ \A w \in Writer \ {alone} : pc'[w] = pc[w]
            /\ scheme'[alone] # SIG_SCHEME
       ELSE /\ SumFunction(incidents') <= MaxRaceIncidents
            /\ anchored' = {} /\ removed' = {} /\ backup' = backup

TrailSpec == TrailInit /\ [][TrailNext]_trailVars

\* One process never makes its own trail look bad: nothing failed, so no
\* verification beside it accuses a row, none at rest finds a seal broken, and
\* what was anchored verifies (verify_sidecar, verify_anchored_aggregates).
\* Two processes are another matter: see NoAlarmWithoutFailure.
NoFalseAlarm ==
    alone # Nobody => LiveVerdictIsHonest /\ NoAlarmWithoutFailure /\ AnchoredAggregatesVerify
=============================================================================
