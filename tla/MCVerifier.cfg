\* Two verifiers share a pin; one job at a time anchors a growing trail.
CONSTANTS
    Verifier <- Verifiers
    Sink <- Sinks
    Witness = {w1}
    Options <- MCOptions
    Binding = {TRUE}
    Acked = {TRUE}
    MaxRows = 2
    MaxJobs = 1
    MaxNow = 1
    Incidents = {"truncate", "rewrite", "edit", "newer_row", "strip", "newer_line", "swap_token", "resign_token", "tear", "lose_pin", "garble_pin", "newer_pin", "other_pin", "malformed", "newer"}
    MaxIncidents = 1
SPECIFICATION VerifierSpec
CONSTRAINT Focus
CHECK_DEADLOCK FALSE
INVARIANT QuietTrailRaisesNoAlarm
INVARIANT CorroborationIsReal
 
