CONSTANTS
    Writer = {w1, w2}
    Nobody = Nobody
    Schemes = {"hmac", "agg", "sig"}
    MaxRows = 3
    Incidents = {"key", "agg", "line", "torn", "crash", "restart", "verify",
                 "anchor", "truncate", "backup", "restore"}
    MaxIncidents = 3
    MaxRaceIncidents = 2
SYMMETRY Symmetry
SPECIFICATION TrailSpec
CHECK_DEADLOCK FALSE
INVARIANT SealsAreSound
INVARIANT NoFalseAlarm
INVARIANT RewindIsCaught
