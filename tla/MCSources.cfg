SPECIFICATION MCSpec
CONSTANTS
    Runner = {r1, r2}
    KINDS = {k1, k2}
    None = None
    limit = 1
    max_pages = 2
    MaxSequence = 3
    MaxFaults = 1
    Content = {1, 2}
    Foreign = {2}
    MaxLen = 4
    MaxEdits = 1
    MaxKept = 2
    MaxTree = 9
    Null = Null
    IncidentId = {"i1", "i2"}
    Incidents <- MCIncidents
    lease_size = 2
    window_h = 1
    MaxTickets = 6
    MaxRows = 2
    MaxNow = 2
    Stdin = {"claude_code", "codex"}
    Remote = {"claude_code"}
    Listener = {"agt"}
    Governed = {"agt"}
    Plugin = {"hermes"}
    Project = {"p"}
    Unset = Unset
    MaxEvents = 2
    MaxChanges = 2
    MaxSegment = 1
SYMMETRY Symmetry
CONSTRAINT Focus
CHECK_DEADLOCK FALSE
INVARIANT IngestedOnceInOrder
INVARIANT NoHoleIsSilent
 
INVARIANT ExtensionVerdictsHold
 
 
