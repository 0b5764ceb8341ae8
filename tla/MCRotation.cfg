\* Two hooks and a server handler share one directory.
CONSTANTS
    Hook = {h1, h2}
    Server = {s1}
    NoWriter = NoWriter
    MaxSegment = 2
    MaxRows = 5
    Incidents = {"torn", "archive", "bind", "crash", "crash_bind", "delete"}
    MaxIncidents = 1
SPECIFICATION Spec
CHECK_DEADLOCK FALSE
INVARIANT SegmentVerdictHolds
INVARIANT SegmentsCloseOnce
PROPERTY EveryAppendEnds
