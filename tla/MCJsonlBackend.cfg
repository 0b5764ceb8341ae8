CONSTANTS
    Writer = {w1, w2}
    Payload = {p1, p2, p3, p4}
    NoWriter = NoWriter
    NoCall = NoCall
    Unparseable = Unparseable
    Version = {v1}
    Fingerprint = v1
    ScanEvery = 2
    ShortWrites = {"nothing", "torn", "no_newline"}
    MaxCrashes = 2
    MaxDamage = 1
SPECIFICATION WholeSpec
CHECK_DEADLOCK FALSE
INVARIANT NoFork
INVARIANT WritersKeepTheFile
PROPERTY RefinesAppendOnlyLog
PROPERTY EveryCallEnds
