CONSTANTS
    Writer = {w1, w2}
    Payload = {p1, p2, p3}
    NoWriter = NoWriter
    NoCall = NoCall
    Unparseable = Unparseable
    Version = {v1}
    Fingerprint = v1
    ScanEvery = 2
    ShortWrites = {"nothing", "torn", "no_newline"}
    MaxCrashes = 1
    MaxDamage = 0
SYMMETRY Symmetry
SPECIFICATION WholeSpec
CHECK_DEADLOCK FALSE
INVARIANT ReturnedIsCommitted
