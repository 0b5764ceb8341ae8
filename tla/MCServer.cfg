CONSTANTS
    Client = {c1, c2}
    User = {"admin"}
    Key = {k1, k2}
    Roles = {"admin", "writer"}
    Asked <- MCAsked
    Seeds <- MCSeeds
    Stores = {"postgres", "memory"}
    MaxCalls = 4
    Reader = {c1, c2}
    Command = {"verify", "ledger-status", "gone"}
    Network = {"ledger-status"}
    Absent = {"gone"}
    Paths = 2
    TTL = 1
    Timeout = 1
    CacheSize = 1
    MaxTime = 3
    MaxWrites = 2
    MaxForged = 1
    MaxReads = 2
SPECIFICATION MCSpec
SYMMETRY Symmetry
CHECK_DEADLOCK FALSE
INVARIANT RequestsSeeOneStore
PROPERTY OnlySuppliedFieldsChange
INVARIANT ServedIsCurrent
