CONSTANTS
    Writer = {w1, w2, w3}
    Event = {e1, e2, e3}
    Kinds = {"s3", "sqlite", "postgres", "memory"}
    MaxRetries = 2
    MaxFaults = 2
    Archiver = {"a1", "a2"}
    Settings = {"", "other_scheme", "s3_no_bucket", "s3", "http"}
    Retain <- MCRetain
    Locks = {"off", "on", "COMPLIANCE", "GOVERNANCE"}
    MaxClock = 1
SPECIFICATION MCSpec
SYMMETRY Symmetry
CHECK_DEADLOCK FALSE
INVARIANT RowsAreOneChain
INVARIANT AppendOutcomesHold
 
