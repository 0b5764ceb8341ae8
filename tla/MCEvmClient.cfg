CONSTANTS
    Sink = {s1, s2}
    Url = 3
    Liars = {2}
    SeqNos = {1, 2}
    Deadline = 1
    MaxPolls = 2
    MaxLag = 1
    MaxTime = 3
    MaxCalls = 2
    MaxReads = 1
    MaxReorgs = 1
SPECIFICATION Spec
CONSTRAINT Focus
SYMMETRY Symmetry
CHECK_DEADLOCK FALSE
INVARIANT ReadsAreEarned
INVARIANT OutcomesHold
