CONSTANTS
    t1 = t1
    t2 = t2
    t3 = t3
    l1 = l1
    l2 = l2
    Log = {l1, l2}
    Thread = {t1, t2, t3}
    LogOf <- MCLogOf
    NoThread = NoThread
    NoEvent = NoEvent
    AnchorEvery = 2
    TryCallers = {t1, t2, t3}
    Event = {e1, e2, e3}
    MaxAnchors = 1
    FaultKinds = {"append", "read", "seal", "sink", "damage"}
    MaxFaults = 1
SPECIFICATION Spec
CHECK_DEADLOCK FALSE
INVARIANT CheckpointsVerify
INVARIANT LossesAreCounted
INVARIANT CadenceKept
PROPERTY EveryCallReturns
