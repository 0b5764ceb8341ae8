\* Two writers, a reader and a rotating server; requests and answers get lost.
CONSTANTS
    Client = {c1, c2}
    Event = {e1, e2, e3}
    NoEvent = NoEvent
    MaxSegment = 2
    MaxRaceRetries = 2
    PageSize = 1
    FaultKinds = {"lost", "ack", "torn", "sidecar"}
    MaxFaults = 1
    MaxReads = 1
SPECIFICATION Spec
INVARIANT ChainNeverForks
 
INVARIANT AnswersHold
PROPERTY EveryCallEnds
