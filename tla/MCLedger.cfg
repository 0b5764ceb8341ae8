\* An honest writer and a forking one whose account has code; each may prove
\* against the other.
CONSTANTS
    Honest = {hw}
    Forker = {fw}
    Reentrant = {fw}
    Trail = {ta, tb}
    Hash = {h1, h2}
    MaxLeaves = 2
    MaxSigned = 2
    Amounts = {1, 2}
    MaxBond = 3
    withdrawDelay = 1
    deadline = 1
    MaxTime = 2
    MaxCalls = 4
    MaxDepth = 2
SYMMETRY Symmetry
SPECIFICATION Spec
CHECK_DEADLOCK FALSE
INVARIANT Solvent
INVARIANT HonestIsNeverSlashed
 
INVARIANT PublicHeadsAreOneChain
PROPERTY DelaysStand
