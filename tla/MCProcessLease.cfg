CONSTANTS
    Process = {e1, a, b, c}
    Earlier = {e1}
    NStores = 2
    None = None
SPECIFICATION FairSpec
CHECK_DEADLOCK FALSE
INVARIANTS TypeOK LiveLeaseKept SomeoneGetsTheStores
PROPERTIES HomeExclusive AcquisitionEnds
