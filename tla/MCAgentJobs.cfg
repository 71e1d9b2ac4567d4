CONSTANTS
    Job = {j1}
    Caller = {c1, c2}
    Poller = Poller
    Expirer = Expirer
    None = None
    Fault = {"create", "dispatch", "start", "update", "asked", "release", "marker"}
    MaxFaults = 1
    MaxDecisions = 2
    EarlyRequests = FALSE
SPECIFICATION FairSpec
CHECK_DEADLOCK FALSE
INVARIANTS TypeOK ActiveJobsAreCounted HeldCapacityIsVisible OneEnding
PROPERTIES StartsOnce EndingStands ResultsArrive RequestsEnd
