CONSTANTS
    Job = {j1}
    Caller = {c1, c2}
    Poller = Poller
    Expirer = Expirer
    None = None
    Fault = {}
    MaxFaults = 0
    MaxDecisions = 2
    EarlyRequests = FALSE
SPECIFICATION Spec
CHECK_DEADLOCK FALSE
PROPERTY ReplaysFreeNothingInUse
