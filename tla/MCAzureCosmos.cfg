CONSTANTS
    Worker = {w1}
    Caller = {c1}
    Message = {m1}
    None = None
    MaxDequeue = 2
    CancelAttempts = 0
    RejectsUndefined = TRUE
    MaxReceives = 3
    MaxRenewals = 1
    MaxCrashes = 0
SPECIFICATION Spec
CHECK_DEADLOCK FALSE
PROPERTIES HolderCompletes
