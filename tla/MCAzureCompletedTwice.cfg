CONSTANTS
    Worker = {w1, w2}
    Caller = {c1}
    Message = {m1}
    None = None
    MaxDequeue = 2
    CancelAttempts = 0
    RejectsUndefined = FALSE
    MaxReceives = 3
    MaxRenewals = 1
    MaxCrashes = 0
SPECIFICATION Spec
CHECK_DEADLOCK FALSE
PROPERTIES NoExecutionAfterCompletion
