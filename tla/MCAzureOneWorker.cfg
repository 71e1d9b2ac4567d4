CONSTANTS
    Worker = {w1}
    Caller = {c1, c2}
    Message = {m1, m2}
    None = None
    MaxDequeue = 2
    CancelAttempts = 1
    RejectsUndefined = FALSE
    MaxReceives = 4
    MaxRenewals = 0
    MaxCrashes = 1
SPECIFICATION FairSpec
CHECK_DEADLOCK FALSE
INVARIANTS RecoverableWhileLeased UnclaimedTaskIsQueued
PROPERTIES NoExecutionAfterCompletion EverySentTaskSettles
