CONSTANTS
    Worker = {w1, w2}
    Caller = {c1}
    Message = {m1}
    None = None
    MaxDequeue = 2
    CancelAttempts = 1
    RejectsUndefined = FALSE
    MaxReceives = 3
    MaxRenewals = 1
    MaxCrashes = 0
SPECIFICATION Spec
SYMMETRY WorkerSymmetry
CHECK_DEADLOCK FALSE
INVARIANTS TypeOK UniqueHolder QuarantineLeavesEvidence
PROPERTIES NoReceiptAfterCancellation HolderCompletes
