CONSTANTS
    Key = {k1, k2}
    Fingerprint = {f1, f2}
    MaxRecords = 2
    None = None
    MaxEffects = 2
    MaxFailures = 1
    MaxCrashes = 1
SPECIFICATION FairSpec
CHECK_DEADLOCK FALSE
INVARIANTS TypeOK
PROPERTIES AnsweredOnce ExecutionEnds
