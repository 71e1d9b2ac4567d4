CONSTANTS
    Job = {j1, j2}
    None = None
    Capacity = 2
    MaxLeases = 2
    MaxOrphans = 1
    MaxCrashes = 1
SPECIFICATION Spec
INVARIANTS TypeOK OneExecution SettledMeansStopped ClaimsOnlyWhenStopped CancellationHonoured
SYMMETRY JobSymmetry
PROPERTIES ImplementsHandoff ImplementsDispatching
