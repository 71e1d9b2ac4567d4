CONSTANTS
    q1 = q1
    q2 = q2
    n1 = n1
    j1 = j1
    j2 = j2
    Requester = {q1, q2}
    Tenant = {n1}
    Job = {j1, j2}
    Uuid = {u1, u2}
    TenantOf <- MCTenantOf
    OwnerOf <- MCOwnerOf
    GlobalLimit = 2
    PerTenantLimit = 2
    PerRequesterLimit = 1
    None = None
    MaxChain = 2
SPECIFICATION FairSpec
INVARIANTS TypeOK JobIndexExact WithinLimits JournalAgrees
PROPERTIES FreedOnlyByRelease ImplementsAdmissions ChainDrains
