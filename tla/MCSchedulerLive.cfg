SPECIFICATION FairSpec
CONSTANTS
    t1 = t1
    t2 = t2
    k1 = k1
    k2 = k2
    Tenants = {t1, t2}
    Tasks = {k1, k2}
    TenantOf <- TwoTenants
    Procs = {p1}
    TurnTokens = {x1, x2, x3, x4}
    Attempts = {a1, a2, a3, a4}
    Stables <- MCStables
    None = None
    GlobalConcurrency = 1
    PerUserBaseConcurrency = 1
    PerUserBurstConcurrency = 1
    BorrowEnabled = FALSE
    ProcessingTurnTTL = 1
    ProvisionalTTL = 1
    ReservationTTL = 1
    TurnScanBatch = 2
    CleanupBatch = 2
    ReconcilePageSize = 2
    MaxGeneration = 12
    MaxTime = 1
    MaxCopies = 2
    MaxClaims = 2
    Bounds <- CrashOrPass
INVARIANT NoHiddenMessage
PROPERTY EveryTaskEnds
\* All tasks done and all time used up: the model stops.
CHECK_DEADLOCK FALSE
