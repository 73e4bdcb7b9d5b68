SPECIFICATION Spec
CONSTANTS
    t1 = t1
    t2 = t2
    k1 = k1
    k2 = k2
    Tenants = {t1}
    Tasks = {k1, k2}
    TenantOf <- OneTenant
    Procs = {p1, p2}
    TurnTokens = {x1, x2, x3}
    Attempts = {a1, a2, a3}
    Stables <- MCStables
    None = None
    GlobalConcurrency = 1
    PerUserBaseConcurrency = 1
    PerUserBurstConcurrency = 1
    BorrowEnabled = TRUE
    ProcessingTurnTTL = 1
    ProvisionalTTL = 1
    ReservationTTL = 1
    TurnScanBatch = 2
    CleanupBatch = 2
    ReconcilePageSize = 2
    MaxGeneration = 8
    MaxTime = 1
    MaxCopies = 1
    MaxClaims = 1
    Bounds <- AnyFailure
SYMMETRY Symmetry
INVARIANTS SchedulerTypeOK NoHiddenMessage CapacityRespected NoReservationLeak
\* All tasks done and all time used up: the model stops.
CHECK_DEADLOCK FALSE
