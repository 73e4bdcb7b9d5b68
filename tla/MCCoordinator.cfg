SPECIFICATION CoordinatorSpec
CONSTANTS
    Tenants = {t1, t2, t3}
    TurnTokens = {k1, k2}
    Attempts = {a1}
    Stables = {s1}
    None = None
    GlobalConcurrency = 2
    PerUserBaseConcurrency = 1
    PerUserBurstConcurrency = 2
    BorrowEnabled = TRUE
    ProcessingTurnTTL = 1
    ProvisionalTTL = 1
    ReservationTTL = 1
    TurnScanBatch = 2
    CleanupBatch = 2
    ReconcilePageSize = 2
    MaxGeneration = 2
    MaxTime = 2
SYMMETRY Symmetry
INVARIANTS CoordinatorInv ActiveIsScheduled NoSpuriousCorruption
PROPERTIES RoundRobin ImplementsTenantQueue
