SPECIFICATION Spec
CONSTANTS
    k1 = k1
    k2 = k2
    k3 = k3
    d1 = d1
    d2 = d2
    u1 = u1
    u2 = u2
    w1 = w1
    w2 = w2
    p1 = p1
    Tasks = {k1, k2, k3}
    Docs = {d1, d2}
    Users = {u1}
    Slots = {w1, w2}
    DocOf <- Documents
    UserOf <- OneUser
    ProcOf <- OneProcess
    None = None
    GlobalConcurrency = 2
    PerUserBurstConcurrency = 1
    MaxRetry = 1
    MaxGeneration = 3
    MaxCopies = 2
    Bounds <- SupersedeOrCompete
SYMMETRY Symmetry
INVARIANTS TaskTypeOK CapacityHeld TargetsAgree VersionsAccounted SingleLiveFence DispatchedIsDelivered
PROPERTY NothingGoesBack
\* All tasks ended: the model stops.
CHECK_DEADLOCK FALSE
