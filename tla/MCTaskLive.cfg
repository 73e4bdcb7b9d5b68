SPECIFICATION TaskLiveSpec
CONSTANTS
    k1 = k1
    k2 = k2
    k3 = k3
    d1 = d1
    d2 = d2
    u1 = u1
    u2 = u2
    w1 = w1
    w2 = w2
    p1 = p1
    c1 = c1
    Tasks = {k1, k3}
    Docs = {d1, d2}
    Users = {u1}
    Slots = {w1}
    DocOf <- Documents
    UserOf <- OneUser
    ProcOf <- OneProcess
    None = None
    GlobalConcurrency = 2
    PerUserBurstConcurrency = 1
    MaxRetry = 1
    MaxGeneration = 4
    MaxCopies = 1
    Bounds <- Compete
    Permits = {1, 2}
    Dispatches = {c1}
    LocalWorkers = 2
    RuntimeScenarios <- MCScenarios
INVARIANTS GenerationsDoNotOverlap FatalStopsRuns ShutdownHandsBack
PROPERTIES EveryRowEnds ShutdownCompletes
\* All tasks ended or the runtime shut down: the model stops.
CHECK_DEADLOCK FALSE
