SPECIFICATION ServicesSpec
CONSTANTS
    m1 = m1
    m2 = m2
    g1 = g1
    g2 = g2
    b1 = b1
    u1 = u1
    p1 = p1
    Inbound = {m1, m2}
    Injected = {g1, g2}
    Replica = other
    NoMessage = NoMessage
    MaxConcurrent = 2
    MaxIterations = 2
    MaxCalls = 1
    Settings <- MCGroups
    Tasks = {k1, k2}
    Batches = {b1}
    BatchOf <- OneBatch
    Users = {u1}
    UserOf <- OneUser
    Slots = {w1, w2}
    ProcOf <- OneProcess
    None = None
    GlobalConcurrency = 1
    PerUserBurstConcurrency = 2
    MaxRetry = 1
    ArtifactByteLimit = 1
    MaxGeneration = 3
    MaxFaults = 1
INVARIANT ResultsAreSingle
\* All messages settled or all batches ended: the model stops.
CHECK_DEADLOCK FALSE
