CONSTANTS
    m1 = m1
    t1 = t1
    c1 = c1
    NoActor = NoActor
    ManualActors = {m1}
    TypedActors = {t1}
    Components = {c1}
    DefaultComponents = {}
    DefaultCounts = {0}
    Subsystems = {}
    MaxComponents = 1
    MaxRequests = 1
    MaxSpawnGeneration = 1
    Capacity = 2
    Loseable = {}
    MaxLost = 0
SPECIFICATION Spec
INVARIANT
    QueuedRequestsWait
