CONSTANTS
    m1 = m1
    m2 = m2
    t1 = t1
    c1 = c1
    d1 = d1
    s1 = s1
    s2 = s2
    NoActor = NoActor
    ManualActors = {m1, m2}
    TypedActors = {t1}
    Components = {c1, d1}
    DefaultComponents = {d1}
    DefaultCounts = {1}
    Subsystems = {s1, s2}
    MaxComponents = 1
    MaxRequests = 1
    MaxSpawnGeneration = 1
    Capacity = 2
    Loseable = {c1, m2, s2}
    MaxLost = 1
SPECIFICATION FairSpec
INVARIANTS
    NoHalfPlay
    RegistrySound
    RequestsAccounted
PROPERTIES
    StartAndStopInOrder
    BarrierIsFrozen
    EveryRequestIsServed
