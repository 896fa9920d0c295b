CONSTANTS
    c1 = c1
    c2 = c2
    outdated = outdated
    Clients = {c1}
    Server = Server
    NoRoute = NoRoute
    MaxPeers = 1
    MaxAttempt = 2
    MaxGeneration = 2
    HeartbeatInterval = 1
    PeerTimeout = 2
    FrameLengths = {2}
    WireCapacity = 2
    Duplicates = FALSE
    AutoConnect = {}
    MaximumAdmitted = 1
    OutdatedClients = {}
SPECIFICATION FairSpec
PROPERTIES
    AbandonedSessionsEnd
    DeadSessionsEnd
    AttemptsEnd
