CONSTANTS
    a = a
    b = b
    m = m
    n = n
    o = o
    Channels = {a, b}
    Messages = {m, n}
    Owners = {o}
    AnyMessage = AnyMessage
    NoOwner = NoOwner
    NoChannel = NoChannel
    MaxChannels = 1
    MaxSubscriptions = 2
    MaxGeneration = 3
    MaxSequence = 3
    MaxDepth = 2
SPECIFICATION Spec
PROPERTY DestroySparesUsedChannels
