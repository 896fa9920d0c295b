CONSTANTS
    sender = sender
    receiver = receiver
    a = a
    b = b
    Nodes = {sender, receiver}
    Senders = {sender}
    Channels = {a, b}
    NoChannel = NoChannel
    NoFrame = NoFrame
    NoDelivery = NoDelivery
    MaxChannels = 1
    MaxPending = 2
    MaxId = 2
    MaxSendAttempts = 2
    RetryInterval = 1
    ReceiveBudget = 1
    TurnLengths = {1}
    WireCapacity = 2
SPECIFICATION FairSpec
INVARIANTS
    AcknowledgedWasDelivered
    FramesAccounted
    PendingHaveChannels
PROPERTY PendingEnds
