CONSTANTS
    MaxPayloadBytes = 2
    LocalNodeId = 7
    StreamCapacity = 8
    ReplyCapacity = 14
    SocketCapacity = 2
    MaxMishaps = 2
    JoinSlices = 1
    MaxStarts = 2
    MaxFaults = 1
    MaxDrops = 2
    Idle = Idle
    MaxQueueFailures = 1
    NoPacket = NoPacket
    Nowhere = Nowhere
    Media = {"loopback", "network", "e32", "uart", "i2c", "i2c_reply", "spi", "udp"}
    MaxPackets = 4
    QueueCapacity = 2
    MailboxCapacity = 2
    DropEveryNthSend = 3
SPECIFICATION FairSpec
INVARIANTS
    PayloadsIntactInOrder
    TransportSound
PROPERTIES
    DecoderRecovers
CHECK_DEADLOCK FALSE
