----------------------------- MODULE Transport -----------------------------
(***************************************************************************)
(* TTransportManager over an ITransportDevice.  A sender queues packets,   *)
(* the manager offers the head of its queue to the device on every advance *)
(* and keeps it until the device takes it, and an FPacketDropDevice may    *)
(* stand before the device and lose every Nth send.  The device is one of  *)
(* Media: the port of either in-process network, an E32 radio on a UART,   *)
(* a wired UART, an I2C link in either direction, an SPI link, whose slave *)
(* also answers, or a UDP socket, behind a Wi-Fi link.  An access point's  *)
(* link, up at once, stands for the host's as well.                        *)
(*                                                                         *)
(* Packets are numbered in the order they are queued (down) or staged by   *)
(* the SPI slave (up), and each carries its number.                        *)
(***************************************************************************)
EXTENDS SerialLink, SpiLink, UdpLink, WifiLink, LoopbackLink

CONSTANTS
    Media,             \* the devices to consider, of "loopback", "network", "e32", "uart",
                       \* "i2c", "i2c_reply", "spi", "udp"
    MaxPackets,        \* bound on the packets of a direction
    QueueCapacity,     \* TTransportManager's MaxPackets
    DropEveryNthSend   \* of the drop device; 0 drops nothing

Directions == {"down", "up"}
InProcess == {"loopback", "network"}

VARIABLES
    medium,     \* the device the manager drives
    queue,      \* TTransportManager: the send queue
    sendCalls,  \* FPacketDropDevice: SendCallCount modulo DropEveryNthSend
    astray,     \* the packets that are queued for an address that names nobody
    sent,       \* history: the payloads queued (down) or staged (up)
    received,   \* history: the payloads delivered
    lost        \* history: the frames a sender was told are sent and the code then drops

hostVars == <<queue, sendCalls, mailbox, astray>>
history == <<sent, received, lost>>
vars == <<medium, hostVars, history, serialVars, spiVars, udpVars, wifiVars>>

\* A frame is named by its direction and its place among those sent.
Frame(way, number) == <<way, number>>
Payload(number) == <<PayloadByte(number)>>
NumberOf(payload) == payload[1][2]
Packet(number) == [number |-> number, payload |-> sent["down"][number]]

TransportInit ==
    /\ medium \in Media
    /\ queue = EmptyRing(QueueCapacity)
    /\ sendCalls = 0
    /\ LoopbackInit
    /\ astray = {}
    /\ sent = [way \in Directions |-> <<>>]
    /\ received = [way \in Directions |-> <<>>]
    /\ lost = {}
    /\ SerialInit
    /\ SpiInit
    /\ UdpInit
    /\ WifiInit

Sends(way) ==
    /\ Len(sent[way]) < MaxPackets
    /\ sent' = [sent EXCEPT ![way] = Append(@, Payload(Len(@) + 1))]

Receives(way, payload) ==
    received' = IF payload = <<>> THEN received
                                  ELSE [received EXCEPT ![way] = Append(@, payload)]

ReceivesFrame(frame) ==
    IF frame = Idle THEN UNCHANGED received
                    ELSE Receives(frame[1], sent[frame[1]][frame[2]])

(***************************************************************************)
(* The sender.  The queue and the mailbox hold the numbers of packets.     *)
(***************************************************************************)

\* An I2C master writes a whole frame within TrySend, and a program drives a
\* UDP device while its Wi-Fi link is up.
SenderIsFree ==
    /\ medium = "i2c" => ~HasPendingTransmit
    /\ medium = "udp" => bIsUp

\* TTransportManager::QueueSend.
QueueSend ==
    /\ SenderIsFree
    /\ ~IsFull(queue)
    /\ Sends("down")
    /\ queue' = Enqueued(queue, Len(sent["down"]) + 1)
    /\ \/ UNCHANGED astray
       \/ medium \in InProcess /\ astray' = astray \union {Len(sent["down"]) + 1}
    /\ UNCHANGED <<medium, sendCalls, mailbox, received, lost, serialVars, spiVars, udpVars, wifiVars>>

Destination(number) == IF number \in astray THEN Nowhere ELSE "port"

\* The device's TrySend.
DeviceTrySend(number, result) ==
    \/ /\ \/ medium = "loopback" /\ Deliver(number, Destination(number), result)
          \/ medium = "network" /\ PortTrySend(number, Destination(number), result)
       /\ UNCHANGED <<serialVars, spiVars, udpVars>>
    \/ /\ \/ medium = "e32" /\ TryQueueFrame(Packet(number), result)
          \/ medium = "i2c" /\ I2cMasterTrySend(Packet(number), result)
          \/ medium = "uart" /\ UartTrySend(Packet(number), result)
          \/ medium = "i2c_reply" /\ I2cSlaveTrySend(Packet(number), result)
       /\ UNCHANGED <<mailbox, spiVars, udpVars>>
    \/ /\ medium = "spi"
       /\ MasterTrySend(Frame("down", number), result)
       /\ UNCHANGED <<mailbox, serialVars, udpVars>>
    \/ /\ medium = "udp"
       /\ UdpTrySend(number, result)
       /\ UNCHANGED <<mailbox, serialVars, spiVars>>

CountedSend == IF DropEveryNthSend = 0 THEN 0 ELSE (sendCalls + 1) % DropEveryNthSend
IsDroppedSend == DropEveryNthSend # 0 /\ CountedSend = 0

\* FPacketDropDevice::TrySend: every Nth call, those the device refuses counted
\* too, succeeds and goes nowhere.
TrySend(number, result) ==
    /\ sendCalls' = CountedSend
    /\ IF IsDroppedSend
       THEN result = "Success" /\ UNCHANGED <<mailbox, serialVars, spiVars, udpVars>>
       ELSE DeviceTrySend(number, result)

LostBySend(number) ==
    CASE IsDroppedSend -> {Frame("down", number)}
      [] ~IsDroppedSend /\ medium = "spi" -> LostByExchange(Frame("down", number))
      [] OTHER -> {}

\* TTransportManager::AdvanceSend: the head stays until the device takes it, one
\* that is addressed to nobody for ever.
AdvanceSend ==
    /\ SenderIsFree
    /\ queue.count > 0
    /\ \E result \in {"Success", "Full", "Invalid"} :
          /\ TrySend(HeadPacket(queue), result)
          /\ IF result = "Success"
             THEN queue' = Popped(queue) /\ lost' = lost \union LostBySend(HeadPacket(queue))
             ELSE UNCHANGED <<queue, lost>>
    /\ UNCHANGED <<medium, astray, sent, received, wifiVars>>

(***************************************************************************)
(* The media.                                                              *)
(***************************************************************************)

LoopbackReceive ==
    /\ \E number \in Packets(mailbox) :
          /\ \/ medium = "loopback" /\ Receive(number)
             \/ medium = "network" /\ PortTryReceive(number)
          /\ Receives("down", sent["down"][number])
    /\ UNCHANGED <<medium, queue, sendCalls, astray, sent, lost, serialVars, spiVars, udpVars, wifiVars>>

Drain ==
    /\ \/ medium = "loopback" /\ HostDrain
       \/ medium = "network" /\ PortDrain
    /\ mailbox.count > 0
    /\ lost' = lost \union {Frame("down", number) : number \in Packets(mailbox)}
    /\ UNCHANGED <<medium, queue, sendCalls, astray, sent, received, serialVars, spiVars, udpVars, wifiVars>>

\* A step of the E32's PreAdvance, of the I2C receive interrupt, of a bus read that
\* fails, or of the air.
SerialProgress ==
    /\ \/ medium = "e32" /\ (WriteByte \/ DiscardTransmitFrame)
       \/ medium = "i2c" /\ PushFromIsr
       \/ medium = "i2c_reply" /\ FailedRead
       \/ medium \in {"e32", "uart"} /\ (LoseByte \/ CorruptByte)
    /\ UNCHANGED <<medium, hostVars, history, spiVars, udpVars, wifiVars>>

\* The serial device's TryReceive.
ReceiveOutcomes(fits) ==
    CASE medium \in {"e32", "uart", "i2c"} -> SerialTryReceive(fits)
      [] medium = "i2c_reply" -> I2cMasterTryReceive(fits)
      [] OTHER -> {}

SerialReceive(fits) ==
    /\ \E call \in ReceiveOutcomes(fits) : EndReceive(call) /\ Receives("down", call.payload)
    /\ UNCHANGED <<medium, hostVars, sent, lost, spiVars, udpVars, wifiVars>>

UdpProgress ==
    /\ medium = "udp"
    /\ Arrive \/ Mishap
    /\ UNCHANGED <<medium, hostVars, history, serialVars, spiVars, wifiVars>>

\* The program brings the radio up, or down before it has used the device, and
\* the radio answers.
WifiStep ==
    /\ medium = "udp"
    /\ WifiNext
    /\ sent["down"] = <<>> \/ bIsUp'
    /\ UNCHANGED <<medium, hostVars, history, serialVars, spiVars, udpVars>>

\* A datagram evicted since it was sized is delivered to nobody.
UdpReceive(fits) ==
    /\ medium = "udp"
    /\ \E taken \in BOOLEAN :
          /\ UdpTryReceive(fits, taken)
          /\ Receives("down", IF taken THEN sent["down"][Head(socket)] ELSE <<>>)
    /\ UNCHANGED <<medium, hostVars, sent, lost, serialVars, spiVars, wifiVars>>

SpiReceive(fits) ==
    /\ medium = "spi"
    /\ \E delivered \in {Idle} \union FramesInFlight :
          /\ MasterTryReceive(fits, delivered) \/ SlaveTryReceive(fits, delivered)
          /\ ReceivesFrame(delivered)
    /\ UNCHANGED <<medium, hostVars, sent, lost, serialVars, udpVars, wifiVars>>

\* The SPI slave answers: it has no queue of its own.
SpiSlaveSend ==
    /\ medium = "spi"
    /\ SlaveTrySend(Frame("up", Len(sent["up"]) + 1), "Success")
    /\ Sends("up")
    /\ UNCHANGED <<medium, hostVars, received, lost, serialVars, udpVars, wifiVars>>

SpiSlavePreAdvance ==
    /\ medium = "spi"
    /\ SlavePreAdvance
    /\ lost' = lost \union Overwritten
    /\ UNCHANGED <<medium, hostVars, sent, received, serialVars, udpVars, wifiVars>>

Next ==
    \/ QueueSend
    \/ AdvanceSend
    \/ LoopbackReceive
    \/ Drain
    \/ SerialProgress
    \/ \E fits \in BOOLEAN : SerialReceive(fits) \/ SpiReceive(fits) \/ UdpReceive(fits)
    \/ UdpProgress
    \/ WifiStep
    \/ SpiSlaveSend
    \/ SpiSlavePreAdvance

Spec == TransportInit /\ [][Next]_vars

\* The engine turns every device and the manager in every frame, and receives
\* with a buffer of the device's MaxPacketBytes.
FairSpec ==
    /\ Spec
    /\ WF_vars(AdvanceSend)
    /\ WF_vars(medium = "e32" /\ WriteByte /\ SerialProgress)
    /\ WF_vars(medium = "i2c" /\ PushFromIsr /\ SerialProgress)
    /\ WF_vars(SerialReceive(TRUE))

(***************************************************************************)
(* Properties.                                                             *)
(***************************************************************************)

\* Whatever the medium loses or corrupts, what is delivered is a part of what
\* was sent: each payload whole, in the order it was sent, and once.  Over I2C a
\* payload comes once more for each failed transaction of the master, which may
\* have reached the slave whole (I2cWriteOutcome.h:56-65), and over UDP it comes
\* again, or out of order, only as the network does that.
Repeats(way) == Len(received[way]) - Cardinality({received[way][i] : i \in DOMAIN received[way]})

PayloadsIntactInOrder ==
    \A way \in Directions :
        /\ \A i \in DOMAIN received[way] :
              \E number \in DOMAIN sent[way] : received[way][i] = sent[way][number]
        /\ IF medium = "udp"
           THEN Len(received[way]) + Cardinality({frame \in lost : frame[1] = way}) <= Len(sent[way]) + mishaps
           ELSE /\ \A i, j \in DOMAIN received[way] :
                      i < j => NumberOf(received[way][i]) <= NumberOf(received[way][j])
                /\ Repeats(way) <= IF medium = "i2c" THEN faults ELSE 0

Queued(ring) == {Frame("down", number) : number \in Packets(ring)}

Delivered ==
    UNION {{Frame(way, NumberOf(received[way][i])) : i \in DOMAIN received[way]} : way \in Directions}

Places ==
    <<Queued(queue), Queued(mailbox), Frames(staged), Frames(slaveTransmit), Frames(masterHeld),
      Frames(slaveReceive), Frames(slaveHeld), Delivered, lost>>

SentFrames == UNION {{Frame(way, i) : i \in DOMAIN sent[way]} : way \in Directions}

\* On the media that damage nothing themselves, a frame is in one place at a
\* time: queued, under way, delivered, or among those the code is known to
\* drop.  No ring slot, window, stage or held frame is overwritten.
FramesAccounted ==
    medium \in InProcess \union {"spi"} =>
        \A frame \in SentFrames : Cardinality({i \in DOMAIN Places : frame \in Places[i]}) = 1

Rings(capacity, packets) ==
    [slots: [0 .. capacity - 1 -> packets \union {NoPacket}], head: 0 .. capacity - 1,
     tail: 0 .. capacity - 1, count: 0 .. capacity]

\* Types of the queues, the links and the history.
TypeOK ==
    /\ medium \in Media
    /\ queue \in Rings(QueueCapacity, 1 .. MaxPackets)
    /\ mailbox \in Rings(MailboxCapacity, 1 .. MaxPackets)
    /\ astray \subseteq 1 .. MaxPackets
    /\ sendCalls \in 0 .. DropEveryNthSend
    /\ SerialTypeOK
    /\ {staged, slaveTransmit, masterHeld, slaveReceive, slaveHeld} \subseteq SentFrames \union {Idle}
    /\ transaction \in {"none", "queued", "clocked"} /\ queueFailures \in 0 .. MaxQueueFailures
    /\ network \union {socket[i] : i \in DOMAIN socket} \subseteq 1 .. MaxPackets
    /\ Len(socket) <= SocketCapacity
    /\ {bIsUp, bGotStationIpAddress, leased} \subseteq BOOLEAN
    /\ join \in {"none", "started", "waiting"} /\ slices \in 0 .. JoinSlices /\ starts \in 0 .. MaxStarts
    /\ radio \in {"off", "hosting", "starting", "connecting", "associated"}
    /\ lost \subseteq SentFrames

\* The transport keeps its types and its frames, and a program drives a radio
\* only while it is served.
TransportSound == TypeOK /\ FramesAccounted /\ LinkUpIsServed

\* Once the stream is whole again the decoder finds the frames again
\* (TFrameDecoder.h:18): a frame written when the longest false frame has run out is
\* delivered, unless a byte inside a frame was mistaken for the start of one since
\* the latest fault, which may happen for as long as frames hold a magic byte.
DecoderRecovers ==
    \A number \in 1 .. MaxPackets :
        (watch.run = RecoveryFrames /\ watch.last = number)
            ~> \/ \E i \in DOMAIN received["down"] : NumberOf(received["down"][i]) = number
               \/ watch.mistaken
               \/ watch.run < RecoveryFrames
=============================================================================
