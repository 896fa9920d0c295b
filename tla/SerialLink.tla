----------------------------- MODULE SerialLink -----------------------------
(***************************************************************************)
(* One direction of a byte-stream link: the frame a device is writing one  *)
(* byte at a time, the bytes under way, and the decoder the receiving      *)
(* device pumps them through.  With the medium "e32" the sender is an      *)
(* FE32LoraDevice over a UART: its PreAdvance writes what the stream takes *)
(* and gives the frame up when the stream fails.  With "i2c" the sender is *)
(* an I2C master, whose transaction the slave's receive interrupt stores   *)
(* into FI2cReceiveInbox, dropping what does not fit; a transaction may    *)
(* fail after the slave has taken some of it, or all.  With "i2c_reply" it *)
(* is the I2C slave, whose transmit ring the master reads a window at a    *)
(* time.  With "uart" it is a wired FEsp32UartDevice, which hands the      *)
(* driver whole frames.                                                    *)
(*                                                                         *)
(* Bytes are lost or corrupted on the air, writes are cut short and bus    *)
(* transactions fail at most MaxFaults times in all, and the I2C slave's   *)
(* receive ring overflows by at most MaxDrops bytes.                       *)
(***************************************************************************)
EXTENDS FrameDecoder

CONSTANTS
    LocalNodeId,      \* the sender's node id
    StreamCapacity,   \* bytes the UART, or the receive ring, has room for
    ReplyCapacity,    \* bytes the I2C slave's transmit ring has room for
    MaxFaults,        \* bound on the faults of the stream
    MaxDrops          \* bound on the bytes that find the receive ring full

VARIABLES
    transmit,   \* the bytes of TransmitFrame not yet written; empty when the slot is free
    stream,     \* bytes written and not yet read, oldest first
    decoder,    \* the receiving device's TFrameDecoder
    faults,     \* faults so far
    drops,      \* bytes dropped by the receive ring so far
    watch       \* history: the packet being written and whether its bytes met no fault, the
                \* number of whole frames since the last fault, the last packet written whole,
                \* and whether a byte inside a frame was mistaken for the start of one since

serialVars == <<transmit, stream, decoder, faults, drops, watch>>

SerialInit ==
    /\ transmit = <<>>
    /\ stream = <<>>
    /\ decoder = IdleDecoder
    /\ faults = 0
    /\ drops = 0
    /\ watch = [packet |-> 0, clean |-> TRUE, run |-> 0, last |-> 0, mistaken |-> FALSE]

\* How many whole frames a decoder may lose after a fault, and the one it finds.
\* A false frame that begins with the last byte the fault reaches swallows at most
\* its header, the longest payload and the CRC, of frames that may be empty.
RecoveryFrames ==
    1 + (MaxPayloadBytes + 2 * FrameOverheadBytes - 2) \div FrameOverheadBytes

HasPendingTransmit == transmit # <<>>

\* FE32LoraTransportState::TryQueueFrame: the slot holds one frame.
TryQueueFrame(packet, result) ==
    IF HasPendingTransmit
    THEN result = "Full" /\ UNCHANGED serialVars
    ELSE /\ result = "Success"
         /\ transmit' = EncodeFrame(LocalNodeId, packet.payload)
         /\ watch' = [watch EXCEPT !.packet = packet.number, !.clean = TRUE]
         /\ UNCHANGED <<stream, decoder, faults, drops>>

AfterFault == [watch EXCEPT !.clean = FALSE, !.run = 0, !.mistaken = FALSE]

AfterWrite ==
    IF Len(transmit) # 1 \/ ~watch.clean
    THEN watch
    ELSE [watch EXCEPT !.last = watch.packet,
                       !.run = IF @ < RecoveryFrames THEN @ + 1 ELSE @]

\* One turn of FE32LoraDevice::PreAdvance's loop that the stream accepts.
WriteByte ==
    /\ HasPendingTransmit
    /\ Len(stream) < StreamCapacity
    /\ stream' = Append(stream, Head(transmit))
    /\ transmit' = Tail(transmit)
    /\ watch' = AfterWrite
    /\ UNCHANGED <<decoder, faults, drops>>

\* FE32LoraTransportState::DiscardTransmitFrame: the stream failed, and the
\* receiver is left with the beginning of a frame.
DiscardTransmitFrame ==
    /\ HasPendingTransmit
    /\ faults < MaxFaults
    /\ transmit' = <<>>
    /\ watch' = AfterFault
    /\ faults' = faults + 1
    /\ UNCHANGED <<stream, decoder, drops>>

(***************************************************************************)
(* WriteI2cMaster waits while the slave's interrupt takes the bytes        *)
(* (PushFromIsr); the sender does nothing else meanwhile, so the outcome   *)
(* is chosen when the transaction begins.  A NACK, a timeout or another    *)
(* error leaves the slave with the beginning of the frame, or all of it,   *)
(* and the caller with a frame to send again.                              *)
(***************************************************************************)
WriteI2cMaster(packet, outcome) ==
    LET frame == EncodeFrame(LocalNodeId, packet.payload)
    IN \/ /\ outcome = "Sent"
          /\ transmit' = frame
          /\ watch' = [watch EXCEPT !.packet = packet.number, !.clean = TRUE]
          /\ UNCHANGED faults
       \/ /\ outcome = "WouldBlock"
          /\ faults < MaxFaults
          /\ \E taken \in 0 .. Len(frame) : transmit' = SubSeq(frame, 1, taken)
          /\ watch' = AfterFault
          /\ faults' = faults + 1

\* FI2cReceiveInbox::PushFromIsr: one slot of the ring stays free, and a byte
\* that finds no room is dropped.
PushFromIsr ==
    /\ HasPendingTransmit
    /\ transmit' = Tail(transmit)
    /\ IF Len(stream) + 1 = StreamCapacity
       THEN /\ drops < MaxDrops
            /\ drops' = drops + 1
            /\ stream' = stream
            /\ watch' = AfterFault
       ELSE /\ stream' = Append(stream, Head(transmit))
            /\ watch' = AfterWrite
            /\ UNCHANGED drops
    /\ UNCHANGED <<decoder, faults>>

(***************************************************************************)
(* Senders that write a whole frame within TrySend.                        *)
(***************************************************************************)

AfterWholeFrame(packet) ==
    [watch EXCEPT !.packet = packet.number, !.clean = TRUE, !.last = packet.number,
                  !.run = IF @ < RecoveryFrames THEN @ + 1 ELSE @]

\* uart_write_bytes waits for room; a short write leaves the receiver with the
\* beginning of a frame.
WriteUart(packet, outcome) ==
    LET frame == EncodeFrame(LocalNodeId, packet.payload)
    IN \/ /\ outcome = "Sent"
          /\ Len(stream) + Len(frame) <= StreamCapacity
          /\ stream' = stream \o frame
          /\ watch' = AfterWholeFrame(packet)
          /\ UNCHANGED faults
       \/ /\ outcome = "WouldBlock"
          /\ faults < MaxFaults
          /\ \E written \in 1 .. Len(frame) - 1 :
                /\ Len(stream) + written <= StreamCapacity
                /\ stream' = stream \o SubSeq(frame, 1, written)
          /\ watch' = AfterFault
          /\ faults' = faults + 1

\* A ring without room for the frame is reset, with the frames already in it.
WriteI2cSlave(packet, outcome) ==
    LET frame == EncodeFrame(LocalNodeId, packet.payload)
    IN /\ IF Len(stream) + Len(frame) <= ReplyCapacity
          THEN outcome = "Sent" /\ stream' = stream \o frame /\ watch' = AfterWholeFrame(packet)
          ELSE outcome = "WouldBlock" /\ stream' = <<>> /\ watch' = AfterFault
       /\ UNCHANGED faults

\* MapUartWriteOutcome and MapI2cWriteOutcome; an error is retried like a full link.
WriteResult(outcome) == IF outcome = "Sent" THEN "Success" ELSE "Full"

UartTrySend(packet, result) ==
    /\ \E outcome \in {"Sent", "WouldBlock"} :
          WriteUart(packet, outcome) /\ result = WriteResult(outcome)
    /\ UNCHANGED <<transmit, decoder, drops>>

I2cMasterTrySend(packet, result) ==
    /\ \E outcome \in {"Sent", "WouldBlock"} :
          WriteI2cMaster(packet, outcome) /\ result = WriteResult(outcome)
    /\ UNCHANGED <<stream, decoder, drops>>

I2cSlaveTrySend(packet, result) ==
    /\ \E outcome \in {"Sent", "WouldBlock"} :
          WriteI2cSlave(packet, outcome) /\ result = WriteResult(outcome)
    /\ UNCHANGED <<transmit, decoder, drops>>

\* The medium loses a byte under way, or corrupts it.
LoseByte ==
    /\ faults < MaxFaults
    /\ \E i \in DOMAIN stream :
          stream' = SubSeq(stream, 1, i - 1) \o SubSeq(stream, i + 1, Len(stream))
    /\ watch' = AfterFault
    /\ faults' = faults + 1
    /\ UNCHANGED <<transmit, decoder, drops>>

CorruptByte ==
    /\ faults < MaxFaults
    /\ \E i \in DOMAIN stream : stream' = [stream EXCEPT ![i] = Noise]
    /\ watch' = AfterFault
    /\ faults' = faults + 1
    /\ UNCHANGED <<transmit, decoder, drops>>

(***************************************************************************)
(* Receiving.  A call ends with the decoder it leaves, the payload it      *)
(* hands its caller (<<>> for none), the bytes it read and pushed, and     *)
(* whether one of them was mistaken for the start of a frame.              *)
(***************************************************************************)

\* TryDeliverReceivedFrame: a frame the destination has no room for stays held.
TryDeliver(step, fits, read, pushed, mistaken) ==
    LET delivers == step.event = "FrameReady" /\ fits
    IN [decoder |-> IF delivers THEN ClearFrame(step.decoder) ELSE step.decoder,
        payload |-> IF delivers THEN FramePayload(step.decoder) ELSE <<>>,
        read |-> read, pushed |-> pushed, mistaken |-> mistaken]

\* A frame held back from an earlier call is delivered before any byte is read.
DeliverHeldFrame(fits) ==
    IF HasFrame(decoder) THEN {TryDeliver(Step(decoder, "FrameReady"), fits, 0, 0, FALSE)} ELSE {}

\* Mutant of CanPush: bytes are pushed over a frame the caller has not taken.
CanPushAlways == TRUE

\* The decoder must not be pushed while it holds a frame.
CanPush == ~HasFrame(decoder)

\* One turn of TryReceive's pump: a byte is read and pushed, and a frame it
\* completes is delivered by the same call.
PumpByte(fits) ==
    IF CanPush /\ stream # <<>>
    THEN {TryDeliver(step, fits, 1, 1, IsMistaken(step, Head(stream))) :
             step \in PushByte(decoder, Head(stream))}
    ELSE {}

SerialTryReceive(fits) == DeliverHeldFrame(fits) \union PumpByte(fits)

\* What an idle I2C line reads as.
Filler == Data(255)

WindowBytes == MaxPayloadBytes + FrameOverheadBytes

\* A read of the I2C master clocks a whole window out of the slave's ring, with
\* filler once the ring is empty.
ReadI2cMaster ==
    [i \in 1 .. WindowBytes |-> IF i <= Len(stream) THEN stream[i] ELSE Filler]

\* A read that fails in between has clocked bytes out that nobody looks at.
FailedRead ==
    /\ faults < MaxFaults
    /\ \E clocked \in 1 .. Len(stream) : stream' = SubSeq(stream, clocked + 1, Len(stream))
    /\ watch' = AfterFault
    /\ faults' = faults + 1
    /\ UNCHANGED <<transmit, decoder, drops>>

\* The pump stops at the first frame of the window.  Each outcome is the last
\* step taken, the number of bytes pushed and whether one was mistaken.
PumpWindowBytes(window) ==
    LET After[n \in 0 .. Len(window)] ==
            IF n = 0
            THEN {[step |-> Step(decoder, "None"), pushed |-> 0, mistaken |-> FALSE]}
            ELSE UNION {IF outcome.step.event = "FrameReady"
                        THEN {outcome}
                        ELSE {[step |-> step, pushed |-> n,
                               mistaken |-> outcome.mistaken \/ IsMistaken(step, window[n])] :
                                 step \in PushByte(outcome.step.decoder, window[n])} :
                            outcome \in After[n - 1]}
    IN After[Len(window)]

PumpReadWindow(fits) ==
    {TryDeliver(outcome.step, fits, WindowBytes, outcome.pushed, outcome.mistaken) :
        outcome \in PumpWindowBytes(ReadI2cMaster)}

\* The I2C master's TryReceive: what follows the first frame of a window is
\* dropped with the window.
I2cMasterTryReceive(fits) ==
    DeliverHeldFrame(fits)
        \union IF CanPush /\ (stream # <<>> \/ decoder # IdleDecoder) THEN PumpReadWindow(fits) ELSE {}

\* The call ends; bytes it read and did not push are gone.
EndReceive(call) ==
    /\ decoder' = call.decoder
    /\ stream' = SubSeq(stream, call.read + 1, Len(stream))
    /\ watch' = IF call.pushed < call.read /\ call.pushed < Len(stream)
                THEN AfterFault
                ELSE [watch EXCEPT !.mistaken = @ \/ call.mistaken]
    /\ UNCHANGED <<transmit, faults, drops>>

SerialTypeOK ==
    /\ Len(stream) <= StreamCapacity \/ Len(stream) <= ReplyCapacity
    /\ Len(decoder.storage) <= MaxPayloadBytes
    /\ decoder.heldLength <= MaxPayloadBytes
    /\ faults \in 0 .. MaxFaults /\ drops \in 0 .. MaxDrops
    /\ watch.run \in 0 .. RecoveryFrames
=============================================================================
