---------------------------- MODULE FrameDecoder ----------------------------
(***************************************************************************)
(* The frame codec of the byte-stream devices: EncodeFrame and the state   *)
(* machine of TFrameDecoder, one byte at a time.                           *)
(*                                                                         *)
(* A byte on the wire is FrameStart, the magic byte that begins a frame;   *)
(* Data(v), a header byte whose value is known; a byte of a payload; one   *)
(* half of the CRC over a sequence of bytes; or Noise, what a corrupted    *)
(* byte becomes.  The CRC is ideal: it matches exactly the bytes it was    *)
(* computed over (the real one misses one corruption in 2^16).  A payload, *)
(* CRC or noise byte read where a value is expected stands for any value,  *)
(* the magic byte too.                                                     *)
(***************************************************************************)
EXTENDS Naturals, Sequences

CONSTANT MaxPayloadBytes

FrameMagicByte == 165
FrameOverheadBytes == 6  \* magic, source node, two length bytes, two CRC bytes

FrameStart == <<"magic">>
Data(value) == <<"data", value>>
PayloadByte(content) == <<"payload", content>>
Checksum(half, covered) == <<"checksum", half, covered>>
Noise == <<"noise">>

\* The values a byte may be read as; every length above the payload limit is
\* treated alike, so one of them stands for all.
Readings(byte) ==
    CASE byte = FrameStart -> {FrameMagicByte}
      [] byte[1] = "data" -> {byte[2]}
      [] OTHER -> {FrameMagicByte} \union 0 .. MaxPayloadBytes + 1

\* WriteFrameHeader, then AppendPayloadAndChecksum: the CRC covers the source
\* node, both length bytes and the payload.
EncodeFrame(node, payload) ==
    LET covered == <<Data(node), Data(0), Data(Len(payload))>> \o payload
    IN <<FrameStart>> \o covered
          \o <<Checksum("high", covered), Checksum("low", covered)>>

(***************************************************************************)
(* The decoder: the phase, the bytes folded into the running CRC since the *)
(* magic byte, the declared length, the CRC byte kept back, the payload    *)
(* storage that the frame being assembled and the held one share, and the  *)
(* held frame's length (HasFrame: bHasFrame).                              *)
(***************************************************************************)
IdleDecoder ==
    [state |-> "WaitingForMagic", covered |-> <<>>, length |-> 0, crcHigh |-> Noise,
     storage |-> <<>>, bHasFrame |-> FALSE, heldLength |-> 0]

HasFrame(d) == d.bHasFrame
FramePayload(d) == SubSeq(d.storage, 1, d.heldLength)

\* What no held frame can be read from is forgotten.
WithoutCandidate(d) ==
    [d EXCEPT !.state = "WaitingForMagic", !.covered = <<>>, !.length = 0, !.crcHigh = Noise,
              !.storage = IF d.bHasFrame THEN @ ELSE <<>>]

ClearFrame(d) == WithoutCandidate([d EXCEPT !.bHasFrame = FALSE, !.heldLength = 0])

Step(d, event) == [decoder |-> d, event |-> event]

Folded(d, byte, next) == [d EXCEPT !.covered = Append(@, byte), !.state = next]

BeginFrameOnMagic(d, byte) ==
    {Step(IF value = FrameMagicByte THEN [d EXCEPT !.state = "ReadingSourceNodeId"] ELSE d, "None") :
        value \in Readings(byte)}

\* A byte inside a frame is taken for the start of one.
IsMistaken(step, byte) ==
    step.decoder.state = "ReadingSourceNodeId" /\ byte \notin {FrameStart, Noise}

CaptureSourceNodeId(d, byte) == {Step(Folded(d, byte, "ReadingLengthHighByte"), "None")}

CaptureLengthHighByte(d, byte) == {Step(Folded(d, byte, "ReadingLengthLowByte"), "None")}

\* A declared length beyond the storage is rejected at once.
CaptureLengthLowByte(d, byte) ==
    LET DeclaredLengths ==
            {256 * high + low : high \in Readings(d.covered[2]), low \in Readings(byte)}
        AfterLength(length) == IF length = 0 THEN "ReadingCrcHighByte" ELSE "ReadingPayload"
    IN {IF length > MaxPayloadBytes
        THEN Step(WithoutCandidate(d), "Discarded")
        ELSE Step([Folded(d, byte, AfterLength(length)) EXCEPT !.length = length], "None") :
            length \in DeclaredLengths}

\* The byte goes to the shared storage even when that holds a delivered frame.
AccumulatePayloadByte(d, byte) ==
    LET index == Len(d.covered) - 2
        stored == [i \in 1 .. (IF index > Len(d.storage) THEN index ELSE Len(d.storage)) |->
                      IF i = index THEN byte ELSE d.storage[i]]
        next == IF index >= d.length THEN "ReadingCrcHighByte" ELSE "ReadingPayload"
    IN {Step([Folded(d, byte, next) EXCEPT !.storage = stored], "None")}

CaptureChecksumHighByte(d, byte) ==
    {Step([d EXCEPT !.crcHigh = byte, !.state = "ReadingCrcLowByte"], "None")}

ChecksumMatches(d, byte) ==
    /\ d.crcHigh = Checksum("high", d.covered)
    /\ byte = Checksum("low", d.covered)

\* Mutant of CompleteFrameIfChecksumMatches: a mismatch does not start over.
CompleteFrameWithoutResync(d, byte) ==
    {IF ChecksumMatches(d, byte)
     THEN Step(WithoutCandidate([d EXCEPT !.bHasFrame = TRUE, !.heldLength = d.length]), "FrameReady")
     ELSE Step(d, "Discarded")}

CompleteFrameIfChecksumMatches(d, byte) ==
    {IF ChecksumMatches(d, byte)
     THEN Step(WithoutCandidate([d EXCEPT !.bHasFrame = TRUE, !.heldLength = d.length]), "FrameReady")
     ELSE Step(WithoutCandidate(d), "Discarded")}

\* Every step the decoder may take on one byte.
PushByte(d, byte) ==
    CASE d.state = "WaitingForMagic" -> BeginFrameOnMagic(d, byte)
      [] d.state = "ReadingSourceNodeId" -> CaptureSourceNodeId(d, byte)
      [] d.state = "ReadingLengthHighByte" -> CaptureLengthHighByte(d, byte)
      [] d.state = "ReadingLengthLowByte" -> CaptureLengthLowByte(d, byte)
      [] d.state = "ReadingPayload" -> AccumulatePayloadByte(d, byte)
      [] d.state = "ReadingCrcHighByte" -> CaptureChecksumHighByte(d, byte)
      [] d.state = "ReadingCrcLowByte" -> CompleteFrameIfChecksumMatches(d, byte)
=============================================================================
