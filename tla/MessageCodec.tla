---------------------------- MODULE MessageCodec ----------------------------
(***************************************************************************)
(* The typed protocol messages of FNetworkSystem as bytes: a sender packs  *)
(* one into a buffer of fixed size, the medium hands some bytes and some   *)
(* message name to the receiver, which decodes them into a message of its  *)
(* own.  A byte has Radix values; fields keep their widths in bytes.       *)
(***************************************************************************)
EXTENDS Integers, SequencesExt

CONSTANTS
    Radix,                  \* values of a byte (256 in the code)
    MaxMessageBytes,
    MaxRoutedBytes,         \* FRoutedMessage::MaxPayloadBytes
    Numbers,                \* bound: the numbers that 32-bit fields hold
    NoMessage               \* an OutMessage that was never written

ASSUME CodecAssumption ==
    /\ Radix \in Nat /\ Radix > 2
    /\ MaxRoutedBytes \in 0..(Radix - 1) /\ MaxRoutedBytes + 14 <= MaxMessageBytes
    /\ Numbers \subseteq 0..(Radix ^ 4 - 1)

VARIABLES
    payload,                \* what the receiver is given: a name and bytes
    outMessage,             \* OutMessage of the receiver
    outcome                 \* of its DecodeTypedMessage

codecVars == <<payload, outMessage, outcome>>

InvalidIndex == Radix - 1
Bytes32 == 4

\* The fields of each schema in protocol order, with their widths.
Field(name, width) == [name |-> name, width |-> width]
Peer == <<Field("index", 1), Field("generation", Bytes32)>>

ConnectRequest == <<Field("version", 1), Field("attempt", Bytes32)>>
ConnectAccepted == <<Field("attempt", Bytes32)>> \o Peer
ConnectRejected == <<Field("attempt", Bytes32), Field("reason", 1)>>
Heartbeat == Peer \o <<Field("attempt", Bytes32)>>
Disconnect == Peer \o <<Field("attempt", Bytes32), Field("reason", 1)>>
RoutedMessage ==
    Peer \o <<Field("channel", Bytes32), Field("message", Bytes32), Field("size", 1)>>

Schema ==
    [ConnectRequest |-> ConnectRequest, ConnectAccepted |-> ConnectAccepted,
     ConnectRejected |-> ConnectRejected, Heartbeat |-> Heartbeat,
     Disconnect |-> Disconnect, RoutedMessage |-> RoutedMessage]

Names == DOMAIN Schema

\* The values a field may hold on the wire; both reasons are two-valued.
FieldIsValid(name, value) ==
    CASE name = "index" -> value # InvalidIndex
      [] name = "reason" -> value \in {0, 1}
      [] name \in {"channel", "message"} -> value # 0
      [] name = "size" -> value <= MaxRoutedBytes
      [] OTHER -> TRUE

\* A message: its name, the values of its fields in order, and routed bytes.
Message(name, values, bytes) == [name |-> name, values |-> values, bytes |-> bytes]

FieldValues(name) == IF name \in {"version", "index", "reason", "size"} THEN 0..(Radix - 1)
                     ELSE Numbers

----------------------------------------------------------------------------
(* Writer and reader.                                                      *)

\* A writer is the bytes it has, a reader the bytes it has left and what it read from
\* the others; whoever uses one stops at the first operation that fails.
Writer(ok) == [ok |-> ok, bytes |-> <<>>]

Reader(bytes) == [ok |-> TRUE, bytes |-> bytes, values |-> <<>>, routed |-> <<>>]

WriteBytes(writer, bytes) ==
    IF ~writer.ok \/ Len(writer.bytes) + Len(bytes) > MaxMessageBytes
    THEN [writer EXCEPT !.ok = FALSE]
    ELSE [writer EXCEPT !.bytes = @ \o bytes]

LittleEndian(value, width) == [i \in 1..width |-> (value \div Radix ^ (i - 1)) % Radix]

FromLittleEndian(bytes) ==
    FoldRight(LAMBDA byte, value : value * Radix + byte, bytes, 0)

WriteNumber(writer, value, width) == WriteBytes(writer, LittleEndian(value, width))

ReadNumber(reader, width) ==
    IF ~reader.ok \/ Len(reader.bytes) < width THEN [reader EXCEPT !.ok = FALSE]
    ELSE [reader EXCEPT !.bytes = SubSeq(@, width + 1, Len(@)),
                        !.values = Append(@, FromLittleEndian(SubSeq(reader.bytes, 1, width)))]

----------------------------------------------------------------------------
(* The messages.                                                           *)

ValuesAreValid(name, values) ==
    \A i \in DOMAIN Schema[name] : FieldIsValid(Schema[name][i].name, values[i])

\* The bytes of a message, if its fields are valid and there is room.
EncodeMessagePayload(m) ==
    LET Put(writer, i) == WriteNumber(writer, m.values[i], Schema[m.name][i].width)
        fields == FoldLeft(Put, Writer(ValuesAreValid(m.name, m.values)),
                           [i \in DOMAIN Schema[m.name] |-> i])
    IN  WriteBytes(fields, m.bytes)

\* The rest of a routed message holds the bytes its size announces.
DecodeRouted(reader) ==
    LET size == Last(reader.values)
    IN  IF Len(reader.bytes) < size THEN [reader EXCEPT !.ok = FALSE]
        ELSE [reader EXCEPT !.bytes = SubSeq(@, size + 1, Len(@)),
                            !.routed = SubSeq(reader.bytes, 1, size)]

DecodeMessagePayload(name, bytes) ==
    LET Take(reader, field) == ReadNumber(reader, field.width)
        fields == FoldLeft(Take, Reader(bytes), Schema[name])
    IN  CASE ~fields.ok \/ ~ValuesAreValid(name, fields.values) -> [fields EXCEPT !.ok = FALSE]
          [] name = "RoutedMessage" -> DecodeRouted(fields)
          [] OTHER -> fields

\* Mutant of IsWhole: bytes after the last field are ignored.
IsPrefixWhole(reader) == reader.ok

IsWhole(reader) == reader.ok /\ reader.bytes = <<>>

\* DecodeTypedMessage of a receiver that expects messages of this name.
DecodeTypedMessage(name) ==
    LET reader == DecodeMessagePayload(name, payload.bytes)
    IN  IF payload.name = name /\ IsWhole(reader)
        THEN /\ outMessage' = Message(name, reader.values, reader.routed)
             /\ outcome' = "Success"
        ELSE UNCHANGED outMessage /\ outcome' = "Invalid"

----------------------------------------------------------------------------
CodecMessages ==
    UNION {{Message(name, values, [i \in 1..(IF name = "RoutedMessage" THEN values[5] ELSE 0) |-> i % Radix]) :
                values \in {v \in [DOMAIN Schema[name] -> Numbers \cup 0..(Radix - 1)] :
                                \A i \in DOMAIN v : v[i] \in FieldValues(Schema[name][i].name)}}
            : name \in Names}

NoPayload == [name |-> "none", bytes |-> <<>>]

CodecInit == payload = NoPayload /\ outMessage = NoMessage /\ outcome = "none"

\* SendTypedMessageToRemoteChannel, up to the frame.  What cannot be packed is not sent.
SendTyped(m) ==
    /\ payload = NoPayload
    /\ EncodeMessagePayload(m).ok
    /\ payload' = [name |-> m.name, bytes |-> EncodeMessagePayload(m).bytes]
    /\ UNCHANGED <<outMessage, outcome>>

\* Another program on the same channel: a different name, fewer or more bytes, another byte.
SendOther ==
    /\ payload # NoPayload /\ outcome = "none"
    /\ \/ \E name \in Names \ {payload.name} : payload' = [payload EXCEPT !.name = name]
       \/ \E n \in 1..(Len(payload.bytes) - 1) : payload' = [payload EXCEPT !.bytes = SubSeq(@, 1, n)]
       \/ Len(payload.bytes) < MaxMessageBytes /\ payload' = [payload EXCEPT !.bytes = Append(@, 0)]
       \/ \E i \in DOMAIN payload.bytes, b \in {0, Radix - 1} : payload' = [payload EXCEPT !.bytes[i] = b]
    /\ outcome' = "other"
    /\ UNCHANGED outMessage

\* A subscriber that expects messages of this name, with an OutMessage of its own.
Receive(name) ==
    /\ payload # NoPayload /\ outcome \in {"none", "other"}
    /\ DecodeTypedMessage(name)
    /\ UNCHANGED payload

DeliveryEnds ==
    /\ outcome \in {"Success", "Invalid"}
    /\ payload' = NoPayload /\ outMessage' = NoMessage /\ outcome' = "none"

CodecNext ==
    \/ \E m \in CodecMessages : SendTyped(m)
    \/ SendOther \/ DeliveryEnds
    \/ \E name \in Names : Receive(name)

----------------------------------------------------------------------------
\* A subscriber gets a message exactly if the bytes are those of a valid message of
\* the name it expects, and then that message: nothing is accepted with bytes left
\* over, cut short or out of the ranges the protocol knows, and OutMessage is not
\* touched by a message that is refused (TypedMessageCodec.h:52-72,
\* NetworkSystem_Protocol.cpp:67-222, MessagingSystem_FrameCodec.cpp:8-118).
DecodesExactly ==
    [][\A name \in Names : Receive(name) =>
         IF outcome' = "Success"
         THEN /\ payload.name = name /\ outMessage'.name = name
              /\ EncodeMessagePayload(outMessage') = [ok |-> TRUE, bytes |-> payload.bytes]
         ELSE /\ outMessage' = outMessage
              /\ \A m \in CodecMessages : m.name = name /\ name = payload.name =>
                    EncodeMessagePayload(m) # [ok |-> TRUE, bytes |-> payload.bytes]
      ]_codecVars
=============================================================================
