------------------------------ MODULE UdpLink ------------------------------
(***************************************************************************)
(* The UDP devices, FHostWifiDevice and FEsp32WifiDevice, whose send and   *)
(* receive are the same code: a datagram the socket accepts is under way   *)
(* in the network, which delivers in any order, and may lose a datagram or *)
(* deliver it twice; the receiver peeks at the head of its socket's buffer *)
(* to size it before it takes it.  A datagram is named by its packet.      *)
(***************************************************************************)
EXTENDS Naturals, Sequences

CONSTANTS
    SocketCapacity,  \* datagrams the receiver's socket buffers
    MaxMishaps       \* bound on what the network loses, repeats or evicts

VARIABLES
    network,  \* the datagrams under way
    socket,   \* the receiver's socket buffer, oldest first
    mishaps

udpVars == <<network, socket, mishaps>>

UdpInit == network = {} /\ socket = <<>> /\ mishaps = 0

\* sendto takes the whole datagram or nothing.
SendDatagram(datagram, outcome) ==
    \/ outcome = "Success" /\ network' = network \union {datagram}
    \/ outcome = "WouldBlock" /\ UNCHANGED network

\* The device's TrySend.
UdpTrySend(datagram, result) ==
    /\ \E outcome \in {"Success", "WouldBlock"} :
          /\ SendDatagram(datagram, outcome)
          /\ result = IF outcome = "Success" THEN "Success" ELSE "Full"
    /\ UNCHANGED <<socket, mishaps>>

\* A datagram reaches a socket whose buffer may be full.
Buffered(datagram) == IF Len(socket) < SocketCapacity THEN Append(socket, datagram) ELSE socket

Arrive ==
    \E datagram \in network :
        /\ socket' = Buffered(datagram)
        /\ network' = network \ {datagram}
        /\ UNCHANGED mishaps

\* The network repeats or loses a datagram.
Mishap ==
    /\ mishaps < MaxMishaps
    /\ mishaps' = mishaps + 1
    /\ \E datagram \in network :
          \/ socket' = Buffered(datagram) /\ UNCHANGED network
          \/ network' = network \ {datagram} /\ UNCHANGED socket

\* The peek leaves the datagram where it is.
ProbeReadableDatagram == IF socket = <<>> THEN "WouldBlock" ELSE "Ready"

ProbeAndClassify(fits) ==
    CASE ProbeReadableDatagram = "WouldBlock" -> "Unavailable"
      [] ProbeReadableDatagram = "Ready" /\ ~fits -> "Full"
      [] OTHER -> "Success"

\* Mutant of ConsumeDatagram: the datagram is read but stays in the buffer.
ConsumeByPeek(taken) == UNCHANGED <<socket, mishaps>>

\* The read that takes the head, unless it was evicted since the peek.
ConsumeDatagram(taken) ==
    /\ socket' = Tail(socket)
    /\ IF taken
       THEN UNCHANGED mishaps
       ELSE mishaps < MaxMishaps /\ mishaps' = mishaps + 1

\* TryReceive of the head, taken or not.
UdpTryReceive(fits, taken) ==
    /\ ProbeAndClassify(fits) = "Success"
    /\ ConsumeDatagram(taken)
    /\ UNCHANGED network
=============================================================================
