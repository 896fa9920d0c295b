---------------------------- MODULE LoopbackLink ----------------------------
(***************************************************************************)
(* The two in-process networks: THostLoopback, whose ports share a set of  *)
(* mailboxes, and TLoopbackNetwork, which is the ports' own.  Both check   *)
(* the address, keep a bounded FIFO for each port and hand a packet to the *)
(* port it is addressed to; they differ in what they leave in a slot that  *)
(* is no longer in use.                                                    *)
(***************************************************************************)
EXTENDS PacketRing

CONSTANTS
    MailboxCapacity,
    Nowhere            \* an address that names no port

VARIABLE mailbox       \* the mailbox of the receiving port

LoopbackInit == mailbox = EmptyRing(MailboxCapacity)

(***************************************************************************)
(* THostLoopback.                                                          *)
(***************************************************************************)

\* ValidateDeliverAddress.
IsPort(to) == to # Nowhere

EnqueuePacket(packet, result) ==
    IF IsFull(mailbox)
    THEN result = "Full" /\ UNCHANGED mailbox
    ELSE result = "Success" /\ mailbox' = Enqueued(mailbox, packet)

Deliver(packet, to, result) ==
    IF IsPort(to)
    THEN EnqueuePacket(packet, result)
    ELSE result = "Invalid" /\ UNCHANGED mailbox

\* Receive keeps a head the destination has no room for; PopHeadInto releases it.
Receive(packet) ==
    /\ mailbox.count > 0
    /\ packet = HeadPacket(mailbox)
    /\ mailbox' = Popped(mailbox)

HostDrain == mailbox' = EmptyRing(MailboxCapacity)

(***************************************************************************)
(* TLoopbackNetwork.                                                       *)
(***************************************************************************)

\* DecodeDestination.
DecodesDestination(to) == to # Nowhere

PortTrySend(packet, to, result) ==
    /\ result = IF ~DecodesDestination(to) THEN "Invalid"
                ELSE IF IsFull(mailbox) THEN "Full" ELSE "Success"
    /\ mailbox' = IF result = "Success" THEN Enqueued(mailbox, packet) ELSE mailbox

PortTryReceive(packet) ==
    /\ mailbox.count > 0
    /\ packet = HeadPacket(mailbox)
    /\ mailbox' = Passed(mailbox)

PortDrain == mailbox' = [mailbox EXCEPT !.head = 0, !.tail = 0, !.count = 0]
=============================================================================
