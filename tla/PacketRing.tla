----------------------------- MODULE PacketRing -----------------------------
(***************************************************************************)
(* The fixed ring every packet queue of the transport layer is built on:   *)
(* TTransportManager's send queue and the mailboxes of THostLoopback and   *)
(* TLoopbackNetwork.  A ring is a value: its slots, the head and tail      *)
(* positions (from 0, as in the code) and the number of queued packets.    *)
(***************************************************************************)
EXTENDS Naturals, FiniteSets

\* What a slot holds when no queued packet occupies it.
CONSTANT NoPacket

EmptyRing(capacity) ==
    [slots |-> [i \in 0 .. capacity - 1 |-> NoPacket], head |-> 0, tail |-> 0, count |-> 0]

Capacity(ring) == Cardinality(DOMAIN ring.slots)

\* EnqueuePacket's refusal: every slot is taken.
IsFull(ring) == ring.count >= Capacity(ring)

HeadPacket(ring) == ring.slots[ring.head]

\* StorePacketAt the tail, then AdvanceTail.
Enqueued(ring, packet) ==
    [ring EXCEPT !.slots[ring.tail] = packet,
                 !.tail = (@ + 1) % Capacity(ring),
                 !.count = @ + 1]

\* The head leaves and the head position advances; its slot still holds it.
Passed(ring) == [ring EXCEPT !.head = (@ + 1) % Capacity(ring), !.count = @ - 1]

\* The head leaves and its slot is released.
Popped(ring) == Passed([ring EXCEPT !.slots[ring.head] = NoPacket])

\* The slots in use, and the packets queued in them.
Occupied(ring) == {(ring.head + k) % Capacity(ring) : k \in 0 .. ring.count - 1}
Packets(ring) == {ring.slots[i] : i \in Occupied(ring)}
=============================================================================
