--------------------------- MODULE NetworkServer ---------------------------
(***************************************************************************)
(* FNetworkSystem in the server role: a fixed table of peer slots, admitted*)
(* by connect requests, identified by slot and generation, and retired by  *)
(* request, by a disconnect message or by silence.  Times are ages.        *)
(***************************************************************************)
EXTENDS NetworkWire

CONSTANTS
    MaximumAdmitted,    \* operational limit of admitted peers
    OutdatedClients     \* clients of another protocol version

ASSUME ServerAssumption ==
    /\ MaximumAdmitted \in 1..MaxPeers
    /\ OutdatedClients \subseteq Clients

VARIABLE slots      \* PeerSlots

EmptySlot == [occupied |-> FALSE, retired |-> FALSE, generation |-> 0,
              route |-> NoRoute, attempt |-> 0, activityAge |-> 0, heartbeatAge |-> 0]

ServerInit == slots = [i \in PeerSlots |-> EmptySlot]

PeerOf(i) == [index |-> i, generation |-> slots[i].generation]
Admitted == {i \in PeerSlots : slots[i].occupied}

SlotMessage(type, i) == Message(type, Server, slots[i].route, slots[i].attempt, PeerOf(i))

----------------------------------------------------------------------------
(* Admission and retirement.                                               *)

\* Mutant of Retired: the peer keeps its generation.
RetiredInPlace(slot) ==
    [slot EXCEPT !.occupied = FALSE, !.route = NoRoute, !.attempt = 0,
                 !.activityAge = 0, !.heartbeatAge = 0]

\* The slot after RetirePeer: the generation moves on, and a slot that has none
\* left is never used again.
Retired(slot) ==
    [slot EXCEPT !.occupied = FALSE, !.route = NoRoute, !.attempt = 0,
                 !.activityAge = 0, !.heartbeatAge = 0,
                 !.retired = @ \/ slot.generation = MaxGeneration,
                 !.generation = IF @ = MaxGeneration THEN @ ELSE @ + 1]

AdmittedAs(slot, c, attempt) ==
    [slot EXCEPT !.occupied = TRUE, !.route = c, !.attempt = attempt,
                 !.activityAge = 0, !.heartbeatAge = 0,
                 !.generation = IF @ = 0 THEN 1 ELSE @]

\* FindAdmissionSlot: the slot of the route, or else the first free slot that is
\* not retired when the limit allows one more peer.
IsAdmissionSlot(i, c) ==
    \/ slots[i].occupied /\ slots[i].route = c
    \/ /\ \A j \in Admitted : slots[j].route # c
       /\ Cardinality(Admitted) < MaximumAdmitted
       /\ ~slots[i].occupied /\ ~slots[i].retired
       /\ \A j \in PeerSlots : j < i => slots[j].occupied \/ slots[j].retired

Answer(type, m, peer) == {Message(type, Server, m.from, m.attempt, peer)}

RefuseVersion(m) ==
    /\ m.from \in OutdatedClients
    /\ Deliver(m, Answer("RejectedVersion", m, NoPeer))
    /\ UNCHANGED slots

RefuseFull(m) ==
    /\ m.from \notin OutdatedClients
    /\ \A i \in PeerSlots : ~IsAdmissionSlot(i, m.from)
    /\ Deliver(m, Answer("RejectedFull", m, NoPeer))
    /\ UNCHANGED slots

\* A request of the attempt already admitted is answered as before, one of an
\* earlier attempt is dropped.
RepeatAcceptance(m, i) ==
    /\ slots[i].occupied
    /\ m.attempt <= slots[i].attempt
    /\ Deliver(m, IF m.attempt < slots[i].attempt THEN {}
                  ELSE {SlotMessage("ConnectAccepted", i)})
    /\ UNCHANGED slots

\* A new peer, or a later attempt of an admitted one: the old session is retired
\* first, and with the last generation of its slot the client is refused.
AdmitPeer(m, i) ==
    /\ slots[i].occupied => m.attempt > slots[i].attempt
    /\ LET slot == IF slots[i].occupied THEN Retired(slots[i]) ELSE slots[i]
           admitted == AdmittedAs(slot, m.from, m.attempt)
           peer == [index |-> i, generation |-> admitted.generation]
       IN IF slot.retired
          THEN /\ slots' = [slots EXCEPT ![i] = slot]
               /\ Deliver(m, Answer("RejectedFull", m, NoPeer))
          ELSE /\ slots' = [slots EXCEPT ![i] = admitted]
               /\ Deliver(m, Answer("ConnectAccepted", m, peer))

HandleConnectRequest(m) ==
    /\ m.type = "ConnectRequest"
    /\ \/ RefuseVersion(m)
       \/ RefuseFull(m)
       \/ /\ m.from \notin OutdatedClients
          /\ \E i \in PeerSlots :
                /\ IsAdmissionSlot(i, m.from)
                /\ RepeatAcceptance(m, i) \/ AdmitPeer(m, i)

----------------------------------------------------------------------------
(* Traffic of admitted peers.                                              *)

\* Mutant of IsSessionOf: any traffic of the route counts.
IsRouteOf(i, m) ==
    /\ slots[i].occupied
    /\ slots[i].route = m.from

\* The slot of the sender's route holds the session of the message.
IsSessionOf(i, m) ==
    /\ slots[i].occupied
    /\ slots[i].route = m.from
    /\ m.peer = PeerOf(i)
    /\ m.type # "Routed" => m.attempt = slots[i].attempt

ServerHandleTraffic(m) ==
    /\ m.type \in {"Heartbeat", "Routed"}
    /\ slots' = [i \in PeerSlots |-> IF IsSessionOf(i, m)
                                     THEN [slots[i] EXCEPT !.activityAge = 0]
                                     ELSE slots[i]]
    /\ Deliver(m, {})

ServerHandleDisconnect(m) ==
    /\ m.type = "Disconnect"
    /\ slots' = [i \in PeerSlots |-> IF IsSessionOf(i, m) THEN Retired(slots[i])
                                     ELSE slots[i]]
    /\ Deliver(m, {})

ServerReceive(m) ==
    /\ m \in wire
    /\ m.to = Server
    /\ \/ HandleConnectRequest(m)
       \/ ServerHandleTraffic(m)
       \/ ServerHandleDisconnect(m)

----------------------------------------------------------------------------
(* Calls and frames.                                                       *)

DisconnectPeer(i) ==
    /\ slots[i].occupied
    /\ Send({SlotMessage("Disconnect", i)})
    /\ slots' = [slots EXCEPT ![i] = Retired(@)]

SendTo(i) ==
    /\ slots[i].occupied
    /\ Send({SlotMessage("Routed", i)})
    /\ UNCHANGED slots

\* One copy for every peer.
Broadcast ==
    /\ Admitted # {}
    /\ Send({SlotMessage("Routed", i) : i \in Admitted})
    /\ UNCHANGED slots

\* Mutant of Silent: judged by the server's own traffic.
SilentSinceGreeting(i, length) == Older(slots[i].heartbeatAge, length) > PeerTimeout

Silent(i, length) == Older(slots[i].activityAge, length) > PeerTimeout
HeartbeatDue(i, length) ==
    slots[i].occupied /\ ~Silent(i, length)
        /\ Older(slots[i].heartbeatAge, length) >= HeartbeatInterval

\* PreAdvance: silent peers are retired, the others greeted when it is time.
ServerFrame(length) ==
    /\ slots' = [i \in PeerSlots |->
                    IF ~slots[i].occupied THEN slots[i]
                    ELSE IF Silent(i, length) THEN Retired(slots[i])
                    ELSE [slots[i] EXCEPT
                            !.activityAge = Older(@, length),
                            !.heartbeatAge = IF HeartbeatDue(i, length) THEN 0
                                             ELSE Older(@, length)]]
    /\ Send({SlotMessage("Heartbeat", i) : i \in {j \in PeerSlots : HeartbeatDue(j, length)}})
=============================================================================
