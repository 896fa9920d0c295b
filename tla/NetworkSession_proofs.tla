----------------------- MODULE NetworkSession_proofs -----------------------
(***************************************************************************)
(* Type correctness of NetworkSession and agreement on sessions, for any   *)
(* number of clients, slots, attempts and generations, any timing and any  *)
(* loss, delay, reordering or duplication.                                 *)
(*                                                                         *)
(* SessionsAgree is not inductive: an acceptance in flight makes a client  *)
(* connected later, so what it promises must be kept while it flies.       *)
(***************************************************************************)
EXTENDS NetworkSession, FiniteSetTheorems, TLAPS

\* An occupied slot has a peer to answer with and a client to answer.
SlotSound(slot) ==
    slot.occupied => slot.generation # 0 /\ ~slot.retired /\ slot.route \in Clients

\* The session of peer p is client c's of attempt a, or over.
Kept(p, c, a) == p \in Peers /\ (Ended(p) \/ Held(p, c, a))

\* Messages run between a client and the server, and an acceptance names a session
\* of its client and attempt, as does traffic for the server.
MessageSound(m) ==
    /\ m \in Messages
    /\ (m.from = Server) # (m.to = Server)
    /\ m.type = "ConnectAccepted" => Kept(m.peer, m.to, m.attempt)
    /\ m.type = "Routed" /\ m.to = Server => Kept(m.peer, m.from, m.attempt)

ClientTypeOK ==
    /\ connectionState \in [Clients -> ConnectionStates]
    /\ serverRoute \in [Clients -> {Server, NoRoute}]
    /\ serverPeer \in [Clients -> Peers \cup {NoPeer}]
    /\ currentAttempt \in [Clients -> Attempts]
    /\ sendAge \in [Clients -> 0..(PeerTimeout + 1)]
    /\ serverAge \in [Clients -> 0..(PeerTimeout + 1)]

ServerTypeOK ==
    /\ slots \in [PeerSlots -> SlotType]
    /\ \A i \in PeerSlots : SlotSound(slots[i])

WireSound == \A m \in wire : MessageSound(m)

SessionInvariant == ClientTypeOK /\ ServerTypeOK /\ WireSound /\ SessionsAgree

----------------------------------------------------------------------------
(* The route and ages.                                                     *)

\* What is in flight after sending was in flight before or is sent.
LEMMA PostAdds ==
    ASSUME NEW flying, NEW sent, Post(flying, sent)
    PROVE  wire' \subseteq flying \cup sent
BY DEF Post

\* What is in flight after a delivery was in flight before or answers it.
LEMMA DeliverAdds ==
    ASSUME NEW m, NEW replies, Deliver(m, replies)
    PROVE  wire' \subseteq wire \cup replies
BY DEF Deliver, Post

\* Ages stay within the last one told apart.
LEMMA OlderType ==
    ASSUME NEW age \in 0..(PeerTimeout + 1), NEW length \in FrameLengths
    PROVE  Older(age, length) \in 0..(PeerTimeout + 1)
BY WireAssumption DEF WireAssumption, Older

----------------------------------------------------------------------------
(* What a step may do to a slot.                                           *)

SlotKept(s, t) ==
    /\ t.occupied = s.occupied
    /\ t.retired = s.retired
    /\ t.generation = s.generation
    /\ t.route = s.route
    /\ t.attempt = s.attempt

SlotClosed(s, t) ==
    /\ s.occupied
    /\ ~t.occupied
    /\ t.generation > s.generation \/ (t.generation = s.generation /\ t.retired)

SlotOpened(s, t) ==
    \/ t.generation > s.generation
    \/ t.generation = s.generation /\ ~s.occupied /\ ~s.retired

SlotMoves(s, t) ==
    t \in SlotType /\ SlotSound(t) /\ (SlotKept(s, t) \/ SlotClosed(s, t) \/ SlotOpened(s, t))

\* A retired slot is empty, and its peer is never given out again.
LEMMA RetiredCloses ==
    ASSUME NEW slot \in SlotType, slot.occupied
    PROVE  /\ SlotMoves(slot, Retired(slot))
           /\ ~Retired(slot).occupied
           /\ Retired(slot).generation \in Nat
           /\ Retired(slot).generation >= slot.generation
           /\ ~Retired(slot).retired => Retired(slot).generation > slot.generation
<1> DEFINE t == Retired(slot)
<1>1. MaxGeneration \in Nat /\ MaxGeneration > 0 /\ 0 \in Attempts
      /\ 0 \in 0..(PeerTimeout + 1)
  BY WireAssumption DEF WireAssumption, Attempts
<1>2. slot.generation \in 0..MaxGeneration /\ slot.retired \in BOOLEAN
  BY DEF SlotType
<1>3. /\ ~t.occupied
      /\ slot.generation = MaxGeneration => t.retired
      /\ t.generation = IF slot.generation = MaxGeneration THEN slot.generation
                        ELSE slot.generation + 1
  BY DEF SlotType, Retired
<1>4. t \in SlotType
  <2>1. NoRoute \in Clients \cup {NoRoute}
    OBVIOUS
  <2>2. (slot.retired \/ slot.generation = MaxGeneration) \in BOOLEAN
    OBVIOUS
  <2>3. (IF slot.generation = MaxGeneration THEN slot.generation
         ELSE slot.generation + 1) \in 0..MaxGeneration
    BY <1>1, <1>2
  <2> QED BY <1>1, <2>1, <2>2, <2>3 DEF SlotType, Retired
<1>5. t.generation > slot.generation \/ (t.generation = slot.generation /\ t.retired)
  BY <1>1, <1>2, <1>3
<1>6. SlotSound(t) /\ SlotClosed(slot, t)
  BY <1>3, <1>5 DEF SlotSound, SlotClosed
<1>7. t.generation \in Nat /\ t.generation >= slot.generation
  BY <1>1, <1>2, <1>3
<1> QED BY <1>2, <1>3, <1>4, <1>5, <1>6, <1>7 DEF SlotMoves

\* Admission opens a slot that is free.
LEMMA AdmittedOpens ==
    ASSUME NEW slot \in SlotType, ~slot.occupied, ~slot.retired,
           NEW c \in Clients, NEW attempt \in Attempts
    PROVE  /\ SlotMoves(slot, AdmittedAs(slot, c, attempt))
           /\ AdmittedAs(slot, c, attempt).occupied
           /\ AdmittedAs(slot, c, attempt).route = c
           /\ AdmittedAs(slot, c, attempt).attempt = attempt
           /\ AdmittedAs(slot, c, attempt).generation \in 1..MaxGeneration
           /\ AdmittedAs(slot, c, attempt).generation >= slot.generation
<1> DEFINE t == AdmittedAs(slot, c, attempt)
<1>1. MaxGeneration \in Nat /\ MaxGeneration > 0 /\ 0 \in 0..(PeerTimeout + 1)
  BY WireAssumption DEF WireAssumption
<1>2. slot.generation \in 0..MaxGeneration
  BY DEF SlotType
<1>3. /\ t.occupied = TRUE
      /\ t.retired = slot.retired
      /\ t.route = c
      /\ t.attempt = attempt
      /\ t.generation = IF slot.generation = 0 THEN 1 ELSE slot.generation
  BY DEF SlotType, AdmittedAs
<1>4. t \in SlotType
  <2>1. (IF slot.generation = 0 THEN 1 ELSE slot.generation) \in 0..MaxGeneration
    BY <1>1, <1>2
  <2> QED BY <1>1, <2>1 DEF SlotType, AdmittedAs
<1>5. SlotSound(t) /\ SlotOpened(slot, t)
  BY <1>1, <1>2, <1>3 DEF SlotSound, SlotOpened
<1> QED BY <1>1, <1>2, <1>3, <1>4, <1>5 DEF SlotMoves

\* Only the ages change.
LEMMA AgesKeep ==
    ASSUME NEW slot \in SlotType, SlotSound(slot),
           NEW a \in 0..(PeerTimeout + 1), NEW h \in 0..(PeerTimeout + 1)
    PROVE  /\ SlotMoves(slot, slot)
           /\ SlotMoves(slot, [slot EXCEPT !.activityAge = a])
           /\ SlotMoves(slot, [slot EXCEPT !.activityAge = a, !.heartbeatAge = h])
BY DEF SlotType, SlotMoves, SlotSound, SlotKept

\* No move of its slot gives the peer of a session to another session.
LEMMA KeptStays ==
    ASSUME ServerTypeOK, NEW p \in Peers, NEW c, NEW a, Kept(p, c, a),
           \A i \in PeerSlots : SlotMoves(slots[i], slots'[i])
    PROVE  Kept(p, c, a)'
<1>1. p.index \in PeerSlots /\ p.generation \in Nat
  BY DEF Peers
<1> DEFINE s == slots[p.index]
           t == slots'[p.index]
<1>2. s \in SlotType /\ t \in SlotType /\ SlotMoves(s, t)
  BY <1>1 DEF ServerTypeOK, SlotMoves
<1>3. s.generation \in Nat /\ t.generation \in Nat
  BY <1>2, WireAssumption DEF SlotType, WireAssumption
<1>4. CASE SlotKept(s, t)
  BY <1>4 DEF SlotKept, Kept, Ended, Held
<1>5. CASE SlotClosed(s, t)
  BY <1>1, <1>3, <1>5 DEF SlotClosed, Kept, Ended, Held
<1>6. CASE SlotOpened(s, t)
  BY <1>1, <1>3, <1>6 DEF SlotOpened, Kept, Ended, Held
<1> QED BY <1>2, <1>4, <1>5, <1>6 DEF SlotMoves

----------------------------------------------------------------------------
(* Server steps.                                                           *)

SlotsMove ==
    /\ slots' \in [PeerSlots -> SlotType]
    /\ \A i \in PeerSlots : SlotMoves(slots[i], slots'[i])

\* What a step of the server owes the rest.
ServerKeeps == SlotsMove /\ ServerTypeOK' /\ WireSound'

\* Messages that are neither acceptance nor traffic for the server promise nothing.
Plain(m) ==
    /\ m \in Messages
    /\ (m.from = Server) # (m.to = Server)
    /\ m.type # "ConnectAccepted"
    /\ m.type = "Routed" => m.to # Server

\* A server that does nothing moves nothing.
LEMMA SlotsStay ==
    ASSUME ServerTypeOK, UNCHANGED slots
    PROVE  SlotsMove
BY DEF ServerTypeOK, SlotsMove, SlotMoves, SlotKept

\* One slot moves at a time.
LEMMA SlotReplaced ==
    ASSUME ServerTypeOK, NEW i \in PeerSlots, NEW t, SlotMoves(slots[i], t),
           slots' = [slots EXCEPT ![i] = t]
    PROVE  SlotsMove
<1>1. t \in SlotType /\ slots \in [PeerSlots -> SlotType]
  BY DEF SlotMoves, ServerTypeOK
<1>2. slots' \in [PeerSlots -> SlotType]
  BY <1>1
<1>3. \A j \in PeerSlots : SlotMoves(slots[j], slots[j])
  BY DEF ServerTypeOK, SlotMoves, SlotKept
<1>4. \A j \in PeerSlots : slots'[j] = IF j = i THEN t ELSE slots[j]
  BY <1>1
<1> QED BY <1>2, <1>3, <1>4 DEF SlotsMove

\* Moving slots keep what messages in flight promise.
LEMMA WireStaysSound ==
    ASSUME ServerTypeOK, SlotsMove, WireSound, NEW sent,
           wire' \subseteq wire \cup sent,
           \A m \in sent : MessageSound(m)'
    PROVE  ServerKeeps
<1>1. ServerTypeOK'
  BY DEF ServerTypeOK, SlotsMove, SlotMoves
<1>2. ASSUME NEW m \in wire
      PROVE  MessageSound(m)'
  <2>1. MessageSound(m)
    BY DEF WireSound
  <2>2. m.type = "ConnectAccepted" => Kept(m.peer, m.to, m.attempt)'
    BY <2>1, KeptStays DEF MessageSound, Kept, SlotsMove
  <2>3. m.type = "Routed" /\ m.to = Server => Kept(m.peer, m.from, m.attempt)'
    BY <2>1, KeptStays DEF MessageSound, Kept, SlotsMove
  <2> QED BY <2>1, <2>2, <2>3 DEF MessageSound
<1>3. \A m \in wire' : MessageSound(m)'
  BY <1>2
<1> QED BY <1>1, <1>3 DEF WireSound, ServerKeeps

\* Messages that promise nothing are sound in every state.
LEMMA PlainIsSound ==
    ASSUME NEW sent, \A m \in sent : Plain(m)
    PROVE  \A m \in sent : MessageSound(m)'
BY DEF Plain, MessageSound

\* What the server tells an admitted peer is well formed.
LEMMA SlotMessagePlain ==
    ASSUME ServerTypeOK, NEW i \in PeerSlots, slots[i].occupied,
           NEW type \in MessageTypes \ {"ConnectAccepted"}
    PROVE  Plain(SlotMessage(type, i))
<1>1. /\ slots[i].route \in Clients
      /\ slots[i].attempt \in Attempts
      /\ slots[i].generation \in 1..MaxGeneration
  BY WireAssumption DEF ServerTypeOK, SlotSound, SlotType, WireAssumption
<1>2. PeerOf(i) \in Peers
  BY <1>1 DEF PeerOf, Peers
<1>3. SlotMessage(type, i) \in Messages
  BY <1>1, <1>2 DEF SlotMessage, Message, Messages, Routes
<1>4. slots[i].route # Server
  BY <1>1, WireAssumption DEF WireAssumption
<1> QED BY <1>3, <1>4 DEF Plain, SlotMessage, Message

\* Admission, repeated or new, promises the session it makes.
LEMMA ConnectRequestSafe ==
    ASSUME ServerTypeOK, WireSound, NEW m \in wire, m.to = Server,
           HandleConnectRequest(m)
    PROVE  ServerKeeps
<1>1. m.from \in Clients /\ m.attempt \in Attempts /\ m \in Messages
  BY WireAssumption DEF WireSound, MessageSound, Messages, Routes, WireAssumption
<1>2. NoPeer \in Peers \cup {NoPeer} /\ Server \notin Clients
  BY WireAssumption DEF WireAssumption
<1>3. ASSUME NEW type \in MessageTypes \ {"ConnectAccepted"}
      PROVE  \A r \in Answer(type, m, NoPeer) : Plain(r)
  BY <1>1, <1>2 DEF Answer, Plain, Message, Messages, Routes
<1>4. CASE RefuseVersion(m)
  <2>1. wire' \subseteq wire \cup Answer("RejectedVersion", m, NoPeer)
    BY <1>4, DeliverAdds DEF RefuseVersion
  <2>2. SlotsMove
    BY <1>4, SlotsStay DEF RefuseVersion
  <2> QED BY <1>3, <2>1, <2>2, PlainIsSound, WireStaysSound DEF MessageTypes
<1>5. CASE RefuseFull(m)
  <2>1. wire' \subseteq wire \cup Answer("RejectedFull", m, NoPeer)
    BY <1>5, DeliverAdds DEF RefuseFull
  <2>2. SlotsMove
    BY <1>5, SlotsStay DEF RefuseFull
  <2> QED BY <1>3, <2>1, <2>2, PlainIsSound, WireStaysSound DEF MessageTypes
<1>6. ASSUME NEW i \in PeerSlots, IsAdmissionSlot(i, m.from), RepeatAcceptance(m, i)
      PROVE  ServerKeeps
  <2>0. PICK accepted : accepted = SlotMessage("ConnectAccepted", i)
    OBVIOUS
  <2>1. wire' \subseteq wire \cup {accepted}
    BY <1>6, <2>0, DeliverAdds DEF RepeatAcceptance
  <2>2. UNCHANGED slots
    BY <1>6 DEF RepeatAcceptance
  <2>3. /\ slots[i].route \in Clients
        /\ slots[i].attempt \in Attempts
        /\ slots[i].generation \in 1..MaxGeneration
    BY <1>6, WireAssumption
    DEF RepeatAcceptance, ServerTypeOK, SlotSound, SlotType, WireAssumption
  <2>4. PeerOf(i) \in Peers
    BY <2>3 DEF PeerOf, Peers
  <2>5. accepted \in Messages /\ accepted.from = Server /\ accepted.to # Server
    BY <1>2, <2>0, <2>3, <2>4 DEF SlotMessage, Message, Messages, Routes, MessageTypes
  <2>6. Kept(PeerOf(i), slots[i].route, slots[i].attempt)
    BY <1>6, <2>4 DEF RepeatAcceptance, Kept, Held, PeerOf
  <2>7. /\ accepted.peer = PeerOf(i)
        /\ accepted.to = slots[i].route
        /\ accepted.attempt = slots[i].attempt
    BY <2>0 DEF SlotMessage, Message
  <2>8. MessageSound(accepted)
    BY <2>5, <2>6, <2>7 DEF MessageSound
  <2>9. \A r \in {accepted} : MessageSound(r)'
    BY <2>2, <2>8 DEF MessageSound, Kept, Ended, Held
  <2>10. SlotsMove
    BY <2>2, SlotsStay
  <2> DEFINE sent == {accepted}
  <2>11. wire' \subseteq wire \cup sent /\ \A r \in sent : MessageSound(r)'
    BY <2>1, <2>9
  <2> HIDE DEF sent
  <2> QED BY <2>10, <2>11, WireStaysSound
<1>7. ASSUME NEW i \in PeerSlots, IsAdmissionSlot(i, m.from), AdmitPeer(m, i)
      PROVE  ServerKeeps
  <2> DEFINE slot == IF slots[i].occupied THEN Retired(slots[i]) ELSE slots[i]
             admitted == AdmittedAs(slot, m.from, m.attempt)
  <2>0. PICK peer : peer = [index |-> i, generation |-> admitted.generation]
    OBVIOUS
  <2>1. slots[i] \in SlotType /\ SlotSound(slots[i])
    BY DEF ServerTypeOK
  <2>2. slot \in SlotType /\ ~slot.occupied
    BY <2>1, RetiredCloses DEF SlotMoves
  <2>3. CASE slot.retired
    <3>1. slots[i].occupied
      BY <1>7, <2>3 DEF IsAdmissionSlot
    <3>2. /\ slots' = [slots EXCEPT ![i] = Retired(slots[i])]
          /\ Deliver(m, Answer("RejectedFull", m, NoPeer))
      BY <1>7, <2>3, <3>1 DEF AdmitPeer
    <3>3. SlotsMove
      BY <2>1, <3>1, <3>2, RetiredCloses, SlotReplaced
    <3>4. wire' \subseteq wire \cup Answer("RejectedFull", m, NoPeer)
      BY <3>2, DeliverAdds
    <3> QED BY <1>3, <3>3, <3>4, PlainIsSound, WireStaysSound DEF MessageTypes
  <2>4. CASE ~slot.retired
    <3>1. /\ slots' = [slots EXCEPT ![i] = admitted]
          /\ Deliver(m, Answer("ConnectAccepted", m, peer))
      BY <1>7, <2>0, <2>4 DEF AdmitPeer
    <3>2. /\ SlotMoves(slot, admitted)
          /\ admitted.occupied
          /\ admitted.route = m.from
          /\ admitted.attempt = m.attempt
          /\ admitted.generation \in 1..MaxGeneration
          /\ admitted.generation >= slot.generation
      BY <1>1, <2>2, <2>4, AdmittedOpens
    <3>3. SlotMoves(slots[i], admitted)
      <4>1. CASE slots[i].occupied
        <5>1. slot.generation > slots[i].generation
          BY <2>1, <2>4, <4>1, RetiredCloses
        <5>2. slot.generation \in Nat /\ slots[i].generation \in Nat
          BY <2>1, <2>2 DEF SlotType
        <5>3. admitted.generation > slots[i].generation
          BY <3>2, <5>1, <5>2
        <5> QED BY <3>2, <5>3 DEF SlotMoves, SlotOpened
      <4>2. CASE ~slots[i].occupied
        BY <3>2, <4>2
      <4> QED BY <4>1, <4>2
    <3>4. SlotsMove
      BY <3>1, <3>3, SlotReplaced
    <3>5. wire' \subseteq wire \cup Answer("ConnectAccepted", m, peer)
      BY <3>1, DeliverAdds
    <3>6. peer \in Peers
      BY <2>0, <3>2 DEF Peers
    <3>7. slots'[i] = admitted
      BY <3>1 DEF ServerTypeOK
    <3>8. Kept(peer, m.from, m.attempt)'
      <4>1. peer.index = i /\ peer.generation = admitted.generation
        BY <2>0
      <4>2. /\ slots'[peer.index].occupied
            /\ slots'[peer.index].generation = peer.generation
            /\ slots'[peer.index].route = m.from
            /\ slots'[peer.index].attempt = m.attempt
        BY <3>2, <3>7, <4>1
      <4> QED BY <3>6, <4>2 DEF Kept, Held
    <3>9. ASSUME NEW r \in Answer("ConnectAccepted", m, peer)
          PROVE  MessageSound(r)'
      <4>1. r = Message("ConnectAccepted", Server, m.from, m.attempt, peer)
        BY <3>9 DEF Answer
      <4>2. r \in Messages /\ r.from = Server /\ r.to = m.from /\ r.attempt = m.attempt
            /\ r.peer = peer
        BY <1>1, <3>6, <4>1 DEF Message, Messages, Routes, MessageTypes
      <4> QED BY <1>1, <1>2, <3>8, <4>2 DEF MessageSound
    <3> QED BY <3>4, <3>5, <3>9, WireStaysSound
  <2> QED BY <2>3, <2>4
<1> QED BY <1>4, <1>5, <1>6, <1>7 DEF HandleConnectRequest

\* Traffic and disconnects move the slots of their session only.
LEMMA TrafficSafe ==
    ASSUME ServerTypeOK, WireSound, NEW m \in wire,
           ServerHandleTraffic(m) \/ ServerHandleDisconnect(m)
    PROVE  ServerKeeps
<1>0. wire' \subseteq wire \cup {}
  BY DeliverAdds DEF ServerHandleTraffic, ServerHandleDisconnect
<1> DEFINE sent == {}
<1>1. wire' \subseteq wire \cup sent /\ \A r \in sent : MessageSound(r)'
  BY <1>0
<1> HIDE DEF sent
<1>2. slots \in [PeerSlots -> SlotType] /\ \A i \in PeerSlots : SlotSound(slots[i])
  BY DEF ServerTypeOK
<1>3. 0 \in 0..(PeerTimeout + 1)
  BY WireAssumption DEF WireAssumption
<1>4. CASE ServerHandleTraffic(m)
  <2>1. slots' = [i \in PeerSlots |-> IF IsSessionOf(i, m)
                                     THEN [slots[i] EXCEPT !.activityAge = 0]
                                     ELSE slots[i]]
    BY <1>4 DEF ServerHandleTraffic
  <2>2. \A i \in PeerSlots : SlotMoves(slots[i], slots'[i])
    BY <1>2, <1>3, <2>1, AgesKeep
  <2>3. \A i \in PeerSlots : slots'[i] \in SlotType
    BY <2>2 DEF SlotMoves
  <2>4. slots' \in [PeerSlots -> SlotType]
    BY <2>1, <2>3
  <2> QED BY <1>1, <2>2, <2>4, WireStaysSound DEF SlotsMove
<1>5. CASE ServerHandleDisconnect(m)
  <2>1. slots' = [i \in PeerSlots |-> IF IsSessionOf(i, m) THEN Retired(slots[i])
                                     ELSE slots[i]]
    BY <1>5 DEF ServerHandleDisconnect
  <2>2. ASSUME NEW i \in PeerSlots
        PROVE  SlotMoves(slots[i], slots'[i])
    <3>1. SlotMoves(slots[i], slots[i])
      BY <1>2, <1>3, AgesKeep
    <3>2. IsSessionOf(i, m) => SlotMoves(slots[i], Retired(slots[i]))
      BY <1>2, RetiredCloses DEF IsSessionOf
    <3> QED BY <2>1, <3>1, <3>2
  <2>3. \A i \in PeerSlots : slots'[i] \in SlotType
    BY <2>2 DEF SlotMoves
  <2>4. slots' \in [PeerSlots -> SlotType]
    BY <2>1, <2>3
  <2> QED BY <1>1, <2>2, <2>4, WireStaysSound DEF SlotsMove
<1> QED BY <1>4, <1>5

\* Calls of the server's application.
LEMMA ServerCallSafe ==
    ASSUME ServerTypeOK, WireSound, NEW i \in PeerSlots,
           DisconnectPeer(i) \/ SendTo(i)
    PROVE  ServerKeeps
<1>1. slots[i].occupied /\ slots[i] \in SlotType
  BY DEF DisconnectPeer, SendTo, ServerTypeOK
<1>2. PICK sent : /\ \A m \in sent : Plain(m)
                  /\ wire' \subseteq wire \cup sent
  <2>1. CASE DisconnectPeer(i)
    BY <1>1, <2>1, PostAdds, SlotMessagePlain DEF DisconnectPeer, Send, MessageTypes
  <2>2. CASE SendTo(i)
    BY <1>1, <2>2, PostAdds, SlotMessagePlain DEF SendTo, Send, MessageTypes
  <2> QED BY <2>1, <2>2
<1>3. SlotsMove
  <2>1. CASE DisconnectPeer(i)
    BY <1>1, <2>1, RetiredCloses, SlotReplaced DEF DisconnectPeer
  <2>2. CASE SendTo(i)
    BY <2>2, SlotsStay DEF SendTo
  <2> QED BY <2>1, <2>2
<1> QED BY <1>2, <1>3, PlainIsSound, WireStaysSound

\* A broadcast is one routed message for every peer.
LEMMA BroadcastSafe ==
    ASSUME ServerTypeOK, WireSound, Broadcast
    PROVE  ServerKeeps
<1>1. PICK sent : sent = {SlotMessage("Routed", i) : i \in Admitted}
  OBVIOUS
<1>2. \A i \in Admitted : i \in PeerSlots /\ slots[i].occupied
  BY DEF Admitted
<1>3. \A m \in sent : Plain(m)
  BY <1>1, <1>2, SlotMessagePlain DEF MessageTypes
<1>4. wire' \subseteq wire \cup sent
  BY <1>1, PostAdds DEF Broadcast, Send
<1>5. SlotsMove
  BY SlotsStay DEF Broadcast
<1> QED BY <1>3, <1>4, <1>5, PlainIsSound, WireStaysSound

\* A frame retires the silent peers and greets the others.
LEMMA ServerFrameSafe ==
    ASSUME ServerTypeOK, WireSound, NEW length \in FrameLengths, ServerFrame(length)
    PROVE  ServerKeeps
<1> DEFINE greeted == {j \in PeerSlots : HeartbeatDue(j, length)}
           ticked(i) == [slots[i] EXCEPT
                            !.activityAge = Older(@, length),
                            !.heartbeatAge = IF HeartbeatDue(i, length) THEN 0
                                             ELSE Older(@, length)]
<1>1. PICK sent : sent = {SlotMessage("Heartbeat", i) : i \in greeted}
  OBVIOUS
<1>2. \A i \in greeted : i \in PeerSlots /\ slots[i].occupied
  BY DEF HeartbeatDue
<1>3. \A m \in sent : Plain(m)
  BY <1>1, <1>2, SlotMessagePlain DEF MessageTypes
<1>4. wire' \subseteq wire \cup sent
  BY <1>1, PostAdds DEF ServerFrame, Send
<1>5. slots' = [i \in PeerSlots |->
                    IF ~slots[i].occupied THEN slots[i]
                    ELSE IF Silent(i, length) THEN Retired(slots[i])
                    ELSE ticked(i)]
  BY DEF ServerFrame
<1>6. ASSUME NEW i \in PeerSlots
      PROVE  SlotMoves(slots[i], slots'[i])
  <2>1. slots[i] \in SlotType /\ SlotSound(slots[i])
    BY DEF ServerTypeOK
  <2>2. /\ slots[i].activityAge \in 0..(PeerTimeout + 1)
        /\ slots[i].heartbeatAge \in 0..(PeerTimeout + 1)
        /\ 0 \in 0..(PeerTimeout + 1)
    BY <2>1, WireAssumption DEF SlotType, WireAssumption
  <2>3. /\ Older(slots[i].activityAge, length) \in 0..(PeerTimeout + 1)
        /\ (IF HeartbeatDue(i, length) THEN 0 ELSE Older(slots[i].heartbeatAge, length))
                \in 0..(PeerTimeout + 1)
    BY <2>2, OlderType
  <2>4. SlotMoves(slots[i], slots[i]) /\ SlotMoves(slots[i], ticked(i))
    BY <2>1, <2>2, <2>3, AgesKeep
  <2>5. slots[i].occupied => SlotMoves(slots[i], Retired(slots[i]))
    BY <2>1, RetiredCloses
  <2> HIDE DEF ticked
  <2> QED BY <1>5, <2>4, <2>5
<1>7. \A i \in PeerSlots : slots'[i] \in SlotType
  BY <1>6 DEF SlotMoves
<1>8. slots' \in [PeerSlots -> SlotType]
  BY <1>5, <1>7
<1> QED BY <1>3, <1>4, <1>6, <1>8, PlainIsSound, WireStaysSound DEF SlotsMove

\* Every step of the server keeps the promises in flight.
LEMMA ServerStepSafe ==
    ASSUME ServerTypeOK, WireSound, ServerStep
    PROVE  ServerKeeps
<1>1. ASSUME NEW m \in wire, ServerReceive(m)
      PROVE  ServerKeeps
  BY <1>1, ConnectRequestSafe, TrafficSafe DEF ServerReceive
<1> QED BY <1>1, ServerCallSafe, BroadcastSafe, ServerFrameSafe DEF ServerStep

----------------------------------------------------------------------------
(* Client steps.                                                           *)

\* The agreement of one client.
Agrees(c) ==
    connectionState[c] = "Connected" => Kept(serverPeer[c], c, currentAttempt[c])

\* Sessions agree when each client does.
LEMMA AgreementByClient == SessionsAgree <=> \A c \in Clients : Agrees(c)
BY DEF SessionsAgree, Agrees, Kept

\* Without a change of slots, promises in flight stay as they were.
LEMMA ClientWire ==
    ASSUME WireSound, UNCHANGED slots, NEW sent,
           wire' \subseteq wire \cup sent,
           \A m \in sent : Plain(m)
    PROVE  WireSound'
<1>1. \A m \in wire : MessageSound(m)'
  BY DEF WireSound, MessageSound, Kept, Ended, Held
<1>2. \A m \in wire' : MessageSound(m)'
  BY <1>1, PlainIsSound
<1> QED BY <1>2 DEF WireSound

\* The state of one client after a step, and the agreement of all.
LEMMA OneClientMoves ==
    ASSUME ClientTypeOK, SessionsAgree, UNCHANGED slots,
           NEW c \in Clients,
           NEW s \in ConnectionStates, NEW r \in {Server, NoRoute},
           NEW p \in Peers \cup {NoPeer}, NEW a \in Attempts,
           NEW x \in 0..(PeerTimeout + 1), NEW y \in 0..(PeerTimeout + 1),
           connectionState' = [connectionState EXCEPT ![c] = s],
           serverRoute' = [serverRoute EXCEPT ![c] = r],
           serverPeer' = [serverPeer EXCEPT ![c] = p],
           currentAttempt' = [currentAttempt EXCEPT ![c] = a],
           sendAge' = [sendAge EXCEPT ![c] = x],
           serverAge' = [serverAge EXCEPT ![c] = y],
           s = "Connected" => Kept(p, c, a)
    PROVE  ClientTypeOK' /\ SessionsAgree'
<1>1. ClientTypeOK'
  BY DEF ClientTypeOK
<1>2. \A d \in Clients : Agrees(d)
  BY AgreementByClient
<1>3. ASSUME NEW d \in Clients
      PROVE  Agrees(d)'
  <2>1. CASE d = c
    <3>1. connectionState'[c] = s /\ serverPeer'[c] = p /\ currentAttempt'[c] = a
      BY DEF ClientTypeOK
    <3> QED BY <2>1, <3>1 DEF Agrees, Kept, Ended, Held
  <2>2. CASE d # c
    <3>1. /\ connectionState'[d] = connectionState[d]
          /\ serverPeer'[d] = serverPeer[d]
          /\ currentAttempt'[d] = currentAttempt[d]
      BY <2>2 DEF ClientTypeOK
    <3>2. Agrees(d)
      BY <1>2
    <3>3. connectionState[d] = "Connected" =>
            (Kept(serverPeer[d], d, currentAttempt[d]))'
      BY <3>1, <3>2 DEF Agrees, Kept, Ended, Held
    <3> QED BY <3>1, <3>3 DEF Agrees
  <2> QED BY <2>1, <2>2
<1> QED BY <1>1, <1>3 DEF SessionsAgree, Agrees, Kept

\* An attempt, new or repeated, promises nothing.
LEMMA StartAttemptSafe ==
    ASSUME ClientTypeOK, WireSound, SessionsAgree, UNCHANGED slots,
           NEW c \in Clients, StartAttempt(c)
    PROVE  ClientTypeOK' /\ SessionsAgree' /\ WireSound'
<1> DEFINE a == currentAttempt[c] + 1
<1>1. a \in Attempts
  BY WireAssumption DEF StartAttempt, ClientTypeOK, Attempts, WireAssumption
<1>2. 0 \in 0..(PeerTimeout + 1) /\ c # Server
  BY WireAssumption DEF WireAssumption
<1>3. ClientTypeOK' /\ SessionsAgree'
  BY <1>1, <1>2, OneClientMoves DEF StartAttempt, ConnectionStates
<1>4. PICK sent : sent = {Message("ConnectRequest", c, Server, a, NoPeer)}
  OBVIOUS
<1>5. \A m \in sent : Plain(m)
  BY <1>1, <1>2, <1>4 DEF Plain, Message, Messages, Routes, MessageTypes
<1>6. wire' \subseteq wire \cup sent
  BY <1>4, PostAdds DEF StartAttempt, Send
<1> QED BY <1>3, <1>5, <1>6, ClientWire

\* A client that leaves agrees with any server.
LEMMA RetireServerSafe ==
    ASSUME ClientTypeOK, SessionsAgree, UNCHANGED slots,
           NEW c \in Clients, RetireServer(c)
    PROVE  ClientTypeOK' /\ SessionsAgree'
<1>1. 0 \in 0..(PeerTimeout + 1)
  BY WireAssumption DEF WireAssumption
<1>2. currentAttempt[c] \in Attempts
  BY DEF ClientTypeOK
<1>3. currentAttempt' = [currentAttempt EXCEPT ![c] = currentAttempt[c]]
  BY DEF RetireServer, ClientTypeOK
<1> QED BY <1>1, <1>2, <1>3, OneClientMoves DEF RetireServer, ConnectionStates

\* What a client sends in its session is well formed.
LEMMA SessionMessagePlain ==
    ASSUME ClientTypeOK, NEW c \in Clients,
           NEW type \in MessageTypes \ {"ConnectAccepted", "Routed"}
    PROVE  Plain(SessionMessage(type, c))
<1>1. serverPeer[c] \in Peers \cup {NoPeer} /\ currentAttempt[c] \in Attempts
  BY DEF ClientTypeOK
<1>2. SessionMessage(type, c) \in Messages
  BY <1>1 DEF SessionMessage, Message, Messages, Routes
<1> QED BY <1>2, WireAssumption DEF WireAssumption, Plain, SessionMessage, Message

\* A client leaves with a word to the server.
LEMMA DisconnectFromServerSafe ==
    ASSUME ClientTypeOK, WireSound, SessionsAgree, UNCHANGED slots,
           NEW c \in Clients, DisconnectFromServer(c)
    PROVE  ClientTypeOK' /\ SessionsAgree' /\ WireSound'
<1>1. PICK sent : /\ \A m \in sent : Plain(m)
                  /\ wire' \subseteq wire \cup sent
  BY PostAdds, SessionMessagePlain DEF DisconnectFromServer, Send, MessageTypes
<1>2. WireSound'
  BY <1>1, ClientWire
<1> QED BY <1>2, RetireServerSafe DEF DisconnectFromServer

\* Traffic for the server names a session of its sender.
LEMMA SendToServerSafe ==
    ASSUME ClientTypeOK, WireSound, SessionsAgree, UNCHANGED slots,
           NEW c \in Clients, SendToServer(c)
    PROVE  ClientTypeOK' /\ SessionsAgree' /\ WireSound'
<1>1. PICK m : m = SessionMessage("Routed", c)
  OBVIOUS
<1>2. wire' \subseteq wire \cup {m}
  BY <1>1, PostAdds DEF SendToServer, Send
<1>3. Kept(serverPeer[c], c, currentAttempt[c])
  BY AgreementByClient DEF SendToServer, Agrees
<1>4. m.type = "Routed" /\ m.from = c /\ m.to = Server /\ m.peer = serverPeer[c]
      /\ m.attempt = currentAttempt[c]
  BY <1>1 DEF SessionMessage, Message
<1>5. m \in Messages
  BY <1>1 DEF SessionMessage, Message, Messages, MessageTypes, Routes, ClientTypeOK
<1>6. MessageSound(m)
  BY <1>3, <1>4, <1>5, WireAssumption DEF MessageSound, WireAssumption
<1>7. \A r \in wire \cup {m} : MessageSound(r)'
  BY <1>6 DEF WireSound, MessageSound, Kept, Ended, Held
<1>8. WireSound'
  BY <1>2, <1>7 DEF WireSound
<1> QED BY <1>8 DEF SendToServer, clientVars, ClientTypeOK, SessionsAgree, Ended, Held

\* A frame of a client in a session or an attempt.
LEMMA SessionFrameSafe ==
    ASSUME ClientTypeOK, WireSound, SessionsAgree, UNCHANGED slots,
           NEW c \in Clients, NEW length \in FrameLengths, SessionFrame(c, length)
    PROVE  ClientTypeOK' /\ SessionsAgree' /\ WireSound'
<1> DEFINE due == Older(sendAge[c], length) >= HeartbeatInterval
           silence == ServerSilence(c, length)
<1>1. PICK sent : /\ sent = IF due THEN {DueMessage(c)} ELSE {}
  OBVIOUS
<1>2. Plain(DueMessage(c))
  BY SessionMessagePlain DEF DueMessage, MessageTypes
<1>3. wire' \subseteq wire \cup sent
  BY <1>1, PostAdds DEF SessionFrame, Send
<1>4. WireSound'
  BY <1>1, <1>2, <1>3, ClientWire
<1>5. /\ sendAge[c] \in 0..(PeerTimeout + 1)
      /\ serverAge[c] \in 0..(PeerTimeout + 1)
      /\ 0 \in 0..(PeerTimeout + 1)
  BY WireAssumption DEF ClientTypeOK, WireAssumption
<1>6. CASE connectionState[c] = "Connected" /\ silence > PeerTimeout
  BY <1>4, <1>6, RetireServerSafe DEF SessionFrame
<1>7. CASE ~(connectionState[c] = "Connected" /\ silence > PeerTimeout)
  <2>1. /\ sendAge' = [sendAge EXCEPT ![c] = IF due THEN 0 ELSE Older(@, length)]
        /\ serverAge' = [serverAge EXCEPT ![c] =
                            IF connectionState[c] = "Connected" THEN silence ELSE 0]
        /\ UNCHANGED <<connectionState, serverRoute, serverPeer, currentAttempt>>
    BY <1>7 DEF SessionFrame
  <2>2. /\ (IF due THEN 0 ELSE Older(sendAge[c], length)) \in 0..(PeerTimeout + 1)
        /\ (IF connectionState[c] = "Connected" THEN silence ELSE 0)
                \in 0..(PeerTimeout + 1)
    BY <1>5, OlderType DEF ServerSilence
  <2>3. ClientTypeOK'
    BY <2>1, <2>2 DEF ClientTypeOK
  <2>4. SessionsAgree'
    BY <2>1 DEF SessionsAgree, Ended, Held
  <2> QED BY <1>4, <2>3, <2>4
<1> QED BY <1>6, <1>7

\* The client enters a session on a promise that is still kept, and leaves one on
\* any word.
LEMMA ClientReceiveSafe ==
    ASSUME ClientTypeOK, WireSound, SessionsAgree, UNCHANGED slots,
           NEW c \in Clients, NEW m \in wire, ClientReceive(c, m)
    PROVE  ClientTypeOK' /\ SessionsAgree' /\ WireSound'
<1>1. wire' \subseteq wire \cup {}
  BY DeliverAdds DEF ClientReceive
<1> DEFINE sent == {}
<1>2. wire' \subseteq wire \cup sent /\ \A r \in sent : Plain(r)
  BY <1>1
<1> HIDE DEF sent
<1>3. WireSound'
  BY <1>2, ClientWire
<1>4. 0 \in 0..(PeerTimeout + 1)
  BY WireAssumption DEF WireAssumption
<1>5. UNCHANGED clientVars => ClientTypeOK' /\ SessionsAgree'
  BY DEF clientVars, ClientTypeOK, SessionsAgree, Ended, Held
<1>6. CASE HandleConnectAccepted(c, m)
  <2>1. CASE IsAdmission(c, m)
    <3>1. MessageSound(m) /\ m.to = c
      BY DEF WireSound, ClientReceive
    <3>2. Kept(m.peer, c, currentAttempt[c])
      BY <1>6, <2>1, <3>1 DEF HandleConnectAccepted, IsAdmission, MessageSound
    <3>3. /\ serverRoute[c] \in {Server, NoRoute}
          /\ currentAttempt[c] \in Attempts
          /\ m.peer \in Peers \cup {NoPeer}
      BY <3>2 DEF ClientTypeOK, Kept
    <3>4. /\ serverRoute' = [serverRoute EXCEPT ![c] = serverRoute[c]]
          /\ currentAttempt' = [currentAttempt EXCEPT ![c] = currentAttempt[c]]
      BY <1>6, <2>1 DEF HandleConnectAccepted, ClientTypeOK
    <3>5. /\ connectionState' = [connectionState EXCEPT ![c] = "Connected"]
          /\ serverPeer' = [serverPeer EXCEPT ![c] = m.peer]
          /\ sendAge' = [sendAge EXCEPT ![c] = 0]
          /\ serverAge' = [serverAge EXCEPT ![c] = 0]
      BY <1>6, <2>1 DEF HandleConnectAccepted
    <3>6. PICK r, a : r = serverRoute[c] /\ a = currentAttempt[c]
      OBVIOUS
    <3>7. ClientTypeOK' /\ SessionsAgree'
      BY <1>4, <3>2, <3>3, <3>4, <3>5, <3>6, OneClientMoves DEF ConnectionStates
    <3> QED BY <1>3, <3>7
  <2>2. CASE ~IsAdmission(c, m)
    BY <1>3, <1>5, <1>6, <2>2 DEF HandleConnectAccepted
  <2> QED BY <2>1, <2>2
<1>7. CASE HandleConnectRejected(c, m)
  BY <1>3, <1>5, <1>7, RetireServerSafe DEF HandleConnectRejected
<1>8. CASE ClientHandleDisconnect(c, m)
  BY <1>3, <1>5, <1>8, RetireServerSafe DEF ClientHandleDisconnect
<1>9. CASE ClientHandleTraffic(c, m)
  <2>1. /\ serverAge' \in [Clients -> 0..(PeerTimeout + 1)]
        /\ UNCHANGED <<connectionState, serverRoute, serverPeer, currentAttempt, sendAge>>
    BY <1>4, <1>9 DEF ClientHandleTraffic, ClientTypeOK
  <2> QED BY <1>3, <2>1 DEF ClientTypeOK, SessionsAgree, Ended, Held
<1> QED BY <1>6, <1>7, <1>8, <1>9 DEF ClientReceive

\* A restarted client is in no session.
LEMMA RestartClientSafe ==
    ASSUME ClientTypeOK, WireSound, SessionsAgree, UNCHANGED <<slots, wire>>,
           NEW c \in Clients, RestartClient(c)
    PROVE  ClientTypeOK' /\ SessionsAgree' /\ WireSound'
<1>1. 0 \in 0..(PeerTimeout + 1) /\ 0 \in Attempts
  BY WireAssumption DEF WireAssumption, Attempts
<1>2. ClientTypeOK' /\ SessionsAgree'
  BY <1>1, OneClientMoves DEF RestartClient, ConnectionStates
<1> QED BY <1>2 DEF WireSound, MessageSound, Kept, Ended, Held

----------------------------------------------------------------------------
(* The theorems.                                                           *)

\* The invariant holds at the start.
LEMMA InitSound == Init => SessionInvariant
<1> SUFFICES ASSUME Init PROVE SessionInvariant
  OBVIOUS
<1>1. 0 \in 0..(PeerTimeout + 1) /\ 0 \in Attempts /\ 0 \in 0..MaxGeneration
  BY WireAssumption DEF WireAssumption, Attempts
<1>2. ClientTypeOK
  BY <1>1 DEF Init, ClientInit, ClientTypeOK, ConnectionStates
<1>3. EmptySlot \in SlotType /\ SlotSound(EmptySlot)
  BY <1>1 DEF EmptySlot, SlotType, SlotSound
<1>4. ServerTypeOK
  BY <1>3 DEF Init, ServerInit, ServerTypeOK
<1>5. WireSound /\ SessionsAgree
  BY DEF Init, ClientInit, WireSound, SessionsAgree
<1> QED BY <1>2, <1>4, <1>5 DEF SessionInvariant

\* Every step keeps the invariant.
LEMMA StepSound == SessionInvariant /\ [Next]_vars => SessionInvariant'
<1> SUFFICES ASSUME SessionInvariant, [Next]_vars PROVE SessionInvariant'
  OBVIOUS
<1> USE DEF SessionInvariant
<1>1. ASSUME NEW c \in Clients, ClientStep(c), UNCHANGED slots
      PROVE  SessionInvariant'
  <2>1. ServerTypeOK'
    BY <1>1 DEF ServerTypeOK
  <2>2. ClientTypeOK' /\ SessionsAgree' /\ WireSound'
    <3>1. CASE ConnectToServer(c)
      BY <1>1, <3>1, StartAttemptSafe DEF ConnectToServer
    <3>2. CASE AutoConnectFrame(c)
      BY <1>1, <3>2, StartAttemptSafe DEF AutoConnectFrame
    <3>3. CASE DisconnectFromServer(c) \/ SendToServer(c)
      BY <1>1, <3>3, DisconnectFromServerSafe, SendToServerSafe
    <3>4. CASE \E length \in FrameLengths : SessionFrame(c, length)
      BY <1>1, <3>4, SessionFrameSafe
    <3>5. CASE \E m \in wire : ClientReceive(c, m)
      BY <1>1, <3>5, ClientReceiveSafe
    <3>6. CASE RestartClient(c) /\ UNCHANGED wire
      BY <1>1, <3>6, RestartClientSafe
    <3> QED BY <1>1, <3>1, <3>2, <3>3, <3>4, <3>5, <3>6 DEF ClientStep
  <2> QED BY <2>1, <2>2
<1>2. ASSUME ServerStep, UNCHANGED clientVars
      PROVE  SessionInvariant'
  <2>1. SlotsMove /\ ServerTypeOK' /\ WireSound'
    BY <1>2, ServerStepSafe DEF ServerKeeps
  <2>2. ClientTypeOK'
    BY <1>2 DEF clientVars, ClientTypeOK
  <2>3. \A i \in PeerSlots : SlotMoves(slots[i], slots'[i])
    BY <2>1 DEF SlotsMove
  <2>4. ASSUME NEW c \in Clients
        PROVE  Agrees(c)'
    <3>1. Agrees(c)
      BY AgreementByClient
    <3>2. /\ connectionState'[c] = connectionState[c]
          /\ serverPeer'[c] = serverPeer[c]
          /\ currentAttempt'[c] = currentAttempt[c]
      BY <1>2 DEF clientVars
    <3>3. PICK p, a : p = serverPeer[c] /\ a = currentAttempt[c]
      OBVIOUS
    <3>4. connectionState[c] = "Connected" => Kept(p, c, a)'
      BY <2>3, <3>1, <3>3, KeptStays DEF Agrees, Kept
    <3>5. serverPeer'[c] = p /\ currentAttempt'[c] = a
      BY <3>2, <3>3
    <3>6. connectionState'[c] = "Connected" => (Kept(serverPeer[c], c, currentAttempt[c]))'
      BY <3>2, <3>4, <3>5 DEF Kept, Ended, Held
    <3> QED BY <3>6 DEF Agrees
  <2>5. SessionsAgree'
    BY <2>4 DEF SessionsAgree, Agrees, Kept
  <2> QED BY <2>1, <2>2, <2>5
<1>3. CASE LoseMessage
  <2>1. wire' \subseteq wire /\ UNCHANGED <<clientVars, slots>>
    BY <1>3 DEF LoseMessage, Lose
  <2>2. ClientTypeOK' /\ ServerTypeOK'
    BY <2>1 DEF clientVars, ClientTypeOK, ServerTypeOK
  <2>3. WireSound'
    BY <2>1 DEF WireSound, MessageSound, Kept, Ended, Held
  <2>4. SessionsAgree'
    BY <2>1 DEF clientVars, SessionsAgree, Kept, Ended, Held
  <2> QED BY <2>2, <2>3, <2>4
<1>4. CASE UNCHANGED vars
  <2>1. UNCHANGED <<clientVars, slots, wire>>
    BY <1>4 DEF vars
  <2>2. ClientTypeOK' /\ ServerTypeOK'
    BY <2>1 DEF clientVars, ClientTypeOK, ServerTypeOK
  <2>3. WireSound'
    BY <2>1 DEF WireSound, MessageSound, Kept, Ended, Held
  <2>4. SessionsAgree'
    BY <2>1 DEF clientVars, SessionsAgree, Kept, Ended, Held
  <2> QED BY <2>2, <2>3, <2>4
<1> QED BY <1>1, <1>2, <1>3, <1>4 DEF Next

\* The invariant is one.
LEMMA SessionsSound == Spec => []SessionInvariant
BY InitSound, StepSound, PTL DEF Spec

\* Every variable of the devices keeps its type (NetworkSystem.h:196-217, 318-344),
\* for any number of devices, slots, attempts and generations.
THEOREM TypeCorrect == Spec => []TypeOK
<1>1. SessionInvariant => TypeOK
  BY DEF SessionInvariant, ClientTypeOK, ServerTypeOK, WireSound, MessageSound, TypeOK
<1> QED BY <1>1, SessionsSound, PTL

\* A client's session is the server's or over: no message, however late or often it
\* arrives, gives a client another's peer (NetworkSystem.cpp:351-440).
THEOREM AgreementOnSessions == Spec => []SessionsAgree
<1>1. SessionInvariant => SessionsAgree
  BY DEF SessionInvariant
<1> QED BY <1>1, SessionsSound, PTL

\* What the server takes for traffic of a session was sent in that session's attempt,
\* although routed messages carry no attempt (NetworkSystem.cpp:488-511).
THEOREM TrafficOfAttempt == Spec => []TrafficMatchesAttempt
<1>1. SessionInvariant => TrafficMatchesAttempt
  <2> SUFFICES ASSUME SessionInvariant, NEW m \in wire, NEW i \in PeerSlots,
                      m.to = Server, m.type = "Routed", IsSessionOf(i, m)
               PROVE  m.attempt = slots[i].attempt
    BY DEF TrafficMatchesAttempt
  <2>1. Kept(m.peer, m.from, m.attempt)
    BY DEF SessionInvariant, WireSound, MessageSound
  <2>2. slots[i].occupied /\ m.peer.index = i /\ m.peer.generation = slots[i].generation
    BY DEF IsSessionOf, PeerOf
  <2>3. slots[i].generation \in Nat
    BY WireAssumption DEF SessionInvariant, ServerTypeOK, SlotType, WireAssumption
  <2> QED BY <2>1, <2>2, <2>3 DEF Kept, Ended, Held
<1> QED BY <1>1, SessionsSound, PTL

----------------------------------------------------------------------------
(* The peer table implements the session registry.                         *)

SessionAt(i) == <<PeerOf(i), slots[i].route, slots[i].attempt>>
Sessions == {<<PeerOf(i), slots[i].route, slots[i].attempt>> : i \in Admitted}
Used == {p \in Peers : Ended(p) \/ (slots[p.index].occupied /\ p = PeerOf(p.index))}

\* A generation of a slot that names or named a session.
UsedIn(s, g) == s.generation > g \/ (s.generation = g /\ (s.occupied \/ s.retired))

\* A session ends with the one generation that named it.
SlotEnds(s, t) ==
    /\ s.occupied /\ ~t.occupied
    /\ \/ t.generation = s.generation + 1 /\ ~t.retired
       \/ s.generation = MaxGeneration /\ t.generation = s.generation /\ t.retired

\* What happens to the slots when nobody is admitted.
Closing == \A i \in PeerSlots : SlotKept(slots[i], slots'[i]) \/ SlotEnds(slots[i], slots'[i])

\* What happens to them when client c is.
Admitting(i, c, a) ==
    /\ IsAdmissionSlot(i, c)
    /\ slots[i].occupied => a > slots[i].attempt
    /\ LET slot == IF slots[i].occupied THEN Retired(slots[i]) ELSE slots[i] IN
        /\ ~slot.retired
        /\ slots' = [slots EXCEPT ![i] = AdmittedAs(slot, c, a)]

\* Retirement takes the next generation, or none.
LEMMA RetiredEnds ==
    ASSUME NEW slot \in SlotType, SlotSound(slot), slot.occupied
    PROVE  SlotEnds(slot, Retired(slot))
<1> DEFINE t == Retired(slot)
<1>1. ~slot.retired /\ slot.generation \in 0..MaxGeneration
  BY DEF SlotSound, SlotType
<1>2. /\ ~t.occupied
      /\ t.generation = IF slot.generation = MaxGeneration THEN slot.generation
                        ELSE slot.generation + 1
  BY DEF SlotType, Retired
<1>3. t.retired <=> slot.retired \/ slot.generation = MaxGeneration
  BY Zenon DEF SlotType, Retired
<1> QED BY <1>1, <1>2, <1>3 DEF SlotEnds

\* A peer is used when its generation is, in its slot.
LEMMA UsedBySlot ==
    \A p : p \in Used <=> p \in Peers /\ UsedIn(slots[p.index], p.generation)
<1> SUFFICES ASSUME NEW p \in Peers
             PROVE  (Ended(p) \/ (slots[p.index].occupied /\ p = PeerOf(p.index)))
                        <=> UsedIn(slots[p.index], p.generation)
  BY DEF Used
<1>1. p = PeerOf(p.index) <=> slots[p.index].generation = p.generation
  BY DEF Peers, PeerOf
<1> QED BY <1>1 DEF Ended, UsedIn

LEMMA UsedBySlotThen ==
    \A p : p \in Used' <=> p \in Peers /\ UsedIn(slots'[p.index], p.generation)
<1>1. (\A p : p \in Used <=> p \in Peers /\ UsedIn(slots[p.index], p.generation))'
  BY UsedBySlot, PTL
<1> QED BY <1>1

\* Sessions of different slots differ, and are as many as the admitted slots at most.
LEMMA SessionsCounted ==
    /\ \A i, j \in PeerSlots : SessionAt(i) = SessionAt(j) => i = j
    /\ IsFiniteSet(Admitted) /\ IsFiniteSet(Sessions)
    /\ Cardinality(Sessions) <= Cardinality(Admitted)
<1>1. \A i, j \in PeerSlots : SessionAt(i) = SessionAt(j) => i = j
  BY DEF SessionAt, PeerOf
<1>2. IsFiniteSet(Admitted)
  <2>1. IsFiniteSet(PeerSlots)
    BY FS_Interval, WireAssumption DEF PeerSlots, WireAssumption
  <2> QED BY <2>1, FS_Subset DEF Admitted
<1>3. PICK f : f = [i \in Admitted |-> SessionAt(i)]
  OBVIOUS
<1>4. f \in Surjection(Admitted, Sessions)
  BY <1>3 DEF Surjection, Sessions, SessionAt
<1> QED BY <1>1, <1>2, <1>4, FS_Surjection

\* Slots that close take their sessions with them and free no peer.
LEMMA ClosingCloses ==
    ASSUME ServerTypeOK, ServerTypeOK', Closing
    PROVE  Registry!Close
<1>1. \A i \in PeerSlots : slots[i] \in SlotType /\ slots'[i] \in SlotType
  BY DEF ServerTypeOK
<1> DEFINE ended == {SessionAt(i) : i \in {j \in Admitted : ~slots'[j].occupied}}
<1>2. \A i \in PeerSlots : slots'[i].occupied =>
        /\ slots[i].occupied
        /\ SessionAt(i)' = SessionAt(i)
  BY <1>1 DEF Closing, SlotKept, SlotEnds, SessionAt, PeerOf
<1>3. Sessions = {SessionAt(i) : i \in Admitted}
      /\ Sessions' = {SessionAt(i)' : i \in Admitted'}
  BY DEF Sessions, SessionAt
<1>4. Admitted' = {i \in PeerSlots : slots'[i].occupied}
      /\ Admitted = {i \in PeerSlots : slots[i].occupied}
  BY DEF Admitted
<1>5. \A x : x \in Sessions' <=> x \in Sessions /\ x \notin ended
  <2>1. ASSUME NEW x \in Sessions' PROVE x \in Sessions /\ x \notin ended
    <3>1. PICK i \in PeerSlots : slots'[i].occupied /\ x = SessionAt(i)'
      BY <1>3, <1>4, <2>1
    <3>2. i \in Admitted /\ x = SessionAt(i)
      BY <1>2, <1>4, <3>1
    <3>3. \A j \in PeerSlots : x = SessionAt(j) => j = i
      BY <3>1, <3>2, SessionsCounted
    <3> QED BY <1>3, <1>4, <3>1, <3>2, <3>3
  <2>2. ASSUME NEW x \in Sessions, x \notin ended PROVE x \in Sessions'
    <3>1. PICK i \in Admitted : x = SessionAt(i)
      BY <1>3, <2>2
    <3>2. slots'[i].occupied /\ i \in PeerSlots
      BY <1>4, <2>2, <3>1
    <3> QED BY <1>2, <1>3, <1>4, <3>1, <3>2
  <2> QED BY <2>1, <2>2
<1>6. Used' = Used
  <2>1. ASSUME NEW i \in PeerSlots, NEW g \in 1..MaxGeneration
        PROVE  UsedIn(slots'[i], g) <=> UsedIn(slots[i], g)
    <3>1. slots[i].generation \in Nat /\ slots'[i].generation \in Nat
      BY <1>1, WireAssumption DEF SlotType, WireAssumption
    <3>2. MaxGeneration \in Nat
      BY WireAssumption DEF WireAssumption
    <3> QED BY <3>1, <3>2 DEF Closing, SlotKept, SlotEnds, UsedIn
  <2>2. \A p \in Peers : p.index \in PeerSlots /\ p.generation \in 1..MaxGeneration
    BY DEF Peers
  <2>3. \A p : p \in Used' <=> p \in Peers /\ UsedIn(slots'[p.index], p.generation)
    BY UsedBySlotThen
  <2>4. \A p : p \in Used' <=> p \in Used
    BY <2>1, <2>2, <2>3, UsedBySlot
  <2> QED BY <2>4
<1> HIDE DEF ended
<1>7. ended \in SUBSET Sessions /\ Sessions' = Sessions \ ended
  <2>1. ended \subseteq Sessions
    BY <1>3 DEF ended
  <2> QED BY <1>5, <2>1
<1> QED BY <1>6, <1>7 DEF Registry!Close, Sessions, Used

\* The peer an admission gives out was never used, and only it becomes used.
LEMMA AdmittingUses ==
    ASSUME ServerTypeOK, NEW i \in PeerSlots, NEW c \in Clients, NEW a \in Attempts,
           Admitting(i, c, a), NEW p, p = PeerOf(i)'
    PROVE  /\ p \in Peers \ Used
           /\ Used' = Used \cup {p}
           /\ slots'[i].occupied /\ slots'[i].route = c /\ slots'[i].attempt = a
           /\ \A j \in PeerSlots : j # i => slots'[j] = slots[j]
<1>1. slots \in [PeerSlots -> SlotType] /\ slots[i] \in SlotType /\ SlotSound(slots[i])
  BY DEF ServerTypeOK
<1>2. PICK slot : slot = IF slots[i].occupied THEN Retired(slots[i]) ELSE slots[i]
  OBVIOUS
<1>3. ~slot.retired /\ slots' = [slots EXCEPT ![i] = AdmittedAs(slot, c, a)]
  BY <1>2 DEF Admitting
<1>4. slot \in SlotType /\ ~slot.occupied
  BY <1>1, <1>2, RetiredCloses DEF SlotMoves
<1>5. PICK t : t = AdmittedAs(slot, c, a)
  OBVIOUS
<1>6. /\ t.occupied /\ t.route = c /\ t.attempt = a
      /\ t.generation \in 1..MaxGeneration
      /\ t.generation = IF slot.generation = 0 THEN 1 ELSE slot.generation
  <2>1. t.generation = IF slot.generation = 0 THEN 1 ELSE slot.generation
    BY <1>4, <1>5 DEF AdmittedAs, SlotType
  <2> QED BY <1>3, <1>4, <1>5, <2>1, AdmittedOpens
<1>7. slots'[i] = t /\ \A j \in PeerSlots : j # i => slots'[j] = slots[j]
  BY <1>1, <1>3, <1>5
<1>8. /\ slots[i].generation \in 0..MaxGeneration
      /\ MaxGeneration \in Nat \ {0}
  BY <1>1, WireAssumption DEF SlotType, WireAssumption
<1>9. \A g \in 1..MaxGeneration :
        UsedIn(t, g) <=> UsedIn(slots[i], g) \/ g = t.generation
  <2>1. CASE slots[i].occupied
    <3>1. slot.generation = slots[i].generation + 1
      BY <1>1, <1>2, <1>3, <2>1, RetiredEnds DEF SlotEnds
    <3>2. t.generation = slots[i].generation + 1
      BY <1>6, <1>8, <3>1
    <3> QED BY <1>6, <1>8, <2>1, <3>2 DEF UsedIn
  <2>2. CASE ~slots[i].occupied
    BY <1>2, <1>3, <1>6, <1>8, <2>2 DEF UsedIn
  <2> QED BY <2>1, <2>2
<1>10. ~UsedIn(slots[i], t.generation)
  <2>1. CASE slots[i].occupied
    <3>1. slot.generation = slots[i].generation + 1
      BY <1>1, <1>2, <1>3, <2>1, RetiredEnds DEF SlotEnds
    <3> QED BY <1>6, <1>8, <3>1 DEF UsedIn
  <2>2. CASE ~slots[i].occupied
    BY <1>2, <1>3, <1>6, <1>8, <2>2 DEF UsedIn
  <2> QED BY <2>1, <2>2
<1>11. p = [index |-> i, generation |-> t.generation] /\ p \in Peers
  BY <1>6, <1>7 DEF PeerOf, Peers
<1>12. \A q \in Peers : q.index = i /\ q.generation = t.generation <=> q = p
  BY <1>11 DEF Peers
<1>13. \A q : q \in Used' <=> q \in Used \/ q = p
  <2>1. ASSUME NEW q \in Peers PROVE q \in Used' <=> q \in Used \/ q = p
    <3>1. q.index \in PeerSlots /\ q.generation \in 1..MaxGeneration
      BY DEF Peers
    <3>2. CASE q.index = i
      BY <1>7, <1>9, <1>12, <3>1, <3>2, UsedBySlot, UsedBySlotThen
    <3>3. CASE q.index # i
      BY <1>7, <1>11, <3>1, <3>3, UsedBySlot, UsedBySlotThen
    <3> QED BY <3>2, <3>3
  <2> QED BY <1>11, <2>1 DEF Used
<1>14. p \notin Used
  BY <1>10, <1>11, UsedBySlot
<1>15. Used' = Used \cup {p}
  BY <1>13
<1> QED BY <1>6, <1>7, <1>11, <1>14, <1>15

\* An admission opens the session of a route that had none, or replaces the
\* session the route had by one of a later attempt.
LEMMA AdmittingOpens ==
    ASSUME ServerTypeOK, NEW i \in PeerSlots, NEW c \in Clients, NEW a \in Attempts,
           Admitting(i, c, a)
    PROVE  Registry!Open \/ Registry!Replace
<1>1. PICK p : p = PeerOf(i)'
  OBVIOUS
<1>2. /\ p \in Peers \ Used
      /\ Used' = Used \cup {p}
      /\ slots'[i].occupied /\ slots'[i].route = c /\ slots'[i].attempt = a
      /\ \A j \in PeerSlots : j # i => slots'[j] = slots[j]
  BY <1>1, AdmittingUses
<1>3. Sessions = {SessionAt(j) : j \in Admitted} /\ Sessions' = {SessionAt(j)' : j \in Admitted'}
  BY DEF Sessions, SessionAt
<1>4. Admitted' = Admitted \cup {i}
  BY <1>2 DEF Admitted
<1>5. SessionAt(i)' = <<p, c, a>>
  BY <1>1, <1>2 DEF SessionAt
<1>6. \A j \in PeerSlots : j # i => SessionAt(j)' = SessionAt(j)
  BY <1>2 DEF SessionAt, PeerOf
<1>7. Admitted \subseteq PeerSlots
  BY DEF Admitted
<1>8. CASE slots[i].occupied
  <2>1. PICK old : old = SessionAt(i)
    OBVIOUS
  <2>2. old[2] = c /\ a > old[3]
    BY <1>8, <2>1 DEF Admitting, IsAdmissionSlot, SessionAt
  <2>3. old \in Sessions /\ i \in Admitted
    BY <1>3, <1>8, <2>1 DEF Admitted
  <2>4. Sessions' = (Sessions \ {old}) \cup {<<p, old[2], a>>}
    <3>1. ASSUME NEW x \in Sessions'
          PROVE  x \in (Sessions \ {old}) \cup {<<p, c, a>>}
      <4>1. PICK j \in Admitted : x = SessionAt(j)'
        BY <1>3, <1>4, <2>3, <3>1
      <4>2. CASE j = i
        BY <1>5, <4>1, <4>2
      <4>3. CASE j # i
        BY <1>3, <1>6, <1>7, <2>1, <4>1, <4>3, SessionsCounted
      <4> QED BY <4>2, <4>3
    <3>2. ASSUME NEW x \in Sessions, x # old PROVE x \in Sessions'
      <4>1. PICK j \in Admitted : x = SessionAt(j)
        BY <1>3, <3>2
      <4>2. j # i
        BY <2>1, <3>2, <4>1
      <4> QED BY <1>3, <1>4, <1>6, <1>7, <4>1, <4>2
    <3>3. <<p, c, a>> \in Sessions'
      BY <1>3, <1>4, <1>5
    <3> QED BY <2>2, <3>1, <3>2, <3>3
  <2>5. Registry!Replace
    BY <1>2, <2>2, <2>3, <2>4 DEF Registry!Replace, Sessions, Used
  <2> QED BY <2>5
<1>9. CASE ~slots[i].occupied
  <2>1. /\ \A j \in Admitted : slots[j].route # c
        /\ Cardinality(Admitted) < MaximumAdmitted
    BY <1>9 DEF Admitting, IsAdmissionSlot
  <2>2. \A s \in Sessions : s[2] # c
    BY <1>3, <2>1 DEF SessionAt
  <2>3. Cardinality(Sessions) < MaximumAdmitted
    <3>1. Cardinality(Sessions) \in Nat /\ Cardinality(Admitted) \in Nat
      BY SessionsCounted, FS_CardinalityType
    <3>2. MaximumAdmitted \in Nat
      BY ServerAssumption, WireAssumption DEF ServerAssumption, WireAssumption
    <3> QED BY <2>1, <3>1, <3>2, SessionsCounted
  <2>4. Sessions' = Sessions \cup {<<p, c, a>>}
    <3>1. i \notin Admitted
      BY <1>9 DEF Admitted
    <3>2. \A j \in Admitted : SessionAt(j)' = SessionAt(j)
      BY <1>6, <1>7, <3>1
    <3> QED BY <1>3, <1>4, <1>5, <3>2
  <2>5. Registry!Open
    <3>1. \E q \in Peers \ Used, r \in Clients, b \in Attempts :
            /\ \A s \in Sessions : s[2] # r
            /\ Cardinality(Sessions) < MaximumAdmitted
            /\ Sessions' = Sessions \cup {<<q, r, b>>}
            /\ Used' = Used \cup {q}
      BY <1>2, <2>2, <2>3, <2>4
    <3>2. Registry!Cardinality(Sessions) = Cardinality(Sessions)
      BY Zenon DEF Registry!Cardinality, Cardinality
    <3> QED BY <3>1, <3>2 DEF Registry!Open, Sessions, Used
  <2> QED BY <2>5
<1> QED BY <1>8, <1>9

\* Steps that leave the slots' sessions alone or end some of them.
LEMMA ServerMovesSlots ==
    ASSUME SessionInvariant, ServerStep
    PROVE  \/ Closing
           \/ \E i \in PeerSlots, c \in Clients, a \in Attempts : Admitting(i, c, a)
<1>1. \A i \in PeerSlots : slots[i] \in SlotType /\ SlotSound(slots[i])
  BY DEF SessionInvariant, ServerTypeOK
<1>2. slots \in [PeerSlots -> SlotType]
  BY DEF SessionInvariant, ServerTypeOK
<1>3. UNCHANGED slots => Closing
  BY DEF Closing, SlotKept
<1>4. ASSUME NEW m \in wire, HandleConnectRequest(m), m.to = Server
      PROVE  \/ Closing
             \/ \E i \in PeerSlots, c \in Clients, a \in Attempts : Admitting(i, c, a)
  <2>1. m.from \in Clients /\ m.attempt \in Attempts
    BY <1>4, WireAssumption
       DEF SessionInvariant, WireSound, MessageSound, Messages, Routes, WireAssumption
  <2>2. CASE RefuseVersion(m) \/ RefuseFull(m)
    BY <1>3, <2>2 DEF RefuseVersion, RefuseFull
  <2>3. ASSUME NEW i \in PeerSlots, IsAdmissionSlot(i, m.from), RepeatAcceptance(m, i)
        PROVE  Closing
    BY <1>3, <2>3 DEF RepeatAcceptance
  <2>4. ASSUME NEW i \in PeerSlots, IsAdmissionSlot(i, m.from), AdmitPeer(m, i)
        PROVE  Closing \/ Admitting(i, m.from, m.attempt)
    <3>1. PICK slot : slot = IF slots[i].occupied THEN Retired(slots[i]) ELSE slots[i]
      OBVIOUS
    <3>2. CASE slot.retired
      <4>1. slots[i].occupied
        BY <2>4, <3>1, <3>2 DEF IsAdmissionSlot
      <4>2. slots' = [slots EXCEPT ![i] = Retired(slots[i])]
        BY <2>4, <3>1, <3>2, <4>1 DEF AdmitPeer
      <4> QED BY <1>1, <1>2, <4>1, <4>2, RetiredEnds DEF Closing, SlotKept
    <3>3. CASE ~slot.retired
      <4>1. slots' = [slots EXCEPT ![i] = AdmittedAs(slot, m.from, m.attempt)]
            /\ (slots[i].occupied => m.attempt > slots[i].attempt)
        BY <2>4, <3>1, <3>3 DEF AdmitPeer
      <4> QED BY <2>4, <3>1, <3>3, <4>1 DEF Admitting
    <3> QED BY <3>2, <3>3
  <2> QED BY <1>4, <2>1, <2>2, <2>3, <2>4 DEF HandleConnectRequest
<1>5. ASSUME NEW m \in wire, ServerHandleTraffic(m) PROVE Closing
  <2>1. ASSUME NEW i \in PeerSlots
        PROVE  SlotKept(slots[i], slots'[i])
    BY <1>1, <1>5, <2>1 DEF ServerHandleTraffic, SlotKept, SlotType
  <2> QED BY <2>1 DEF Closing
<1>6. ASSUME NEW m \in wire, ServerHandleDisconnect(m) PROVE Closing
  <2>1. ASSUME NEW i \in PeerSlots
        PROVE  SlotKept(slots[i], slots'[i]) \/ SlotEnds(slots[i], slots'[i])
    <3>1. CASE IsSessionOf(i, m)
      <4>1. slots'[i] = Retired(slots[i]) /\ slots[i].occupied
        BY <1>6, <3>1 DEF ServerHandleDisconnect, IsSessionOf
      <4> QED BY <1>1, <4>1, RetiredEnds
    <3>2. CASE ~IsSessionOf(i, m)
      BY <1>6, <3>2 DEF ServerHandleDisconnect, SlotKept
    <3> QED BY <3>1, <3>2
  <2> QED BY <2>1 DEF Closing
<1>7. ASSUME NEW i \in PeerSlots, DisconnectPeer(i) PROVE Closing
  <2>1. slots[i].occupied /\ slots' = [slots EXCEPT ![i] = Retired(slots[i])]
    BY <1>7 DEF DisconnectPeer
  <2> QED BY <1>1, <1>2, <2>1, RetiredEnds DEF Closing, SlotKept
<1>8. ASSUME (\E i \in PeerSlots : SendTo(i)) \/ Broadcast PROVE Closing
  BY <1>3, <1>8 DEF SendTo, Broadcast
<1>9. ASSUME NEW length \in FrameLengths, ServerFrame(length) PROVE Closing
  <2>1. ASSUME NEW i \in PeerSlots
        PROVE  SlotKept(slots[i], slots'[i]) \/ SlotEnds(slots[i], slots'[i])
    <3>1. CASE ~slots[i].occupied
      BY <1>9, <3>1 DEF ServerFrame, SlotKept
    <3>2. CASE slots[i].occupied /\ Silent(i, length)
      <4>1. slots'[i] = Retired(slots[i])
        BY <1>9, <3>2 DEF ServerFrame
      <4> QED BY <1>1, <3>2, <4>1, RetiredEnds
    <3>3. CASE slots[i].occupied /\ ~Silent(i, length)
      <4>1. PICK x, y : slots'[i] = [slots[i] EXCEPT !.activityAge = x, !.heartbeatAge = y]
        BY <1>9, <3>3 DEF ServerFrame
      <4> QED BY <1>1, <4>1 DEF SlotKept, SlotType
    <3> QED BY <3>1, <3>2, <3>3
  <2> QED BY <2>1 DEF Closing
<1> QED BY <1>4, <1>5, <1>6, <1>7, <1>8, <1>9 DEF ServerStep, ServerReceive

\* The server's peer table implements the session registry: a peer names one
\* session of one route and attempt for ever, a route has one session, and the
\* session that replaces it is of a later attempt (NetworkSystem.cpp:351-440,
\* 525-590).
THEOREM PeersImplementRegistry == Spec => RegistryRefinement
<1>1. Init => Registry!RegistryInit
  <2> SUFFICES ASSUME Init PROVE Registry!RegistryInit
    OBVIOUS
  <2>1. \A i \in PeerSlots : slots[i] = EmptySlot
    BY DEF Init, ServerInit
  <2>2. Admitted = {}
    BY <2>1 DEF Admitted, EmptySlot
  <2>3. Sessions = {}
    BY <2>2 DEF Sessions
  <2>4. \A p \in Peers : ~UsedIn(slots[p.index], p.generation)
    BY <2>1, WireAssumption DEF Peers, UsedIn, EmptySlot, WireAssumption
  <2>5. Used = {}
    BY <2>4, UsedBySlot
  <2> QED BY <2>3, <2>5 DEF Registry!RegistryInit, Sessions, Used
<1>2. ASSUME SessionInvariant, SessionInvariant', [Next]_vars
      PROVE  Registry!RegistryNext
  <2>1. ServerTypeOK /\ ServerTypeOK'
    BY <1>2 DEF SessionInvariant
  <2>2. UNCHANGED slots => Closing
    BY DEF Closing, SlotKept
  <2>3. Closing \/ \E i \in PeerSlots, c \in Clients, a \in Attempts : Admitting(i, c, a)
    BY <1>2, <2>2, ServerMovesSlots DEF Next, LoseMessage, vars
  <2> QED BY <2>1, <2>3, ClosingCloses, AdmittingOpens DEF Registry!RegistryNext
<1>3. SessionInvariant /\ SessionInvariant' /\ [Next]_vars
        => [Registry!RegistryNext]_(Registry!registryVars)
  BY <1>2
<1> QED BY <1>1, <1>3, SessionsSound, PTL DEF Spec, RegistryRefinement, Registry!RegistrySpec
=============================================================================
