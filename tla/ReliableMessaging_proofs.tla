---------------------- MODULE ReliableMessaging_proofs ----------------------
(***************************************************************************)
(* Proofs about ReliableMessaging for any number of devices, channels,     *)
(* pending slots, ids and attempts, and any loss, delay, reordering and    *)
(* duplication.                                                            *)
(*                                                                         *)
(* The argument follows a frame through the history: an id names one       *)
(* sending for ever (WasSent), a delivery is never undone (Arrived), and   *)
(* whatever is in flight or being delivered is about one of the two.       *)
(***************************************************************************)
EXTENDS ReliableMessaging, TableLemmas

SentRecords == [channel: Channels, route: Nodes]

TypeInvariant == TypeOK /\ sent \in [Nodes -> [Ids -> SentRecords \cup {NoFrame}]]

----------------------------------------------------------------------------
(* Types.                                                                  *)

\* The constants with their types.
LEMMA Constants ==
  /\ MaxChannels \in Nat \ {0} /\ MaxPending \in Nat \ {0} /\ MaxId \in Nat
  /\ MaxSendAttempts \in Nat /\ AtLeastOne \in Nat \ {0} /\ MaxSendAttempts <= AtLeastOne
  /\ RetryInterval \in Nat /\ ReceiveBudget \in Nat /\ TurnLengths \subseteq Nat \ {0}
  /\ Senders \subseteq Nodes
BY ReliableAssumption DEF ReliableAssumption, AtLeastOne

\* Any search of the pending table that finds something finds a slot of it.
LEMMA FirstFound ==
  ASSUME NEW S \in SUBSET PendingSlots, S # {}
  PROVE  Min(S) \in S
<1>1. PendingSlots \subseteq Nat /\ IsFiniteSet(PendingSlots)
  BY Constants, FS_Interval DEF PendingSlots
<1>2. IsFiniteSet(S)
  BY <1>1, FS_Subset
<1> QED
  BY <1>1, <1>2, MinIsLeast

\* The entry of a channel holds its name.
LEMMA EntryHolds ==
  ASSUME NEW d \in Nodes, NEW c \in Names(d)
  PROVE  EntryOf(d, c) \in Entries /\ table[d][EntryOf(d, c)] = c
BY DEF Names, EntryOf

\* A device that starts has its tables empty and has sent nothing.
LEMMA InitTyped == Init => TypeInvariant
BY Constants DEF Init, TypeInvariant, TypeOK, Outcomes

\* What the subscribers and the application do keeps the types.
LEMMA UserTyped ==
  ASSUME TypeInvariant, NEW d \in Nodes, UserStep(d) PROVE TypeInvariant'
<1> USE DEF TypeInvariant
<1>1. ASSUME NEW c \in Channels, CreateChannel(d, c) PROVE TypeInvariant'
  <2>1. table' \in [Nodes -> [Entries -> Channels \cup {NoChannel}]]
    BY <1>1 DEF CreateChannel, TypeOK
  <2> QED
    BY <1>1, <2>1 DEF CreateChannel, TypeOK, history
<1>2. ASSUME NEW c \in Channels, DestroyChannel(d, c) PROVE TypeInvariant'
  <2>1. \A e \in Entries : e < MaxChannels => e + 1 \in Entries
    BY Constants DEF Entries
  <2>2. table' \in [Nodes -> [Entries -> Channels \cup {NoChannel}]]
    BY <1>2, <2>1 DEF DestroyChannel, TypeOK
  <2> QED
    BY <1>2, <2>2 DEF DestroyChannel, TypeOK, history
<1>3. ASSUME NEW c \in Channels, NEW to \in Nodes \ {d}, Send(d, c, to) PROVE TypeInvariant'
  <2>1. nextId[d] \in Ids /\ nextId[d] + 1 \in 0..MaxId
    <3>1. nextId[d] \in 0..MaxId /\ nextId[d] < MaxId
      BY <1>3 DEF Send, HasId, TypeOK
    <3>2. MaxId \in Nat
      BY Constants
    <3> QED
      BY <3>1, <3>2 DEF Ids
  <2>2. nextId' \in [Nodes -> 0..MaxId]
    BY <1>3, <2>1 DEF Send, TypeOK
  <2>3. Packet("Message", d, to, c, nextId[d]) \in Packets
    BY <2>1 DEF Packet, Packets
  <2>4. wire' \subseteq Packets
    BY <1>3, <2>3 DEF Send, TrySend, TypeOK
  <2>5. [channel |-> c, route |-> to, id |-> nextId[d], sends |-> 1, age |-> 0] \in Frames
    BY <2>1, Constants DEF Frames
  <2>6. pending' \in [Nodes -> [PendingSlots -> Frames \cup {NoFrame}]]
    BY <1>3, <2>5 DEF Send, TypeOK
  <2>7. sent' \in [Nodes -> [Ids -> SentRecords \cup {NoFrame}]]
    BY <1>3, <2>1 DEF Send, SentRecords
  <2>8. outcome' \in [Nodes -> [Ids -> Outcomes]]
    BY <1>3, <2>1 DEF Send, TypeOK, Outcomes
  <2>9. attempts' \in [Nodes -> [Ids -> 0..(AtLeastOne + 1)]]
    BY <1>3, <2>1, Constants DEF Send, TypeOK
  <2> QED
    BY <1>3, <2>2, <2>4, <2>6, <2>7, <2>8, <2>9 DEF Send, TypeOK, turnVars
<1>4. ASSUME NEW c \in Channels, CancelReliableMessagesForChannel(d, c) PROVE TypeInvariant'
  <2>1. pending' \in [Nodes -> [PendingSlots -> Frames \cup {NoFrame}]]
    BY <1>4 DEF CancelReliableMessagesForChannel, TypeOK
  <2>2. outcome' \in [Nodes -> [Ids -> Outcomes]]
    BY <1>4 DEF CancelReliableMessagesForChannel, TypeOK, Outcomes
  <2> QED
    BY <1>4, <2>1, <2>2 DEF CancelReliableMessagesForChannel, TypeOK, turnVars
<1> QED
  BY <1>1, <1>2, <1>3, <1>4 DEF UserStep

\* A reception takes a packet from the route and a receive attempt from the turn.
LEMMA ReceiveTyped ==
  ASSUME TypeOK, NEW d \in Nodes, NEW packet \in wire, TryReceive(d, packet)
  PROVE  /\ packet \in Packets /\ packet.to = d
         /\ receiving' \in [Nodes -> 0..ReceiveBudget]
         /\ wire' \subseteq wire /\ wire' \subseteq Packets
BY Constants DEF TypeOK, TryReceive

\* A retried frame counts one more attempt.
LEMMA ResentTyped ==
  ASSUME NEW f \in Frames
  PROVE  /\ Resent(f) \in Frames
         /\ Resent(f).channel = f.channel /\ Resent(f).route = f.route
         /\ Resent(f).id = f.id /\ Resent(f).sends = f.sends + 1
<1>1. f.sends + 1 \in Nat \ {0} /\ 0 \in 0..RetryInterval
  BY Constants DEF Frames
<1> QED
  BY <1>1 DEF Frames, Resent

\* A frame that grows older is the same frame.
LEMMA OlderTyped ==
  ASSUME NEW f \in Frames, NEW elapsed \in Nat
  PROVE  /\ Older(f, elapsed) \in Frames
         /\ Older(f, elapsed).channel = f.channel /\ Older(f, elapsed).route = f.route
         /\ Older(f, elapsed).id = f.id /\ Older(f, elapsed).sends = f.sends
BY Constants DEF Frames, Older

\* The packets of the retried frames.
RetriedPackets(d) ==
    {Packet("Message", d, pending[d][p].route, pending[d][p].channel, pending[d][p].id)
        : p \in Retried(d)}

\* A turn of a device keeps the types.
LEMMA TurnTyped ==
  ASSUME TypeInvariant, NEW d \in Nodes, TurnStep(d) PROVE TypeInvariant'
<1> USE DEF TypeInvariant
<1>1. ASSUME NEW elapsed \in TurnLengths, PreAdvance(d, elapsed) PROVE TypeInvariant'
  <2>1. pending' \in [Nodes -> [PendingSlots -> Frames \cup {NoFrame}]]
    <3>1. \A p \in PendingSlots : IsPending(d, p) => Older(pending[d][p], elapsed) \in Frames
      BY Constants, OlderTyped DEF TypeOK, IsPending
    <3> QED
      BY <1>1, <3>1 DEF PreAdvance, TypeOK
  <2>2. stage' \in [Nodes -> {"Pre", "Post"}] /\ receiving' \in [Nodes -> 0..ReceiveBudget]
    BY <1>1, Constants DEF PreAdvance, TypeOK
  <2> QED
    BY <1>1, <2>1, <2>2 DEF PreAdvance, TypeOK, history
<1>2. CASE EndReceive(d)
  <2>1. receiving' \in [Nodes -> 0..ReceiveBudget]
    BY <1>2, Constants DEF EndReceive, TypeOK
  <2> QED
    BY <1>2, <2>1 DEF EndReceive, TypeOK, history
<1>3. ASSUME NEW packet \in wire, DropFrame(d, packet) PROVE TypeInvariant'
  BY <1>3, ReceiveTyped DEF DropFrame, TypeOK, history
<1>4. ASSUME NEW packet \in wire, ProcessAcknowledgement(d, packet) PROVE TypeInvariant'
  <2> DEFINE found == {p \in PendingSlots : IsAcknowledgementOf(pending[d][p], packet)}
  <2>1. /\ receiving' \in [Nodes -> 0..ReceiveBudget] /\ wire' \subseteq Packets
        /\ packet \in Packets
    BY <1>4, ReceiveTyped DEF ProcessAcknowledgement
  <2>2. CASE found = {}
    BY <1>4, <2>1, <2>2 DEF ProcessAcknowledgement, TypeOK
  <2>3. CASE found # {}
    <3>1. Min(found) \in PendingSlots /\ pending[d][Min(found)] # NoFrame
      BY <2>3, FirstFound DEF IsAcknowledgementOf
    <3>2. pending[d][Min(found)].id \in Ids
      BY <3>1 DEF TypeOK, Frames
    <3>3. /\ pending' = [pending EXCEPT ![d][Min(found)] = NoFrame]
          /\ outcome' = [outcome EXCEPT ![d][pending[d][Min(found)].id] = "Acknowledged"]
      BY <1>4, <2>3 DEF ProcessAcknowledgement
    <3> HIDE DEF found
    <3>4. pending' \in [Nodes -> [PendingSlots -> Frames \cup {NoFrame}]]
      BY <3>1, <3>3 DEF TypeOK
    <3>5. outcome' \in [Nodes -> [Ids -> Outcomes]]
      BY <3>2, <3>3 DEF TypeOK, Outcomes
    <3> QED
      BY <1>4, <2>1, <3>4, <3>5 DEF ProcessAcknowledgement, TypeOK
  <2> QED
    BY <2>2, <2>3
<1>5. ASSUME NEW packet \in wire, ProcessReliableMessage(d, packet) PROVE TypeInvariant'
  <2>1. /\ receiving' \in [Nodes -> 0..ReceiveBudget] /\ wire' \subseteq Packets
        /\ packet \in Packets
    BY <1>5, ReceiveTyped DEF ProcessReliableMessage
  <2>2. [entry |-> EntryOf(d, packet.channel), from |-> packet.from, id |-> packet.id] \in Receptions
    BY <1>5, <2>1, EntryHolds DEF ProcessReliableMessage, Receptions, Packets
  <2>3. delivering' \in [Nodes -> Receptions \cup {NoDelivery}]
    BY <1>5, <2>2 DEF ProcessReliableMessage, TypeOK
  <2>4. delivered' \in [Nodes -> SUBSET Packets]
    BY <1>5, <2>1 DEF ProcessReliableMessage, TypeOK
  <2> QED
    BY <1>5, <2>1, <2>3, <2>4 DEF ProcessReliableMessage, TypeOK
<1>6. CASE SendAcknowledgement(d)
  <2>1. delivering[d] \in Receptions
    BY <1>6 DEF SendAcknowledgement, TypeOK
  <2>2. NamesAt(d, delivering[d].entry) \subseteq Channels
    BY <2>1 DEF NamesAt, Receptions, TypeOK
  <2>3. wire' \subseteq Packets
    <3>1. PICK c \in NamesAt(d, delivering[d].entry) :
            TrySend({Packet("Acknowledgement", d, delivering[d].from, c, delivering[d].id)})
      BY <1>6 DEF SendAcknowledgement
    <3>2. Packet("Acknowledgement", d, delivering[d].from, c, delivering[d].id) \in Packets
      BY <2>1, <2>2 DEF Packet, Packets, Receptions
    <3> QED
      BY <3>1, <3>2 DEF TrySend, TypeOK
  <2>4. delivering' \in [Nodes -> Receptions \cup {NoDelivery}]
    BY <1>6 DEF SendAcknowledgement, TypeOK
  <2> QED
    BY <1>6, <2>3, <2>4 DEF SendAcknowledgement, TypeOK, turnVars, history
<1>7. CASE PostAdvance(d)
  <2>1. \A p \in PendingSlots : IsPending(d, p) => pending[d][p] \in Frames
    BY DEF IsPending, TypeOK
  <2>2. RetriedPackets(d) \subseteq Packets
    BY <2>1 DEF RetriedPackets, Retried, IsDue, Packet, Packets, Frames
  <2>3. wire' \subseteq Packets
    <3>1. TrySend(RetriedPackets(d))
      BY <1>7 DEF PostAdvance, RetriedPackets
    <3> QED
      BY <2>2, <3>1 DEF TrySend, TypeOK
  <2>4. pending' \in [Nodes -> [PendingSlots -> Frames \cup {NoFrame}]]
    <3>1. \A p \in PendingSlots :
            (IF p \in Exhausted(d) THEN NoFrame
             ELSE IF p \in Retried(d) THEN Resent(pending[d][p])
             ELSE pending[d][p]) \in Frames \cup {NoFrame}
      BY <2>1, ResentTyped DEF Retried, IsDue, TypeOK
    <3> QED
      BY <1>7, <3>1 DEF PostAdvance, TypeOK
  <2>5. abandoned' \in [Nodes -> Nat]
    <3>1. PendingSlots \subseteq Nat /\ IsFiniteSet(PendingSlots)
      BY Constants, FS_Interval DEF PendingSlots
    <3>2. Cardinality(Exhausted(d)) \in Nat
      BY <3>1, FS_Subset, FS_CardinalityType DEF Exhausted
    <3> QED
      BY <1>7, <3>2 DEF PostAdvance, TypeOK
  <2>6. outcome' \in [Nodes -> [Ids -> Outcomes]]
    BY <1>7 DEF PostAdvance, TypeOK, Outcomes
  <2>7. attempts' \in [Nodes -> [Ids -> 0..(AtLeastOne + 1)]]
    BY <1>7, Constants DEF PostAdvance, TypeOK
  <2>8. stage' \in [Nodes -> {"Pre", "Post"}]
    BY <1>7 DEF PostAdvance, TypeOK
  <2> QED
    BY <1>7, <2>3, <2>4, <2>5, <2>6, <2>7, <2>8 DEF PostAdvance, TypeOK
<1> QED
  BY <1>1, <1>2, <1>3, <1>4, <1>5, <1>6, <1>7 DEF TurnStep

----------------------------------------------------------------------------
(* The invariant.                                                          *)

\* Device d sent id i on channel c to device r.
WasSent(d, i, c, r) ==
    i < nextId[d] /\ sent[d][i].channel = c /\ sent[d][i].route = r

\* The frame d sent to r under id i has been handed to r's subscribers.
Arrived(d, i, r) ==
    /\ WasSent(d, i, sent[d][i].channel, r)
    /\ Packet("Message", d, r, sent[d][i].channel, i) \in delivered[r]

PacketSound(m) ==
    /\ m.type = "Message" => WasSent(m.from, m.id, m.channel, m.to)
    /\ m.type = "Acknowledgement" => Arrived(m.to, m.id, m.from)

WireSound == \A m \in wire : PacketSound(m)

DeliverySound(d) ==
    delivering[d] # NoDelivery => Arrived(delivering[d].from, delivering[d].id, d)

\* A pending frame is what its id was sent as and counts its attempts.
FrameSound(d, f) ==
    /\ WasSent(d, f.id, f.channel, f.route)
    /\ outcome[d][f.id] = "Pending"
    /\ f.sends = attempts[d][f.id]

Abandoned(d) == {i \in Ids : outcome[d][i] = "Abandoned"}

\* The pending table of a device and the history of its ids agree.
LedgerSound(d) ==
    /\ \A p \in PendingSlots : IsPending(d, p) => FrameSound(d, pending[d][p])
    /\ \A p, q \in PendingSlots : IsPending(d, p) /\ IsPending(d, q)
           /\ pending[d][p].id = pending[d][q].id => p = q
    /\ \A i \in Ids : outcome[d][i] = "Pending" =>
           \E p \in PendingSlots : IsPending(d, p) /\ pending[d][p].id = i
    /\ \A i \in Ids : IF i < nextId[d] THEN sent[d][i] \in SentRecords
                      ELSE outcome[d][i] = "Unsent"
    /\ \A i \in Ids : outcome[d][i] = "Acknowledged" => Arrived(d, i, sent[d][i].route)
    /\ \A i \in Ids : attempts[d][i] <= AtLeastOne
    /\ abandoned[d] = Cardinality(Abandoned(d))

ReliableInvariant ==
    /\ TypeInvariant
    /\ WireSound
    /\ \A d \in Nodes : DeliverySound(d) /\ LedgerSound(d)
    /\ PendingHaveChannels

\* What was sent stays sent as it was, and what was delivered stays delivered.
HistoryGrows ==
    /\ \A d \in Nodes, i \in Ids : i < nextId[d] =>
           i < nextId'[d] /\ sent'[d][i] = sent[d][i]
    /\ \A d \in Nodes : delivered[d] \subseteq delivered'[d]

\* What is known of the history stays known.
LEMMA HistoryKept ==
  ASSUME HistoryGrows, NEW d \in Nodes, NEW i \in Ids
  PROVE  /\ \A c \in Channels, r \in Nodes : WasSent(d, i, c, r) => WasSent(d, i, c, r)'
         /\ \A r \in Nodes : Arrived(d, i, r) => Arrived(d, i, r)'
BY DEF HistoryGrows, WasSent, Arrived

\* Packets in flight stay true, with new ones that are.
LEMMA WireStaysSound ==
  ASSUME TypeOK, WireSound, HistoryGrows, NEW added \in SUBSET Packets,
         wire' \subseteq wire \cup added, \A m \in added : PacketSound(m)'
  PROVE  WireSound'
<1> SUFFICES ASSUME NEW m \in wire' PROVE PacketSound(m)'
  BY DEF WireSound
<1>1. CASE m \in added
  BY <1>1
<1>2. CASE m \in wire
  <2>1. m \in Packets /\ PacketSound(m)
    BY <1>2 DEF TypeOK, WireSound
  <2>2. m.from \in Nodes /\ m.to \in Nodes /\ m.id \in Ids /\ m.channel \in Channels
    BY <2>1 DEF Packets
  <2>3. CASE m.type = "Message"
    BY <2>1, <2>2, <2>3, HistoryKept DEF PacketSound
  <2>4. CASE m.type = "Acknowledgement"
    BY <2>1, <2>2, <2>4, HistoryKept DEF PacketSound
  <2> QED
    BY <2>1, <2>3, <2>4 DEF PacketSound, Packets
<1> QED
  BY <1>1, <1>2

\* So do those that are left of them.
LEMMA WireShrinksSound ==
  ASSUME TypeOK, WireSound, HistoryGrows, wire' \subseteq wire PROVE WireSound'
<1> DEFINE added == {}
<1>1. added \in SUBSET Packets /\ wire' \subseteq wire \cup added
  OBVIOUS
<1>2. \A m \in added : PacketSound(m)'
  OBVIOUS
<1> HIDE DEF added
<1> QED
  BY <1>1, <1>2, WireStaysSound

\* A delivery that goes on stays true.
LEMMA DeliveryStaysSound ==
  ASSUME TypeOK, HistoryGrows, NEW d \in Nodes, DeliverySound(d),
         delivering'[d] = delivering[d] \/ delivering'[d] = NoDelivery
  PROVE  DeliverySound(d)'
<1>1. CASE delivering'[d] = NoDelivery
  BY <1>1 DEF DeliverySound
<1>2. CASE delivering'[d] = delivering[d] /\ delivering[d] # NoDelivery
  <2>1. delivering[d].from \in Nodes /\ delivering[d].id \in Ids
    BY <1>2 DEF TypeOK, Receptions
  <2>2. Arrived(delivering[d].from, delivering[d].id, d)
    BY <1>2 DEF DeliverySound
  <2>3. Arrived(delivering[d].from, delivering[d].id, d)'
    <3> DEFINE s == delivering[d].from
               i == delivering[d].id
    <3>1. \A r \in Nodes : Arrived(s, i, r) => Arrived(s, i, r)'
      BY <2>1, <1>2, HistoryKept DEF HistoryGrows, WasSent, Arrived
    <3> QED
      BY <2>2, <3>1
  <2> QED
    BY <1>2, <2>3 DEF DeliverySound
<1> QED
  BY <1>1, <1>2


----------------------------------------------------------------------------
(* The ledger of a device.                                                  *)

\* The slots in R release their frames with the given result; the others keep theirs.
Releases(d, R, result) ==
    /\ \A p \in R : IsPending(d, p) /\ pending'[d][p] = NoFrame
    /\ \A p \in PendingSlots \ R :
        /\ pending'[d][p] # NoFrame <=> pending[d][p] # NoFrame
        /\ IsPending(d, p) =>
            /\ pending'[d][p].channel = pending[d][p].channel
            /\ pending'[d][p].route = pending[d][p].route
            /\ pending'[d][p].id = pending[d][p].id
            /\ pending'[d][p].sends = attempts'[d][pending[d][p].id]
    /\ \A i \in Ids : outcome'[d][i] = IF i \in IdsIn(d, R) THEN result ELSE outcome[d][i]
    /\ \A i \in Ids : attempts'[d][i] <= AtLeastOne
    /\ nextId'[d] = nextId[d] /\ sent'[d] = sent[d]
    /\ abandoned'[d] = abandoned[d] + (IF result = "Abandoned" THEN Cardinality(R) ELSE 0)

\* The slots of the pending table are finitely many, and so are their ids.
LEMMA SlotsFinite ==
  ASSUME NEW R \in SUBSET PendingSlots
  PROVE  PendingSlots \subseteq Nat /\ IsFiniteSet(R) /\ Cardinality(R) \in Nat
<1>1. PendingSlots \subseteq Nat /\ IsFiniteSet(PendingSlots)
  BY Constants, FS_Interval DEF PendingSlots
<1> QED
  BY <1>1, FS_Subset, FS_CardinalityType

\* As many ids as slots: no two slots hold the same id.
LEMMA IdsCount ==
  ASSUME NEW d \in Nodes, TypeOK, LedgerSound(d), NEW R \in SUBSET PendingSlots,
         \A p \in R : IsPending(d, p)
  PROVE  IsFiniteSet(IdsIn(d, R)) /\ Cardinality(IdsIn(d, R)) = Cardinality(R)
<1> DEFINE idOf == [p \in R |-> pending[d][p].id]
<1>1. \A p, q \in R : pending[d][p].id = pending[d][q].id => p = q
  BY DEF LedgerSound
<1>2. idOf \in Bijection(R, IdsIn(d, R))
  BY <1>1 DEF IdsIn, Bijection, Injection, Surjection, IsInjective
<1>3. IsFiniteSet(R)
  BY SlotsFinite
<1> QED
  BY <1>2, <1>3, FS_Bijection DEF ExistsBijection

\* A ledger that releases some frames and keeps the others agrees with the history.
LEMMA LedgerReleases ==
  ASSUME TypeInvariant, TypeOK', HistoryGrows,
         NEW d \in Nodes, LedgerSound(d),
         NEW R \in SUBSET PendingSlots, NEW result \in {"Acknowledged", "Abandoned", "Cancelled"},
         Releases(d, R, result),
         result = "Acknowledged" => \A p \in R : Arrived(d, pending[d][p].id, pending[d][p].route)
  PROVE  LedgerSound(d)'
<1>1. \A p \in PendingSlots : IsPending(d, p)' => p \notin R /\ IsPending(d, p)
  BY DEF Releases, IsPending
<1>2. \A p \in PendingSlots : IsPending(d, p) =>
        /\ pending[d][p] \in Frames /\ FrameSound(d, pending[d][p])
  BY DEF TypeInvariant, TypeOK, IsPending, LedgerSound
<1>3. \A p \in PendingSlots : IsPending(d, p)' => pending'[d][p].id \notin IdsIn(d, R)
  <2>1. \A p \in PendingSlots : IsPending(d, p)' => pending'[d][p].id = pending[d][p].id
    BY <1>1 DEF Releases
  <2>2. \A p, q \in PendingSlots : IsPending(d, p) /\ IsPending(d, q)
           /\ pending[d][p].id = pending[d][q].id => p = q
    BY DEF LedgerSound
  <2>3. \A p \in R : IsPending(d, p)
    BY DEF Releases
  <2> QED
    BY <1>1, <2>1, <2>2, <2>3 DEF IdsIn

<1>4. ASSUME NEW p \in PendingSlots, IsPending(d, p)' PROVE FrameSound(d, pending[d][p])'
  <2>1. /\ p \in PendingSlots \ R /\ IsPending(d, p)
        /\ pending[d][p] \in Frames /\ FrameSound(d, pending[d][p])
    BY <1>1, <1>2, <1>4
  <2>2. /\ pending'[d][p].channel = pending[d][p].channel
        /\ pending'[d][p].route = pending[d][p].route
        /\ pending'[d][p].id = pending[d][p].id
        /\ pending'[d][p].sends = attempts'[d][pending[d][p].id]
    BY <2>1 DEF Releases
  <2>3. pending[d][p].id \in Ids
    BY <2>1 DEF Frames
  <2>4. outcome'[d][pending[d][p].id] = outcome[d][pending[d][p].id]
    BY <1>3, <1>4, <2>2, <2>3 DEF Releases
  <2> QED
    BY <2>1, <2>2, <2>4 DEF FrameSound, WasSent, Releases
<1>5. \A p, q \in PendingSlots : IsPending(d, p)' /\ IsPending(d, q)'
        /\ pending'[d][p].id = pending'[d][q].id => p = q
  <2>1. \A p \in PendingSlots : IsPending(d, p)' => pending'[d][p].id = pending[d][p].id
    BY <1>1 DEF Releases
  <2> QED
    BY <1>1, <2>1 DEF LedgerSound
<1>6. ASSUME NEW i \in Ids, outcome'[d][i] = "Pending"
      PROVE  \E p \in PendingSlots : IsPending(d, p)' /\ pending'[d][p].id = i
  <2>1. i \notin IdsIn(d, R) /\ outcome[d][i] = "Pending"
    BY <1>6 DEF Releases
  <2>2. PICK p \in PendingSlots : IsPending(d, p) /\ pending[d][p].id = i
    BY <2>1 DEF LedgerSound
  <2>3. p \notin R
    BY <2>1, <2>2 DEF IdsIn
  <2> QED
    BY <2>2, <2>3 DEF Releases, IsPending
<1>7. ASSUME NEW i \in Ids
      PROVE  IF i < nextId'[d] THEN sent'[d][i] \in SentRecords ELSE outcome'[d][i] = "Unsent"
  <2>1. i \in IdsIn(d, R) => i < nextId[d]
    BY <1>2 DEF IdsIn, Releases, FrameSound, WasSent
  <2> QED
    BY <2>1 DEF Releases, LedgerSound
<1>8. ASSUME NEW i \in Ids, outcome'[d][i] = "Acknowledged"
      PROVE  Arrived(d, i, sent[d][i].route)'
  <2>1. CASE i \in IdsIn(d, R)
    <3>1. PICK p \in R : pending[d][p].id = i
      BY <2>1 DEF IdsIn
    <3>2. Arrived(d, i, pending[d][p].route) /\ pending[d][p].route \in Nodes
      BY <1>2, <1>8, <2>1, <3>1 DEF Releases, Frames
    <3>3. sent'[d][i].route = pending[d][p].route
      BY <1>2, <3>1 DEF Releases, FrameSound, WasSent
    <3>4. sent'[d] = sent[d] /\ nextId'[d] = nextId[d]
      BY DEF Releases
    <3>5. WasSent(d, i, sent[d][i].channel, sent[d][i].route) /\ sent[d][i].route \in Nodes
      BY <3>2, <3>3, <3>4 DEF Arrived, WasSent
    <3>6. Packet("Message", d, sent[d][i].route, sent[d][i].channel, i)
            \in delivered'[sent[d][i].route]
      BY <3>2, <3>3, <3>4 DEF Arrived, HistoryGrows
    <3> QED
      BY <3>4, <3>5, <3>6 DEF Arrived, WasSent
  <2>2. CASE i \notin IdsIn(d, R)
    <3>1. Arrived(d, i, sent[d][i].route)
      BY <1>8, <2>2 DEF Releases, LedgerSound
    <3>2. sent[d][i] \in SentRecords
      BY <3>1 DEF Arrived, WasSent, LedgerSound
    <3> QED
      BY <3>1, <3>2 DEF Arrived, WasSent, Releases, HistoryGrows, SentRecords
  <2> QED
    BY <2>1, <2>2
<1>9. abandoned'[d] = Cardinality(Abandoned(d)')
  <2>1. CASE result # "Abandoned"
    <3>1. Abandoned(d)' = Abandoned(d)
      <4>1. \A i \in IdsIn(d, R) : outcome[d][i] = "Pending"
        BY <1>2 DEF IdsIn, Releases, FrameSound
      <4> QED
        BY <2>1, <4>1 DEF Abandoned, Releases
    <3> QED
      BY <2>1, <3>1 DEF Releases, LedgerSound, TypeInvariant, TypeOK
  <2>2. CASE result = "Abandoned"
    <3>1. \A p \in R : IsPending(d, p)
      BY DEF Releases
    <3>2. IdsIn(d, R) \subseteq Ids /\ \A i \in IdsIn(d, R) : outcome[d][i] = "Pending"
      BY <1>2, <3>1 DEF IdsIn, FrameSound, Frames
    <3>3. Abandoned(d)' = Abandoned(d) \cup IdsIn(d, R) /\ Abandoned(d) \cap IdsIn(d, R) = {}
      BY <2>2, <3>2 DEF Abandoned, Releases
    <3>4. IsFiniteSet(IdsIn(d, R)) /\ Cardinality(IdsIn(d, R)) = Cardinality(R)
      BY <3>1, IdsCount DEF TypeInvariant
    <3>5. IsFiniteSet(Abandoned(d))
      <4>1. IsFiniteSet(Ids)
        BY Constants, FS_Interval DEF Ids
      <4> QED
        BY <4>1, FS_Subset DEF Abandoned
    <3>6. Cardinality(Abandoned(d)') = Cardinality(Abandoned(d)) + Cardinality(R)
      <4>1. Cardinality(Abandoned(d) \cup IdsIn(d, R))
              = Cardinality(Abandoned(d)) + Cardinality(IdsIn(d, R))
                - Cardinality(Abandoned(d) \cap IdsIn(d, R))
        BY <3>4, <3>5, FS_Union
      <4>2. Cardinality(Abandoned(d) \cap IdsIn(d, R)) = 0
        BY <3>3, FS_EmptySet
      <4>3. Cardinality(Abandoned(d)) \in Nat /\ Cardinality(R) \in Nat
        BY <3>5, FS_CardinalityType, SlotsFinite
      <4> QED
        BY <3>3, <3>4, <4>1, <4>2, <4>3
    <3> QED
      BY <2>2, <3>6 DEF Releases, LedgerSound
  <2> QED
    BY <2>1, <2>2
<1>10. \A i \in Ids : attempts'[d][i] <= AtLeastOne
  BY DEF Releases
<1> QED
  BY <1>4, <1>5, <1>6, <1>7, <1>8, <1>9, <1>10 DEF LedgerSound

\* Sending takes the next id, which no frame has had.
LEMMA SendGrows ==
  ASSUME TypeInvariant, NEW d \in Nodes, NEW c \in Channels, NEW to \in Nodes \ {d},
         Send(d, c, to)
  PROVE  HistoryGrows
<1>1. \A e \in Nodes, i \in Ids : i < nextId[e] =>
        i < nextId'[e] /\ sent'[e][i] = sent[e][i]
  BY DEF Send, TypeInvariant, TypeOK, Ids
<1> QED
  BY <1>1 DEF HistoryGrows, Send

\* A frame that is sent enters the ledger in a slot that was free.
LEMMA LedgerSends ==
  ASSUME TypeInvariant, NEW d \in Nodes, NEW c \in Channels, NEW to \in Nodes \ {d},
         LedgerSound(d), Send(d, c, to)
  PROVE  LedgerSound(d)'
<1> DEFINE k == Min(FreeSlots(d))
           n == nextId[d]
           frame == [channel |-> c, route |-> to, id |-> n, sends |-> 1, age |-> 0]
<1>1. k \in PendingSlots /\ ~IsPending(d, k)
  BY FirstFound DEF Send, FreeSlots
<1>2. n \in Ids /\ n < MaxId
  BY Constants DEF Send, HasId, TypeInvariant, TypeOK, Ids
<1>3. frame # NoFrame
  <2>1. frame \in Frames
    BY <1>2, Constants DEF Frames
  <2> QED
    BY <2>1, AbsenceAssumption DEF AbsenceAssumption
<1>4. pending'[d] = [pending[d] EXCEPT ![k] = frame]
  BY DEF Send, TypeInvariant, TypeOK
<1>5. \A p \in PendingSlots : pending'[d][p] = IF p = k THEN frame ELSE pending[d][p]
  BY <1>1, <1>4 DEF TypeInvariant, TypeOK
<1>6. /\ nextId'[d] = n + 1
      /\ \A i \in Ids : sent'[d][i] = IF i = n THEN [channel |-> c, route |-> to] ELSE sent[d][i]
      /\ \A i \in Ids : outcome'[d][i] = IF i = n THEN "Pending" ELSE outcome[d][i]
      /\ \A i \in Ids : attempts'[d][i] = IF i = n THEN 1 ELSE attempts[d][i]
      /\ abandoned' = abandoned /\ delivered' = delivered
  <2>1. nextId'[d] = n + 1 /\ abandoned' = abandoned /\ delivered' = delivered
    BY DEF Send, TypeInvariant, TypeOK
  <2>2. \A i \in Ids :
           sent'[d][i] = IF i = n THEN [channel |-> c, route |-> to] ELSE sent[d][i]
    BY <1>2 DEF Send, TypeInvariant, TypeOK
  <2>3. \A i \in Ids : outcome'[d][i] = IF i = n THEN "Pending" ELSE outcome[d][i]
    BY <1>2 DEF Send, TypeInvariant, TypeOK
  <2>4. \A i \in Ids : attempts'[d][i] = IF i = n THEN 1 ELSE attempts[d][i]
    BY <1>2 DEF Send, TypeInvariant, TypeOK
  <2> QED
    BY <2>1, <2>2, <2>3, <2>4
<1> HIDE DEF k
<1>7. \A p \in PendingSlots : IsPending(d, p) =>
        /\ pending[d][p] \in Frames /\ FrameSound(d, pending[d][p])
        /\ pending[d][p].id # n /\ pending[d][p].id \in Ids
  <2> SUFFICES ASSUME NEW p \in PendingSlots, IsPending(d, p)
               PROVE  /\ pending[d][p] \in Frames /\ FrameSound(d, pending[d][p])
                      /\ pending[d][p].id # n /\ pending[d][p].id \in Ids
    OBVIOUS
  <2>1. pending[d][p] \in Frames
    BY DEF TypeInvariant, TypeOK, IsPending
  <2>2. FrameSound(d, pending[d][p])
    BY DEF LedgerSound
  <2>3. pending[d][p].id \in Ids
    BY <2>1 DEF Frames
  <2>4. pending[d][p].id # n
    BY <1>2, <2>2, <2>3 DEF FrameSound, WasSent, Ids
  <2> QED
    BY <2>1, <2>2, <2>3, <2>4
<1>8. \A p \in PendingSlots : IsPending(d, p)' <=> p = k \/ IsPending(d, p)
  BY <1>3, <1>5 DEF IsPending
<1>9. ASSUME NEW p \in PendingSlots, IsPending(d, p)' PROVE FrameSound(d, pending[d][p])'
  <2>1. CASE p = k
    <3>1. pending'[d][p] = frame
      BY <1>5, <2>1
    <3>2. n < nextId'[d]
      BY <1>2, <1>6 DEF Ids
    <3> QED
      BY <1>2, <1>6, <3>1, <3>2 DEF FrameSound, WasSent
  <2>2. CASE p # k
    <3>1. IsPending(d, p) /\ pending'[d][p] = pending[d][p]
      BY <1>5, <1>8, <1>9, <2>2
    <3>2. /\ pending[d][p].id \in Ids /\ pending[d][p].id # n /\ FrameSound(d, pending[d][p])
      BY <1>7, <3>1
    <3>3. pending[d][p].id < n + 1
      BY <1>2, <3>2 DEF FrameSound, WasSent, Ids
    <3> QED
      BY <1>6, <3>1, <3>2, <3>3 DEF FrameSound, WasSent
  <2> QED
    BY <2>1, <2>2
<1>10. \A p, q \in PendingSlots : IsPending(d, p)' /\ IsPending(d, q)'
        /\ pending'[d][p].id = pending'[d][q].id => p = q
  BY <1>5, <1>7, <1>8 DEF LedgerSound
<1>11. ASSUME NEW i \in Ids, outcome'[d][i] = "Pending"
       PROVE  \E p \in PendingSlots : IsPending(d, p)' /\ pending'[d][p].id = i
  <2>1. CASE i = n
    BY <1>1, <1>5, <1>8, <2>1
  <2>2. CASE i # n
    <3>1. PICK p \in PendingSlots : IsPending(d, p) /\ pending[d][p].id = i
      BY <1>6, <1>11, <2>2 DEF LedgerSound
    <3>2. p # k
      BY <1>1, <3>1
    <3> QED
      BY <1>5, <1>8, <3>1, <3>2
  <2> QED
    BY <2>1, <2>2
<1>12. \A i \in Ids : IF i < nextId'[d] THEN sent'[d][i] \in SentRecords
                      ELSE outcome'[d][i] = "Unsent"
  <2>1. [channel |-> c, route |-> to] \in SentRecords
    BY DEF SentRecords
  <2>2. \A i \in Ids : i < nextId'[d] <=> i < n \/ i = n
    BY <1>2, <1>6 DEF Ids
  <2> QED
    BY <1>6, <2>1, <2>2 DEF LedgerSound
<1>13. ASSUME NEW i \in Ids, outcome'[d][i] = "Acknowledged" PROVE Arrived(d, i, sent[d][i].route)'
  <2>1. i # n /\ Arrived(d, i, sent[d][i].route)
    BY <1>6, <1>13 DEF LedgerSound
  <2>2. sent'[d][i] = sent[d][i] /\ i < nextId'[d]
    BY <1>2, <1>6, <2>1 DEF Arrived, WasSent, Ids
  <2> QED
    BY <1>6, <2>1, <2>2 DEF Arrived, WasSent
<1>14. \A i \in Ids : attempts'[d][i] <= AtLeastOne
  BY <1>6, Constants DEF LedgerSound
<1>15. abandoned'[d] = Cardinality(Abandoned(d)')
  <2>1. outcome[d][n] = "Unsent"
    BY <1>2 DEF LedgerSound, Ids
  <2>2. Abandoned(d)' = Abandoned(d)
    BY <1>6, <2>1 DEF Abandoned
  <2> QED
    BY <1>6, <2>2 DEF LedgerSound
<1> QED
  BY <1>9, <1>10, <1>11, <1>12, <1>13, <1>14, <1>15 DEF LedgerSound

\* Nothing of a device's own changes.
Rests(d) ==
    /\ pending'[d] = pending[d] /\ nextId'[d] = nextId[d] /\ abandoned'[d] = abandoned[d]
    /\ sent'[d] = sent[d] /\ outcome'[d] = outcome[d] /\ attempts'[d] = attempts[d]

\* The ledger of a device that rests agrees with the history that goes on.
LEMMA LedgerRests ==
  ASSUME TypeInvariant, TypeOK', HistoryGrows, NEW d \in Nodes, LedgerSound(d), Rests(d)
  PROVE  LedgerSound(d)'
<1>1. Releases(d, {}, "Cancelled")
  <2>1. IdsIn(d, {}) = {}
    BY DEF IdsIn
  <2>2. abandoned[d] \in Nat
    BY DEF TypeInvariant, TypeOK
  <2> QED
    BY <2>1, <2>2 DEF Releases, Rests, LedgerSound, FrameSound
<1> QED
  BY <1>1, LedgerReleases

\* A cancelled channel's frames leave the ledger.
LEMMA LedgerCancels ==
  ASSUME TypeInvariant, TypeOK', NEW d \in Nodes, LedgerSound(d), NEW c \in Channels,
         CancelReliableMessagesForChannel(d, c)
  PROVE  LedgerSound(d)'
<1> DEFINE R == {p \in PendingSlots : IsPending(d, p) /\ pending[d][p].channel = c}
<1>1. \A p \in PendingSlots : pending'[d][p] = IF p \in R THEN NoFrame ELSE pending[d][p]
  BY DEF CancelReliableMessagesForChannel, TypeInvariant, TypeOK
<1>2. \A i \in Ids : outcome'[d][i] = IF i \in IdsIn(d, R) THEN "Cancelled" ELSE outcome[d][i]
  BY DEF CancelReliableMessagesForChannel, TypeInvariant, TypeOK, IdsIn
<1>3. Releases(d, R, "Cancelled")
  <2>1. \A p \in R : IsPending(d, p) /\ pending'[d][p] = NoFrame
    BY <1>1
  <2>2. \A p \in PendingSlots \ R : pending'[d][p] = pending[d][p]
    BY <1>1
  <2>3. /\ nextId' = nextId /\ sent' = sent /\ attempts' = attempts /\ abandoned' = abandoned
        /\ abandoned[d] \in Nat
    BY DEF CancelReliableMessagesForChannel, TypeInvariant, TypeOK
  <2>4. /\ \A i \in Ids : attempts[d][i] <= AtLeastOne
        /\ \A p \in PendingSlots : IsPending(d, p) =>
             pending[d][p].sends = attempts[d][pending[d][p].id]
    BY DEF LedgerSound, FrameSound
  <2> QED
    BY <1>2, <2>1, <2>2, <2>3, <2>4 DEF Releases
<1>4. HistoryGrows
  BY DEF HistoryGrows, CancelReliableMessagesForChannel
<1> QED
  BY <1>3, <1>4, LedgerReleases

\* Waiting frames grow older and are otherwise kept.
LEMMA LedgerAges ==
  ASSUME TypeInvariant, TypeOK', NEW d \in Nodes, LedgerSound(d), NEW elapsed \in TurnLengths,
         PreAdvance(d, elapsed)
  PROVE  LedgerSound(d)'
<1>1. \A p \in PendingSlots : pending'[d][p] =
        IF IsPending(d, p) THEN Older(pending[d][p], elapsed) ELSE NoFrame
  BY DEF PreAdvance, TypeInvariant, TypeOK
<1>2. \A p \in PendingSlots : IsPending(d, p) => pending[d][p] \in Frames
  BY DEF IsPending, TypeInvariant, TypeOK
<1>3. \A f \in Frames :
        /\ Older(f, elapsed) # NoFrame
        /\ Older(f, elapsed).channel = f.channel /\ Older(f, elapsed).route = f.route
        /\ Older(f, elapsed).id = f.id /\ Older(f, elapsed).sends = f.sends
  BY Constants, OlderTyped, AbsenceAssumption DEF AbsenceAssumption
<1>4. /\ nextId' = nextId /\ sent' = sent /\ attempts' = attempts /\ abandoned' = abandoned
      /\ outcome' = outcome /\ delivered' = delivered /\ abandoned[d] \in Nat
  BY DEF PreAdvance, history, TypeInvariant, TypeOK
<1>5. Releases(d, {}, "Cancelled")
  <2>1. IdsIn(d, {}) = {}
    BY DEF IdsIn
  <2>2. \A p \in PendingSlots : pending'[d][p] # NoFrame <=> pending[d][p] # NoFrame
    BY <1>1, <1>2, <1>3 DEF IsPending
  <2>3. \A p \in PendingSlots : IsPending(d, p) =>
          /\ pending'[d][p].channel = pending[d][p].channel
          /\ pending'[d][p].route = pending[d][p].route
          /\ pending'[d][p].id = pending[d][p].id
          /\ pending'[d][p].sends = attempts[d][pending[d][p].id]
    BY <1>1, <1>2, <1>3 DEF LedgerSound, FrameSound
  <2>4. \A i \in Ids : attempts[d][i] <= AtLeastOne
    BY DEF LedgerSound
  <2> QED
    BY <1>4, <2>1, <2>2, <2>3, <2>4 DEF Releases
<1>6. HistoryGrows
  BY <1>4 DEF HistoryGrows
<1> QED
  BY <1>5, <1>6, LedgerReleases

\* An acknowledgement in flight releases the frame it names, which has arrived.
LEMMA LedgerAcknowledges ==
  ASSUME TypeInvariant, TypeOK', WireSound, NEW d \in Nodes, LedgerSound(d),
         NEW packet \in wire, ProcessAcknowledgement(d, packet)
  PROVE  LedgerSound(d)'
<1> DEFINE found == {p \in PendingSlots : IsAcknowledgementOf(pending[d][p], packet)}
           k == Min(found)
<1>1. /\ nextId' = nextId /\ sent' = sent /\ attempts' = attempts /\ abandoned' = abandoned
      /\ delivered' = delivered /\ abandoned[d] \in Nat
  BY DEF ProcessAcknowledgement, TypeInvariant, TypeOK
<1>2. HistoryGrows
  BY <1>1 DEF HistoryGrows
<1>3. CASE found = {}
  <2>1. pending' = pending /\ outcome' = outcome
    BY <1>3 DEF ProcessAcknowledgement
  <2> QED
    BY <1>1, <1>2, <2>1, LedgerRests DEF Rests
<1>4. CASE found # {}
  <2>1. k \in PendingSlots /\ IsAcknowledgementOf(pending[d][k], packet)
    BY <1>4, FirstFound
  <2>2. /\ pending' = [pending EXCEPT ![d][k] = NoFrame]
        /\ outcome' = [outcome EXCEPT ![d][pending[d][k].id] = "Acknowledged"]
    BY <1>4 DEF ProcessAcknowledgement
  <2> HIDE DEF found, k
  <2>3. IsPending(d, k) /\ pending[d][k] \in Frames
    BY <2>1 DEF IsAcknowledgementOf, IsPending, TypeInvariant, TypeOK
  <2>4. \A p \in PendingSlots : pending'[d][p] = IF p = k THEN NoFrame ELSE pending[d][p]
    BY <2>1, <2>2 DEF TypeInvariant, TypeOK
  <2>5. IdsIn(d, {k}) = {pending[d][k].id} /\ pending[d][k].id \in Ids
    BY <2>3 DEF IdsIn, Frames
  <2>6. \A i \in Ids : outcome'[d][i] = IF i \in IdsIn(d, {k}) THEN "Acknowledged" ELSE outcome[d][i]
    <3>1. PICK id \in Ids : id = pending[d][k].id
      BY <2>5
    <3>2. outcome' = [outcome EXCEPT ![d] = [outcome[d] EXCEPT ![id] = "Acknowledged"]]
      BY <2>2, <3>1
    <3>3. d \in DOMAIN outcome /\ DOMAIN outcome[d] = Ids
      BY DEF TypeInvariant, TypeOK
    <3>4. outcome'[d] = [outcome[d] EXCEPT ![id] = "Acknowledged"]
      BY <3>2, <3>3
    <3>5. \A i \in Ids : outcome'[d][i] = IF i = id THEN "Acknowledged" ELSE outcome[d][i]
      BY <3>3, <3>4
    <3> QED
      BY <2>5, <3>1, <3>5
  <2>7. Releases(d, {k}, "Acknowledged")
    <3>1. \A p \in {k} : IsPending(d, p) /\ pending'[d][p] = NoFrame
      BY <2>1, <2>3, <2>4
    <3>2. \A p \in PendingSlots \ {k} : pending'[d][p] = pending[d][p]
      BY <2>4
    <3>3. /\ \A i \in Ids : attempts[d][i] <= AtLeastOne
          /\ \A p \in PendingSlots : IsPending(d, p) =>
               pending[d][p].sends = attempts[d][pending[d][p].id]
      BY DEF LedgerSound, FrameSound
    <3> QED
      BY <1>1, <2>6, <3>1, <3>2, <3>3 DEF Releases
  <2>8. Arrived(d, pending[d][k].id, pending[d][k].route)
    <3>1. PacketSound(packet) /\ packet.type = "Acknowledgement" /\ packet.to = d
      BY DEF WireSound, ProcessAcknowledgement, TryReceive
    <3> QED
      BY <2>1, <3>1 DEF PacketSound, IsAcknowledgementOf
  <2>9. {k} \in SUBSET PendingSlots /\ \A p \in {k} : Arrived(d, pending[d][p].id, pending[d][p].route)
    BY <2>1, <2>8
  <2> QED
    BY <1>2, <2>7, <2>9, LedgerReleases
<1> QED
  BY <1>3, <1>4

\* A frame that is due is retried once more or, after its last attempt, abandoned.
LEMMA LedgerRetries ==
  ASSUME TypeInvariant, TypeOK', NEW d \in Nodes, LedgerSound(d), PostAdvance(d)
  PROVE  LedgerSound(d)'
<1> DEFINE R == Exhausted(d)
           T == Retried(d)
<1>1. \A p \in PendingSlots : IsPending(d, p) =>
        /\ pending[d][p] \in Frames /\ pending[d][p].id \in Ids
        /\ pending[d][p].sends = attempts[d][pending[d][p].id]
  BY DEF IsPending, TypeInvariant, TypeOK, LedgerSound, FrameSound, Frames
<1>2. \A p \in PendingSlots : pending'[d][p] =
        IF p \in R THEN NoFrame ELSE IF p \in T THEN Resent(pending[d][p]) ELSE pending[d][p]
  BY DEF PostAdvance, TypeInvariant, TypeOK
<1>3. \A i \in Ids : outcome'[d][i] = IF i \in IdsIn(d, R) THEN "Abandoned" ELSE outcome[d][i]
  BY DEF PostAdvance, TypeInvariant, TypeOK
<1>4. \A i \in Ids : attempts'[d][i] =
        IF i \in IdsIn(d, T) /\ attempts[d][i] <= AtLeastOne THEN attempts[d][i] + 1
        ELSE attempts[d][i]
  BY DEF PostAdvance, TypeInvariant, TypeOK
<1>5. /\ nextId' = nextId /\ sent' = sent /\ delivered' = delivered
      /\ abandoned'[d] = abandoned[d] + Cardinality(R)
  BY DEF PostAdvance, TypeInvariant, TypeOK
<1>6. /\ R \subseteq PendingSlots /\ \A p \in R : IsPending(d, p)
      /\ T \subseteq PendingSlots
      /\ \A p \in T : IsPending(d, p) /\ p \notin R /\ pending[d][p].sends < MaxSendAttempts
  <2>1. \A p \in T : IsPending(d, p) /\ p \notin R /\ ~(pending[d][p].sends >= MaxSendAttempts)
    BY DEF Retried, Exhausted, IsDue, IsExhausted
  <2>2. \A p \in T : pending[d][p].sends \in Nat
    BY <1>1, <2>1 DEF Frames, Retried
  <2> QED
    BY <2>1, <2>2, Constants DEF Exhausted, Retried, IsDue
<1> HIDE DEF R, T
<1>7. \A i \in Ids : attempts'[d][i] <= AtLeastOne
  <2> SUFFICES ASSUME NEW i \in Ids PROVE attempts'[d][i] <= AtLeastOne
    OBVIOUS
  <2>1. attempts[d][i] \in Nat /\ attempts[d][i] <= AtLeastOne
    BY Constants DEF LedgerSound, TypeInvariant, TypeOK
  <2>2. CASE i \in IdsIn(d, T)
    <3>1. PICK p \in T : pending[d][p].id = i
      BY <2>2 DEF IdsIn
    <3>2. attempts[d][i] < MaxSendAttempts
      BY <1>1, <1>6, <3>1
    <3> QED
      BY <1>4, <2>1, <3>2, Constants
  <2> QED
    BY <1>4, <2>1, <2>2
<1>8. ASSUME NEW p \in PendingSlots \ R, IsPending(d, p)
      PROVE  /\ pending'[d][p] # NoFrame
             /\ pending'[d][p].channel = pending[d][p].channel
             /\ pending'[d][p].route = pending[d][p].route
             /\ pending'[d][p].id = pending[d][p].id
             /\ pending'[d][p].sends = attempts'[d][pending[d][p].id]
  <2>1. pending[d][p] \in Frames /\ pending[d][p].id \in Ids
    BY <1>1, <1>8
  <2>2. CASE p \in T
    <3>1. pending'[d][p] = Resent(pending[d][p])
      BY <1>2, <2>2
    <3>2. pending[d][p].id \in IdsIn(d, T)
      BY <2>2 DEF IdsIn
    <3>3. attempts[d][pending[d][p].id] <= AtLeastOne
      BY <2>1 DEF LedgerSound
    <3>4. attempts'[d][pending[d][p].id] = pending[d][p].sends + 1
      BY <1>1, <1>4, <1>8, <2>1, <3>2, <3>3
    <3> QED
      BY <2>1, <3>1, <3>4, ResentTyped, AbsenceAssumption DEF AbsenceAssumption
  <2>3. CASE p \notin T
    <3>1. pending'[d][p] = pending[d][p]
      BY <1>2, <2>3
    <3>2. pending[d][p].id \notin IdsIn(d, T)
      BY <1>6, <1>8, <2>3 DEF IdsIn, LedgerSound
    <3> QED
      BY <1>1, <1>4, <1>8, <2>1, <3>1, <3>2 DEF IsPending
  <2> QED
    BY <2>2, <2>3
<1>9. Releases(d, R, "Abandoned")
  <2>1. \A p \in R : IsPending(d, p) /\ pending'[d][p] = NoFrame
    BY <1>2, <1>6
  <2>2. \A p \in PendingSlots \ R : pending'[d][p] # NoFrame <=> pending[d][p] # NoFrame
    BY <1>2, <1>6, <1>8 DEF IsPending
  <2> QED
    BY <1>3, <1>5, <1>7, <1>8, <2>1, <2>2 DEF Releases
<1>10. HistoryGrows
  BY <1>5 DEF HistoryGrows
<1> QED
  BY <1>6, <1>9, <1>10, LedgerReleases

----------------------------------------------------------------------------
(* The channel table.                                                       *)

\* A new channel leaves the others in the table.
LEMMA CreateKeepsNames ==
  ASSUME TypeOK, NEW d \in Nodes, NEW c \in Channels, CreateChannel(d, c)
  PROVE  Names(d) \subseteq Names(d)'
<1> DEFINE k == Min(FreeEntries(d))
<1>1. k \in FreeEntries(d)
  <2>1. Entries \subseteq Nat /\ IsFiniteSet(Entries)
    BY Constants, FS_Interval DEF Entries
  <2>2. IsFiniteSet(FreeEntries(d))
    BY <2>1, FS_Subset DEF FreeEntries
  <2> QED
    BY <2>1, <2>2, MinIsLeast DEF CreateChannel, FreeEntries
<1>2. k \in Entries /\ table[d][k] = NoChannel
  BY <1>1 DEF FreeEntries
<1>3. table' = [table EXCEPT ![d][k] = c]
  BY DEF CreateChannel
<1> HIDE DEF k
<1>4. \A e \in Entries : e # k => table'[d][e] = table[d][e]
  BY <1>2, <1>3 DEF TypeOK
<1> QED
  BY <1>2, <1>4 DEF Names

\* Destroying a channel moves the later ones down and loses none of them.
LEMMA DestroyKeepsNames ==
  ASSUME TypeOK, NEW d \in Nodes, NEW c \in Channels, DestroyChannel(d, c)
  PROVE  Names(d) \ {c} \subseteq Names(d)'
<1> DEFINE k == EntryOf(d, c)
<1>1. k \in Entries /\ table[d][k] = c
  BY EntryHolds DEF DestroyChannel
<1>2. \A e \in Entries : table'[d][e] =
        IF e < k THEN table[d][e] ELSE IF e < MaxChannels THEN table[d][e + 1] ELSE NoChannel
  BY DEF DestroyChannel, TypeOK
<1> HIDE DEF k
<1> SUFFICES ASSUME NEW e \in Entries, table[d][e] \notin {NoChannel, c}
             PROVE  \E f \in Entries : table'[d][f] = table[d][e]
  BY DEF Names
<1>3. CASE e < k
  BY <1>2, <1>3
<1>4. CASE e > k
  <2>1. e - 1 \in Entries /\ ~(e - 1 < k) /\ e - 1 < MaxChannels /\ (e - 1) + 1 = e
    BY <1>1, <1>4, Constants DEF Entries
  <2> QED
    BY <1>2, <2>1
<1>5. e # k
  BY <1>1
<1> QED
  BY <1>1, <1>3, <1>4, <1>5 DEF Entries

HaveChannels(d) ==
    \A p \in PendingSlots : IsPending(d, p) => pending[d][p].channel \in Names(d)

\* What the application does keeps a channel for every pending frame.
LEMMA UserKeepsChannels ==
  ASSUME TypeInvariant, NEW d \in Nodes, HaveChannels(d), UserStep(d)
  PROVE  HaveChannels(d)'
<1> USE DEF TypeInvariant
<1>1. ASSUME NEW c \in Channels, CreateChannel(d, c) PROVE HaveChannels(d)'
  <2>1. Names(d) \subseteq Names(d)'
    BY <1>1, CreateKeepsNames
  <2> QED
    BY <1>1, <2>1 DEF CreateChannel, HaveChannels, IsPending
<1>2. ASSUME NEW c \in Channels, DestroyChannel(d, c) PROVE HaveChannels(d)'
  <2>1. Names(d) \ {c} \subseteq Names(d)'
    BY <1>2, DestroyKeepsNames
  <2>2. pending' = pending /\ HasNoPending(d, c)
    BY <1>2 DEF DestroyChannel
  <2> QED
    BY <2>1, <2>2 DEF HasNoPending, HaveChannels, IsPending
<1>3. ASSUME NEW c \in Channels, NEW to \in Nodes \ {d}, Send(d, c, to) PROVE HaveChannels(d)'
  <2> DEFINE k == Min(FreeSlots(d))
  <2>1. k \in PendingSlots
    BY <1>3, FirstFound DEF Send, FreeSlots
  <2>2. pending' = [pending EXCEPT ![d][k] =
          [channel |-> c, route |-> to, id |-> nextId[d], sends |-> 1, age |-> 0]]
    BY <1>3 DEF Send
  <2>3. table' = table /\ c \in Names(d)
    BY <1>3 DEF Send
  <2> HIDE DEF k
  <2>4. \A p \in PendingSlots : IF p = k THEN pending'[d][p].channel = c
                                ELSE pending'[d][p] = pending[d][p]
    BY <2>1, <2>2 DEF TypeOK
  <2> QED
    BY <2>3, <2>4 DEF HaveChannels, IsPending, Names
<1>4. ASSUME NEW c \in Channels, CancelReliableMessagesForChannel(d, c) PROVE HaveChannels(d)'
  <2>1. \A p \in PendingSlots : pending'[d][p] \in {pending[d][p], NoFrame}
    BY <1>4 DEF CancelReliableMessagesForChannel, TypeOK
  <2>2. table' = table
    BY <1>4 DEF CancelReliableMessagesForChannel
  <2> QED
    BY <2>1, <2>2 DEF HaveChannels, IsPending, Names
<1> QED
  BY <1>1, <1>2, <1>3, <1>4 DEF UserStep

\* So does a turn: it changes no channel and gives no frame another.
LEMMA TurnKeepsChannels ==
  ASSUME TypeInvariant, NEW d \in Nodes, HaveChannels(d), TurnStep(d)
  PROVE  HaveChannels(d)'
<1> USE DEF TypeInvariant
<1>1. table' = table
  BY DEF TurnStep, PreAdvance, EndReceive, DropFrame, ProcessAcknowledgement,
         ProcessReliableMessage, SendAcknowledgement, PostAdvance
<1>2. SUFFICES \A p \in PendingSlots : IsPending(d, p)' =>
        IsPending(d, p) /\ pending'[d][p].channel = pending[d][p].channel
  BY <1>1 DEF HaveChannels, Names
<1>3. \A p \in PendingSlots : IsPending(d, p) => pending[d][p] \in Frames
  BY DEF IsPending, TypeOK
<1>4. ASSUME NEW elapsed \in TurnLengths, PreAdvance(d, elapsed), NEW p \in PendingSlots,
             IsPending(d, p)'
      PROVE  IsPending(d, p) /\ pending'[d][p].channel = pending[d][p].channel
  <2>1. pending'[d][p] = IF IsPending(d, p) THEN Older(pending[d][p], elapsed) ELSE NoFrame
    BY <1>4 DEF PreAdvance, TypeOK
  <2>2. IsPending(d, p)
    BY <1>4, <2>1 DEF IsPending
  <2>3. Older(pending[d][p], elapsed).channel = pending[d][p].channel
    BY <1>3, <2>2, OlderTyped, Constants
  <2> QED
    BY <2>1, <2>2, <2>3
<1>5. CASE PostAdvance(d)
  <2>1. \A p \in PendingSlots : pending'[d][p] =
          IF p \in Exhausted(d) THEN NoFrame
          ELSE IF p \in Retried(d) THEN Resent(pending[d][p]) ELSE pending[d][p]
    BY <1>5 DEF PostAdvance, TypeOK
  <2>2. \A p \in Retried(d) : IsPending(d, p)
    BY DEF Retried, IsDue
  <2> QED
    BY <1>3, <2>1, <2>2, ResentTyped DEF IsPending, Retried
<1>6. ASSUME NEW packet \in wire, ProcessAcknowledgement(d, packet)
      PROVE  \A p \in PendingSlots : pending'[d][p] \in {pending[d][p], NoFrame}
  <2> DEFINE found == {p \in PendingSlots : IsAcknowledgementOf(pending[d][p], packet)}
             k == Min(found)
  <2>1. pending' = pending \/ pending' = [pending EXCEPT ![d][k] = NoFrame]
    BY <1>6 DEF ProcessAcknowledgement
  <2> HIDE DEF k
  <2> QED
    BY <2>1 DEF TypeOK
<1>7. CASE pending' = pending
  BY <1>7 DEF IsPending
<1> QED
  BY <1>4, <1>5, <1>6, <1>7 DEF TurnStep, IsPending, EndReceive, DropFrame,
     ProcessReliableMessage, SendAcknowledgement

----------------------------------------------------------------------------
(* The steps.                                                               *)

\* A step of device d leaves the ledgers, channels and deliveries of the others.
LEMMA OthersRest ==
  ASSUME ReliableInvariant, TypeInvariant', HistoryGrows, WireSound', NEW d \in Nodes,
         LedgerSound(d)', DeliverySound(d)', HaveChannels(d)',
         \A e \in Nodes \ {d} : /\ Rests(e) /\ table'[e] = table[e]
                                /\ delivering'[e] = delivering[e]
  PROVE  ReliableInvariant'
<1>1. ASSUME NEW e \in Nodes \ {d}
      PROVE  LedgerSound(e)' /\ DeliverySound(e)' /\ HaveChannels(e)'
  <2>1. LedgerSound(e) /\ DeliverySound(e) /\ HaveChannels(e)
    BY DEF ReliableInvariant, PendingHaveChannels, HaveChannels
  <2>2. LedgerSound(e)'
    BY <2>1, LedgerRests DEF ReliableInvariant, TypeInvariant
  <2>3. DeliverySound(e)'
    BY <2>1, DeliveryStaysSound DEF ReliableInvariant, TypeInvariant
  <2>4. HaveChannels(e)'
    BY <2>1 DEF HaveChannels, Rests, IsPending, Names
  <2> QED
    BY <2>2, <2>3, <2>4
<1>2. \A e \in Nodes : LedgerSound(e)' /\ DeliverySound(e)' /\ HaveChannels(e)'
  BY <1>1
<1> QED
  BY <1>2 DEF ReliableInvariant, PendingHaveChannels, HaveChannels

\* Nothing has been sent yet.
LEMMA InitSafe == Init => ReliableInvariant
<1> SUFFICES ASSUME Init PROVE ReliableInvariant
  OBVIOUS
<1>1. TypeInvariant
  BY InitTyped
<1>2. WireSound /\ \A d \in Nodes : DeliverySound(d)
  BY DEF Init, WireSound, DeliverySound
<1>3. \A d \in Nodes, p \in PendingSlots : ~IsPending(d, p)
  BY DEF Init, IsPending
<1>4. ASSUME NEW d \in Nodes PROVE LedgerSound(d)
  <2>1. /\ \A i \in Ids : outcome[d][i] = "Unsent" /\ attempts[d][i] = 0
        /\ nextId[d] = 0 /\ abandoned[d] = 0
    BY DEF Init
  <2>2. Cardinality(Abandoned(d)) = 0
    BY <2>1, FS_EmptySet DEF Abandoned
  <2> QED
    BY <1>3, <2>1, <2>2, Constants DEF LedgerSound, Ids
<1> QED
  BY <1>1, <1>2, <1>3, <1>4 DEF ReliableInvariant, PendingHaveChannels

\* The application and the subscribers keep the invariant.
LEMMA UserSafe ==
  ASSUME ReliableInvariant, NEW d \in Nodes, UserStep(d) PROVE ReliableInvariant'
<1>1. /\ TypeInvariant /\ TypeOK /\ WireSound /\ LedgerSound(d) /\ DeliverySound(d)
      /\ HaveChannels(d)
  BY DEF ReliableInvariant, PendingHaveChannels, HaveChannels, TypeInvariant
<1>2. TypeInvariant' /\ TypeOK' /\ HaveChannels(d)'
  BY <1>1, UserTyped, UserKeepsChannels DEF TypeInvariant
<1>3. \A e \in Nodes \ {d} : /\ Rests(e) /\ table'[e] = table[e]
                             /\ delivering'[e] = delivering[e]
  <2>1. CASE \E c \in Channels : CreateChannel(d, c) \/ DestroyChannel(d, c)
    BY <1>1, <2>1 DEF CreateChannel, DestroyChannel, Rests, TypeOK, history
  <2>2. CASE \E c \in Channels, to \in Nodes \ {d} : Send(d, c, to)
    BY <1>1, <2>2 DEF Send, Rests, TypeOK
  <2>3. CASE \E c \in Channels : CancelReliableMessagesForChannel(d, c)
    BY <1>1, <2>3 DEF CancelReliableMessagesForChannel, Rests, TypeOK
  <2> QED
    BY <2>1, <2>2, <2>3 DEF UserStep
<1>4. ASSUME NEW c \in Channels, CreateChannel(d, c) \/ DestroyChannel(d, c)
      PROVE  ReliableInvariant'
  <2>1. UNCHANGED <<pending, nextId, abandoned, stage, receiving, delivering, wire, history>>
    BY <1>4 DEF CreateChannel, DestroyChannel
  <2>2. HistoryGrows /\ Rests(d)
    BY <2>1 DEF HistoryGrows, Rests, history
  <2>3. LedgerSound(d)'
    BY <1>1, <1>2, <2>2, LedgerRests
  <2>4. DeliverySound(d)'
    BY <1>1, <2>1, <2>2, DeliveryStaysSound
  <2>5. WireSound'
    BY <1>1, <2>1, <2>2, WireShrinksSound
  <2> QED
    BY <1>2, <1>3, <2>2, <2>3, <2>4, <2>5, OthersRest
<1>5. ASSUME NEW c \in Channels, NEW to \in Nodes \ {d}, Send(d, c, to)
      PROVE  ReliableInvariant'
  <2>1. HistoryGrows
    BY <1>1, <1>5, SendGrows
  <2>2. LedgerSound(d)'
    BY <1>1, <1>5, LedgerSends
  <2>3. DeliverySound(d)'
    BY <1>1, <1>5, <2>1, DeliveryStaysSound DEF Send
  <2>4. WireSound'
    <3> DEFINE m == Packet("Message", d, to, c, nextId[d])
    <3>1. nextId[d] \in Ids
      BY <1>1, <1>5, Constants DEF Send, HasId, TypeOK, Ids
    <3>2. m \in Packets
      BY <3>1 DEF Packet, Packets
    <3>3. \A x \in {m} : PacketSound(x)'
      <4>1. PICK n \in Ids : n = nextId[d]
        BY <3>1
      <4>2. nextId'[d] = n + 1 /\ sent'[d][n] = [channel |-> c, route |-> to]
        BY <1>1, <1>5, <4>1 DEF Send, TypeInvariant, TypeOK
      <4>3. n < nextId'[d]
        BY <4>2 DEF Ids
      <4>4. WasSent(d, n, c, to)'
        BY <4>2, <4>3 DEF WasSent
      <4>5. /\ m.type = "Message" /\ m.from = d /\ m.to = to /\ m.channel = c /\ m.id = n
        BY <4>1 DEF Packet
      <4> HIDE DEF m
      <4> QED
        BY <4>4, <4>5 DEF PacketSound, WasSent
    <3>4. wire' \subseteq wire \cup {m}
      BY <1>5 DEF Send, TrySend
    <3> HIDE DEF m
    <3> QED
      BY <1>1, <2>1, <3>2, <3>3, <3>4, WireStaysSound
  <2> QED
    BY <1>2, <1>3, <1>5, <2>1, <2>2, <2>3, <2>4, OthersRest
<1>6. ASSUME NEW c \in Channels, CancelReliableMessagesForChannel(d, c)
      PROVE  ReliableInvariant'
  <2>1. HistoryGrows
    BY <1>6 DEF HistoryGrows, CancelReliableMessagesForChannel
  <2>2. LedgerSound(d)'
    BY <1>1, <1>2, <1>6, LedgerCancels
  <2>3. DeliverySound(d)'
    BY <1>1, <1>6, <2>1, DeliveryStaysSound DEF CancelReliableMessagesForChannel
  <2>4. WireSound'
    BY <1>1, <1>6, <2>1, WireShrinksSound DEF CancelReliableMessagesForChannel
  <2> QED
    BY <1>2, <1>3, <2>1, <2>2, <2>3, <2>4, OthersRest
<1> QED
  BY <1>4, <1>5, <1>6 DEF UserStep

\* A turn keeps the invariant.
LEMMA TurnSafe ==
  ASSUME ReliableInvariant, NEW d \in Nodes, TurnStep(d) PROVE ReliableInvariant'
<1>1. /\ TypeInvariant /\ TypeOK /\ WireSound /\ LedgerSound(d) /\ DeliverySound(d)
      /\ HaveChannels(d)
  BY DEF ReliableInvariant, PendingHaveChannels, HaveChannels, TypeInvariant
<1>2. TypeInvariant' /\ TypeOK' /\ HaveChannels(d)'
  BY <1>1, TurnTyped, TurnKeepsChannels DEF TypeInvariant
<1>3. \A e \in Nodes \ {d} : /\ Rests(e) /\ table'[e] = table[e]
                             /\ delivering'[e] = delivering[e]
  <2>1. ASSUME NEW packet \in wire, ProcessAcknowledgement(d, packet), NEW e \in Nodes \ {d}
        PROVE  Rests(e) /\ table'[e] = table[e] /\ delivering'[e] = delivering[e]
    <3> DEFINE found == {p \in PendingSlots : IsAcknowledgementOf(pending[d][p], packet)}
               k == Min(found)
               i == pending[d][k].id
    <3>1. \/ pending' = pending /\ outcome' = outcome
          \/ /\ pending' = [pending EXCEPT ![d][k] = NoFrame]
             /\ outcome' = [outcome EXCEPT ![d][i] = "Acknowledged"]
      BY <2>1 DEF ProcessAcknowledgement
    <3> HIDE DEF k, i
    <3> QED
      BY <1>1, <2>1, <3>1 DEF ProcessAcknowledgement, Rests, TypeOK
  <2>2. CASE SendAcknowledgement(d)
    BY <1>1, <2>2 DEF SendAcknowledgement, Rests, TypeOK, history
  <2>3. CASE PostAdvance(d)
    BY <1>1, <2>3 DEF PostAdvance, Rests, TypeOK, TypeInvariant
  <2>4. ASSUME NEW packet \in wire, ProcessReliableMessage(d, packet) \/ DropFrame(d, packet)
        PROVE  \A e \in Nodes \ {d} : /\ Rests(e) /\ table'[e] = table[e]
                                      /\ delivering'[e] = delivering[e]
    BY <1>1, <2>4 DEF ProcessReliableMessage, DropFrame, Rests, TypeOK, history
  <2>5. ASSUME NEW elapsed \in TurnLengths, PreAdvance(d, elapsed)
        PROVE  \A e \in Nodes \ {d} : /\ Rests(e) /\ table'[e] = table[e]
                                      /\ delivering'[e] = delivering[e]
    BY <1>1, <2>5 DEF PreAdvance, Rests, TypeOK, history
  <2>6. CASE EndReceive(d)
    BY <2>6 DEF EndReceive, Rests, history
  <2> QED
    BY <2>1, <2>2, <2>3, <2>4, <2>5, <2>6 DEF TurnStep
<1>4. ASSUME NEW elapsed \in TurnLengths, PreAdvance(d, elapsed) PROVE ReliableInvariant'
  <2>1. /\ nextId' = nextId /\ sent' = sent /\ delivered' = delivered /\ wire' = wire
        /\ delivering' = delivering
    BY <1>4 DEF PreAdvance, history
  <2>2. HistoryGrows
    BY <2>1 DEF HistoryGrows
  <2>3. LedgerSound(d)'
    BY <1>1, <1>2, <1>4, LedgerAges
  <2>4. DeliverySound(d)' /\ WireSound'
    BY <1>1, <2>1, <2>2, DeliveryStaysSound, WireShrinksSound
  <2> QED
    BY <1>2, <1>3, <2>2, <2>3, <2>4, OthersRest
<1>5. ASSUME \/ EndReceive(d)
             \/ \E packet \in wire : DropFrame(d, packet)
      PROVE  ReliableInvariant'
  <2>1. /\ UNCHANGED <<pending, nextId, abandoned, delivering, sent, outcome, attempts, delivered>>
        /\ wire' \subseteq wire
    BY <1>5 DEF EndReceive, DropFrame, TryReceive, history
  <2>2. HistoryGrows /\ Rests(d)
    BY <2>1 DEF HistoryGrows, Rests
  <2>3. LedgerSound(d)'
    BY <1>1, <1>2, <2>2, LedgerRests
  <2>4. DeliverySound(d)' /\ WireSound'
    BY <1>1, <2>1, <2>2, DeliveryStaysSound, WireShrinksSound
  <2> QED
    BY <1>2, <1>3, <2>2, <2>3, <2>4, OthersRest
<1>6. ASSUME NEW packet \in wire, ProcessAcknowledgement(d, packet) PROVE ReliableInvariant'
  <2>1. /\ nextId' = nextId /\ sent' = sent /\ delivered' = delivered
        /\ delivering' = delivering /\ wire' \subseteq wire
    BY <1>6 DEF ProcessAcknowledgement, TryReceive
  <2>2. HistoryGrows
    BY <2>1 DEF HistoryGrows
  <2>3. LedgerSound(d)'
    BY <1>1, <1>2, <1>6, LedgerAcknowledges
  <2>4. DeliverySound(d)' /\ WireSound'
    BY <1>1, <2>1, <2>2, DeliveryStaysSound, WireShrinksSound
  <2> QED
    BY <1>2, <1>3, <2>2, <2>3, <2>4, OthersRest
<1>7. ASSUME NEW packet \in wire, ProcessReliableMessage(d, packet) PROVE ReliableInvariant'
  <2>1. /\ UNCHANGED <<table, pending, nextId, abandoned, sent, outcome, attempts>>
        /\ delivered'[d] = delivered[d] \cup {packet}
        /\ \A e \in Nodes : delivered[e] \subseteq delivered'[e]
        /\ delivering'[d].from = packet.from /\ delivering'[d].id = packet.id
        /\ wire' \subseteq wire
        /\ packet \in Packets /\ packet.type = "Message" /\ packet.to = d
    BY <1>1, <1>7 DEF ProcessReliableMessage, TryReceive, TypeOK
  <2>2. HistoryGrows /\ Rests(d)
    BY <2>1 DEF HistoryGrows, Rests
  <2>3. LedgerSound(d)'
    BY <1>1, <1>2, <2>2, LedgerRests
  <2>4. WireSound'
    BY <1>1, <2>1, <2>2, WireShrinksSound
  <2>5. DeliverySound(d)'
    <3> DEFINE s == packet.from
               i == packet.id
    <3>1. PICK a \in Nodes, n \in Ids : a = packet.from /\ n = packet.id
      BY <2>1 DEF Packets
    <3>2. WasSent(a, n, packet.channel, d)
      BY <1>1, <2>1, <3>1 DEF WireSound, PacketSound
    <3>3. packet = Packet("Message", a, d, sent[a][n].channel, n)
      BY <2>1, <3>1, <3>2 DEF WasSent, Packet, Packets
    <3>4. Arrived(a, n, d)'
      BY <2>1, <3>2, <3>3 DEF Arrived, WasSent
    <3> QED
      BY <2>1, <3>1, <3>4 DEF DeliverySound, Arrived, WasSent
  <2> QED
    BY <1>2, <1>3, <2>2, <2>3, <2>4, <2>5, OthersRest
<1>8. CASE SendAcknowledgement(d)
  <2>1. /\ UNCHANGED <<table, pending, nextId, abandoned, sent, outcome, attempts, delivered>>
        /\ delivering[d] \in Receptions /\ delivering'[d] = NoDelivery
    BY <1>1, <1>8 DEF SendAcknowledgement, history, TypeOK
  <2>2. HistoryGrows /\ Rests(d)
    BY <2>1 DEF HistoryGrows, Rests
  <2>3. LedgerSound(d)'
    BY <1>1, <1>2, <2>2, LedgerRests
  <2>4. DeliverySound(d)'
    BY <1>1, <2>1, <2>2, DeliveryStaysSound
  <2>5. WireSound'
    <3>1. PICK c \in NamesAt(d, delivering[d].entry) :
            TrySend({Packet("Acknowledgement", d, delivering[d].from, c, delivering[d].id)})
      BY <1>8 DEF SendAcknowledgement
    <3> DEFINE m == Packet("Acknowledgement", d, delivering[d].from, c, delivering[d].id)
    <3>2. c \in Channels
      BY <1>1, <2>1 DEF NamesAt, Receptions, TypeOK
    <3>3. m \in Packets
      BY <2>1, <3>2 DEF Packet, Packets, Receptions
    <3>4. PICK a \in Nodes, n \in Ids : a = delivering[d].from /\ n = delivering[d].id
      BY <2>1 DEF Receptions
    <3>5. Arrived(a, n, d)
      BY <1>1, <1>8, <3>4 DEF DeliverySound, SendAcknowledgement
    <3>6. Arrived(a, n, d)'
      BY <2>1, <3>5 DEF Arrived, WasSent
    <3>7. m.type = "Acknowledgement" /\ m.from = d /\ m.to = a /\ m.id = n
      BY <3>4 DEF Packet
    <3>8. wire' \subseteq wire \cup {m}
      BY <3>1 DEF TrySend
    <3>9. PICK x \in Packets : x = m
      BY <3>3
    <3>10. PacketSound(x)'
      BY <3>6, <3>7, <3>9 DEF PacketSound, Arrived, WasSent
    <3> HIDE DEF m
    <3>11. {x} \in SUBSET Packets /\ wire' \subseteq wire \cup {x} /\ \A y \in {x} : PacketSound(y)'
      BY <3>8, <3>9, <3>10
    <3> QED
      BY <1>1, <2>2, <3>11, WireStaysSound
  <2> QED
    BY <1>2, <1>3, <2>2, <2>3, <2>4, <2>5, OthersRest
<1>9. CASE PostAdvance(d)
  <2>1. nextId' = nextId /\ sent' = sent /\ delivered' = delivered /\ delivering' = delivering
    BY <1>9 DEF PostAdvance
  <2>2. HistoryGrows
    BY <2>1 DEF HistoryGrows
  <2>3. LedgerSound(d)'
    BY <1>1, <1>2, <1>9, LedgerRetries
  <2>4. DeliverySound(d)'
    BY <1>1, <2>1, <2>2, DeliveryStaysSound
  <2>5. WireSound'
    <3>1. wire' \subseteq wire \cup RetriedPackets(d)
      BY <1>9 DEF PostAdvance, TrySend, RetriedPackets
    <3>2. \A p \in Retried(d) : pending[d][p] \in Frames /\ FrameSound(d, pending[d][p])
      BY <1>1 DEF Retried, IsDue, IsPending, LedgerSound, TypeOK
    <3>3. RetriedPackets(d) \subseteq Packets
      BY <3>2 DEF RetriedPackets, Packet, Packets, Frames
    <3>4. \A m \in RetriedPackets(d) : PacketSound(m)'
      BY <2>1, <3>2 DEF RetriedPackets, PacketSound, Packet, FrameSound, WasSent
    <3>5. PICK A \in SUBSET Packets : A = RetriedPackets(d)
      BY <3>3
    <3> QED
      BY <1>1, <2>2, <3>1, <3>4, <3>5, WireStaysSound
  <2> QED
    BY <1>2, <1>3, <2>2, <2>3, <2>4, <2>5, OthersRest
<1> QED
  BY <1>4, <1>5, <1>6, <1>7, <1>8, <1>9 DEF TurnStep

\* A lost packet and a step of nobody keep the invariant.
LEMMA QuietSafe ==
  ASSUME ReliableInvariant, wire' \subseteq wire,
         UNCHANGED <<table, pending, nextId, abandoned, stage, receiving, delivering,
                     sent, outcome, attempts, delivered>>
  PROVE  ReliableInvariant'
<1>1. HistoryGrows /\ \A d \in Nodes : Rests(d)
  BY DEF HistoryGrows, Rests
<1>2. TypeInvariant'
  BY DEF ReliableInvariant, TypeInvariant, TypeOK
<1>3. \A d \in Nodes : LedgerSound(d)'
  BY <1>1, <1>2, LedgerRests DEF ReliableInvariant, TypeInvariant
<1>4. \A d \in Nodes : DeliverySound(d)'
  BY <1>1, DeliveryStaysSound DEF ReliableInvariant, TypeInvariant
<1>5. WireSound'
  BY <1>1, WireShrinksSound DEF ReliableInvariant, TypeInvariant
<1>6. PendingHaveChannels'
  BY DEF ReliableInvariant, PendingHaveChannels, IsPending, Names
<1> QED
  BY <1>2, <1>3, <1>4, <1>5, <1>6 DEF ReliableInvariant

\* Every step of every device keeps the invariant.
LEMMA StepSafe == ReliableInvariant /\ [Next]_vars => ReliableInvariant'
<1> SUFFICES ASSUME ReliableInvariant, [Next]_vars PROVE ReliableInvariant'
  OBVIOUS
<1>1. ASSUME NEW d \in Nodes, UserStep(d) \/ TurnStep(d) PROVE ReliableInvariant'
  BY <1>1, UserSafe, TurnSafe
<1>2. ASSUME NEW packet \in wire, Lose(packet) PROVE ReliableInvariant'
  BY <1>2, QuietSafe DEF Lose, turnVars, history
<1>3. CASE UNCHANGED vars
  BY <1>3, QuietSafe DEF vars
<1> QED
  BY <1>1, <1>2, <1>3 DEF Next

\* The invariant holds in every reachable state.
LEMMA AlwaysSafe == Spec => []ReliableInvariant
BY InitSafe, StepSafe, PTL DEF Spec

----------------------------------------------------------------------------
(* The theorems.                                                            *)

\* Every variable keeps its type (MessagingSystem.h:607-637).
THEOREM TypeCorrect == Spec => []TypeOK
<1>1. ReliableInvariant => TypeOK
  BY DEF ReliableInvariant, TypeInvariant
<1> QED
  BY <1>1, AlwaysSafe, PTL

\* A frame released as acknowledged has been handed to the subscribers of its channel
\* on the device it was sent to, whatever is lost, late, repeated or sent under another
\* channel's name (MessagingSystem_WireReceive.cpp:67-124).
THEOREM AcknowledgedMeansDelivered == Spec => []AcknowledgedWasDelivered
<1>1. ReliableInvariant => AcknowledgedWasDelivered
  BY DEF ReliableInvariant, LedgerSound, Arrived, AcknowledgedWasDelivered
<1> QED
  BY <1>1, AlwaysSafe, PTL

\* Each id given out is in one pending slot until it is acknowledged, abandoned or
\* cancelled, and the abandoned frames are counted (MessagingSystem.cpp:88-109, 140-174).
THEOREM LedgerExact == Spec => []FramesAccounted
<1>1. ReliableInvariant => FramesAccounted
  <2> SUFFICES ASSUME ReliableInvariant, NEW d \in Nodes, NEW i \in Ids
               PROVE  Cardinality({p \in PendingSlots : IsPending(d, p) /\ pending[d][p].id = i})
                        = IF outcome[d][i] = "Pending" THEN 1 ELSE 0
    <3>1. ReliableInvariant => \A d \in Nodes :
            abandoned[d] = Cardinality({i \in Ids : outcome[d][i] = "Abandoned"})
      BY DEF ReliableInvariant, LedgerSound, Abandoned
    <3> QED
      BY <3>1 DEF FramesAccounted
  <2> DEFINE holders == {p \in PendingSlots : IsPending(d, p) /\ pending[d][p].id = i}
  <2>1. LedgerSound(d)
    BY DEF ReliableInvariant
  <2>2. CASE outcome[d][i] = "Pending"
    <3>1. PICK p \in PendingSlots : IsPending(d, p) /\ pending[d][p].id = i
      BY <2>1, <2>2 DEF LedgerSound
    <3>2. holders = {p}
      BY <2>1, <3>1 DEF LedgerSound
    <3>3. Cardinality({p}) = 1
      BY FS_Singleton
    <3> QED
      BY <2>2, <3>2, <3>3
  <2>3. CASE outcome[d][i] # "Pending"
    <3>1. holders = {}
      BY <2>1, <2>3 DEF LedgerSound, FrameSound
    <3> QED
      BY <2>3, <3>1, FS_EmptySet
  <2> QED
    BY <2>2, <2>3
<1> QED
  BY <1>1, AlwaysSafe, PTL

\* The channel of a frame that is still retried exists (MessagingSystem.cpp:257-263).
THEOREM ChannelsOutliveFrames == Spec => []PendingHaveChannels
<1>1. ReliableInvariant => PendingHaveChannels
  BY DEF ReliableInvariant
<1> QED
  BY <1>1, AlwaysSafe, PTL

\* No frame is put on the wire more often than the policy allows, and its slot counts
\* what was sent (MessagingSystem.cpp:88-104, 154-173).
THEOREM AttemptsWithinPolicy == Spec => []AttemptsBounded
<1>1. ReliableInvariant => AttemptsBounded
  BY DEF ReliableInvariant, LedgerSound, FrameSound, AttemptsBounded
<1> QED
  BY <1>1, AlwaysSafe, PTL
=============================================================================
