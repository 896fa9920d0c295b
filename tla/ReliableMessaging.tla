------------------------- MODULE ReliableMessaging -------------------------
(***************************************************************************)
(* Reliable channels of FMessagingSystem on several devices: the table of  *)
(* frames awaiting acknowledgement, retries, acknowledgements, and the     *)
(* channel table they depend on.                                           *)
(*                                                                         *)
(* A device alternates PreAdvance, which receives a bounded number of      *)
(* frames, and PostAdvance, which retries.  User code runs between the     *)
(* two, between turns, and in the subscribers PreAdvance calls; a received *)
(* reliable frame is acknowledged when they have returned.                 *)
(*                                                                         *)
(* Times are ages: a frame is stamped with the time of the latest turn, and*)
(* each PreAdvance adds the time since the last one.  Messages are their   *)
(* ids; best-effort frames, which leave no state behind, are left out.     *)
(***************************************************************************)
EXTENDS Naturals, FiniteSets, FiniteSetsExt

CONSTANTS
    Nodes,              \* devices, each its own route
    Senders,            \* bound: devices whose application sends
    Channels,           \* names of reliable channels
    NoChannel,          \* entry of the channel table never used
    NoFrame,            \* a free entry of the pending table
    NoDelivery,         \* no subscriber is running
    MaxChannels,        \* channel table size (4 in the code)
    MaxPending,         \* pending table size (8 in the code)
    MaxId,              \* ids a device can give out (2^64 - 1 in the code)
    MaxSendAttempts,    \* MaxReliableSendAttempts
    RetryInterval,      \* ReliableRetryIntervalMilliseconds
    ReceiveBudget,      \* MaxReceiveFramesPerDevicePerAdvance
    TurnLengths,        \* bound: times from one turn to the next
    WireCapacity        \* bound: packets in flight at once

ASSUME ReliableAssumption ==
    /\ Senders \subseteq Nodes
    /\ NoChannel \notin Channels
    /\ MaxChannels \in Nat \ {0} /\ MaxPending \in Nat \ {0}
    /\ MaxId \in Nat
    /\ MaxSendAttempts \in Nat
    /\ RetryInterval \in Nat
    /\ ReceiveBudget \in Nat
    /\ TurnLengths \subseteq Nat \ {0}
    /\ WireCapacity \in Nat

VARIABLES
    table,          \* names in the channel table, NoChannel past its end
    pending,        \* ReliablePendingMessages
    nextId,         \* NextReliableMessageId
    abandoned,      \* AbandonedReliableMessageCount
    stage,          \* the lifecycle call that comes next, "Pre" or "Post"
    receiving,      \* receive attempts left in this PreAdvance
    delivering,     \* the reliable frame whose subscribers are running
    wire,           \* packets in flight
    sent,           \* history: what each id was sent as
    outcome,        \* history: what became of each id
    attempts,       \* history: TrySend calls for each id, up to one too many
    delivered       \* history: frames handed to a device's subscribers

turnVars == <<stage, receiving>>
history == <<sent, outcome, attempts, delivered>>
vars == <<table, pending, nextId, abandoned, stage, receiving,
          delivering, wire, sent, outcome, attempts, delivered>>

Entries == 1..MaxChannels
PendingSlots == 1..MaxPending
Ids == 0..(MaxId - 1)
AtLeastOne == IF MaxSendAttempts = 0 THEN 1 ELSE MaxSendAttempts
Outcomes == {"Unsent", "Pending", "Acknowledged", "Abandoned", "Cancelled"}

Frames ==
    [channel: Channels, route: Nodes, id: Ids, sends: Nat \ {0}, age: 0..RetryInterval]
Packets ==
    [type: {"Message", "Acknowledgement"}, from: Nodes, to: Nodes, channel: Channels, id: Ids]
Receptions == [entry: Entries, from: Nodes, id: Ids]

ASSUME AbsenceAssumption == NoFrame \notin Frames /\ NoDelivery \notin Receptions

Init ==
    /\ table = [d \in Nodes |-> [e \in Entries |-> NoChannel]]
    /\ pending = [d \in Nodes |-> [p \in PendingSlots |-> NoFrame]]
    /\ nextId = [d \in Nodes |-> 0]
    /\ abandoned = [d \in Nodes |-> 0]
    /\ stage = [d \in Nodes |-> "Pre"]
    /\ receiving = [d \in Nodes |-> 0]
    /\ delivering = [d \in Nodes |-> NoDelivery]
    /\ wire = {}
    /\ sent = [d \in Nodes |-> [i \in Ids |-> NoFrame]]
    /\ outcome = [d \in Nodes |-> [i \in Ids |-> "Unsent"]]
    /\ attempts = [d \in Nodes |-> [i \in Ids |-> 0]]
    /\ delivered = [d \in Nodes |-> {}]

\* Between lifecycle calls, or in a subscriber of the frame being delivered.
InUserCode(d) == receiving[d] = 0 \/ delivering[d] # NoDelivery

Packet(type, d, to, c, i) ==
    [type |-> type, from |-> d, to |-> to, channel |-> c, id |-> i]

\* TrySend of each packet: the device takes it or refuses it, and it may get lost.
TrySend(packets) ==
    \E taken \in SUBSET packets :
        /\ Cardinality(wire \cup taken) <= WireCapacity
        /\ wire' = wire \cup taken

----------------------------------------------------------------------------
(* The channel table.  DestroyChannel moves the later entries down, so an   *)
(* entry may come to hold another channel, or end up past the end.          *)

FreeEntries(d) == {e \in Entries : table[d][e] = NoChannel}
Names(d) == {table[d][e] : e \in Entries} \ {NoChannel}
EntryOf(d, c) == CHOOSE e \in Entries : table[d][e] = c

CreateChannel(d, c) ==
    /\ InUserCode(d)
    /\ c \notin Names(d)
    /\ FreeEntries(d) # {}
    /\ table' = [table EXCEPT ![d][Min(FreeEntries(d))] = c]
    /\ UNCHANGED <<pending, nextId, abandoned, stage, receiving, delivering, wire, history>>

IsPending(d, p) == pending[d][p] # NoFrame

\* A destruction that is not held up by a frame on its last attempt.
HasNoRetryLeft(d, c) ==
    \A p \in PendingSlots : IsPending(d, p) /\ pending[d][p].channel = c =>
        pending[d][p].sends >= MaxSendAttempts

HasNoPending(d, c) ==
    \A p \in PendingSlots : IsPending(d, p) => pending[d][p].channel # c

\* Subscriptions, which are asked too, are the state of MessageDispatch: here
\* any channel without pending frames may have none.
DestroyChannel(d, c) ==
    /\ InUserCode(d)
    /\ c \in Names(d)
    /\ HasNoPending(d, c)
    /\ table' = [table EXCEPT ![d] =
           [e \in Entries |-> IF e < EntryOf(d, c) THEN table[d][e]
                              ELSE IF e < MaxChannels THEN table[d][e + 1]
                              ELSE NoChannel]]
    /\ UNCHANGED <<pending, nextId, abandoned, stage, receiving, delivering, wire, history>>

----------------------------------------------------------------------------
(* Sending.                                                                 *)

\* A search that takes a slot whether it waits for an acknowledgement or not.
AnySlots(d) == PendingSlots

FreeSlots(d) == {p \in PendingSlots : ~IsPending(d, p)}

HasId(d) == nextId[d] < MaxId

Send(d, c, to) ==
    /\ d \in Senders
    /\ InUserCode(d)
    /\ c \in Names(d)
    /\ HasId(d)
    /\ FreeSlots(d) # {}
    /\ TrySend({Packet("Message", d, to, c, nextId[d])})
    /\ pending' = [pending EXCEPT ![d][Min(FreeSlots(d))] =
           [channel |-> c, route |-> to, id |-> nextId[d], sends |-> 1, age |-> 0]]
    /\ nextId' = [nextId EXCEPT ![d] = @ + 1]
    /\ sent' = [sent EXCEPT ![d][nextId[d]] = [channel |-> c, route |-> to]]
    /\ outcome' = [outcome EXCEPT ![d][nextId[d]] = "Pending"]
    /\ attempts' = [attempts EXCEPT ![d][nextId[d]] = 1]
    /\ UNCHANGED <<table, abandoned, turnVars, delivering, delivered>>

CancelReliableMessagesForChannel(d, c) ==
    /\ InUserCode(d)
    /\ c \in Names(d)
    /\ pending' = [pending EXCEPT ![d] =
           [p \in PendingSlots |-> IF IsPending(d, p) /\ pending[d][p].channel = c
                                   THEN NoFrame ELSE pending[d][p]]]
    /\ outcome' = [outcome EXCEPT ![d] =
           [i \in Ids |-> IF \E p \in PendingSlots : IsPending(d, p)
                              /\ pending[d][p].channel = c /\ pending[d][p].id = i
                          THEN "Cancelled" ELSE outcome[d][i]]]
    /\ UNCHANGED <<table, nextId, abandoned, turnVars, delivering, wire,
                   sent, attempts, delivered>>

----------------------------------------------------------------------------
(* PreAdvance.                                                              *)

Older(frame, elapsed) ==
    [frame EXCEPT !.age = IF @ + elapsed >= RetryInterval THEN RetryInterval ELSE @ + elapsed]

PreAdvance(d, elapsed) ==
    /\ stage[d] = "Pre"
    /\ stage' = [stage EXCEPT ![d] = "Post"]
    /\ receiving' = [receiving EXCEPT ![d] = ReceiveBudget]
    /\ pending' = [pending EXCEPT ![d] =
           [p \in PendingSlots |-> IF IsPending(d, p) THEN Older(pending[d][p], elapsed)
                                   ELSE NoFrame]]
    /\ UNCHANGED <<table, nextId, abandoned, delivering, wire, history>>

\* TryReceive hands over a packet; a copy of it may still be on its way.
TryReceive(d, packet) ==
    /\ receiving[d] > 0
    /\ delivering[d] = NoDelivery
    /\ packet.to = d
    /\ receiving' = [receiving EXCEPT ![d] = @ - 1]
    /\ wire' \in {wire, wire \ {packet}}

\* The device has nothing more for this turn.
EndReceive(d) ==
    /\ receiving[d] > 0
    /\ delivering[d] = NoDelivery
    /\ receiving' = [receiving EXCEPT ![d] = 0]
    /\ UNCHANGED <<table, pending, nextId, abandoned, stage, delivering, wire, history>>

DropFrame(d, packet) ==
    /\ TryReceive(d, packet)
    /\ packet.channel \notin Names(d)
    /\ UNCHANGED <<table, pending, nextId, abandoned, stage, delivering, history>>

\* An acknowledgement that need not name the frame's id.
IsForRoute(frame, packet) ==
    frame # NoFrame /\ frame.channel = packet.channel /\ frame.route = packet.from

IsAcknowledgementOf(frame, packet) ==
    /\ frame # NoFrame
    /\ frame.channel = packet.channel
    /\ frame.route = packet.from
    /\ frame.id = packet.id

ProcessAcknowledgement(d, packet) ==
    /\ packet.type = "Acknowledgement"
    /\ TryReceive(d, packet)
    /\ packet.channel \in Names(d)
    /\ LET found == {p \in PendingSlots : IsAcknowledgementOf(pending[d][p], packet)}
       IN  IF found = {} THEN UNCHANGED <<pending, outcome>>
           ELSE /\ pending' = [pending EXCEPT ![d][Min(found)] = NoFrame]
                /\ outcome' = [outcome EXCEPT ![d][pending[d][Min(found)].id] = "Acknowledged"]
    /\ UNCHANGED <<table, nextId, abandoned, stage, delivering, sent, attempts, delivered>>

ProcessReliableMessage(d, packet) ==
    /\ packet.type = "Message"
    /\ TryReceive(d, packet)
    /\ packet.channel \in Names(d)
    /\ delivering' = [delivering EXCEPT ![d] =
           [entry |-> EntryOf(d, packet.channel), from |-> packet.from, id |-> packet.id]]
    /\ delivered' = [delivered EXCEPT ![d] = @ \cup {packet}]
    /\ UNCHANGED <<table, pending, nextId, abandoned, stage, sent, outcome, attempts>>

\* The name an entry of the table holds; past the end lie the bytes of some
\* channel that was there before.
NamesAt(d, e) == IF table[d][e] = NoChannel THEN Channels ELSE {table[d][e]}

\* The acknowledgement names what the entry of the channel holds by now.
SendAcknowledgement(d) ==
    /\ delivering[d] # NoDelivery
    /\ \E c \in NamesAt(d, delivering[d].entry) :
           TrySend({Packet("Acknowledgement", d, delivering[d].from, c, delivering[d].id)})
    /\ delivering' = [delivering EXCEPT ![d] = NoDelivery]
    /\ UNCHANGED <<table, pending, nextId, abandoned, turnVars, history>>

----------------------------------------------------------------------------
(* PostAdvance.                                                             *)

IsExhausted(frame) == frame.sends >= MaxSendAttempts

\* A retry that does not count.
Restamped(frame) == [frame EXCEPT !.age = 0]

Resent(frame) == [frame EXCEPT !.sends = @ + 1, !.age = 0]

IsDue(d, p) == IsPending(d, p) /\ pending[d][p].age >= RetryInterval
Exhausted(d) == {p \in PendingSlots : IsDue(d, p) /\ IsExhausted(pending[d][p])}
Retried(d) == {p \in PendingSlots : IsDue(d, p) /\ ~IsExhausted(pending[d][p])}
IdsIn(d, P) == {pending[d][p].id : p \in P}

PostAdvance(d) ==
    /\ stage[d] = "Post"
    /\ receiving[d] = 0
    /\ delivering[d] = NoDelivery
    /\ stage' = [stage EXCEPT ![d] = "Pre"]
    /\ TrySend({Packet("Message", d, pending[d][p].route, pending[d][p].channel,
                       pending[d][p].id) : p \in Retried(d)})
    /\ pending' = [pending EXCEPT ![d] =
           [p \in PendingSlots |->
               IF p \in Exhausted(d) THEN NoFrame
               ELSE IF p \in Retried(d) THEN Resent(pending[d][p])
               ELSE pending[d][p]]]
    /\ abandoned' = [abandoned EXCEPT ![d] = @ + Cardinality(Exhausted(d))]
    /\ outcome' = [outcome EXCEPT ![d] =
           [i \in Ids |-> IF i \in IdsIn(d, Exhausted(d)) THEN "Abandoned" ELSE outcome[d][i]]]
    /\ attempts' = [attempts EXCEPT ![d] =
           [i \in Ids |-> IF i \in IdsIn(d, Retried(d)) /\ attempts[d][i] <= AtLeastOne
                          THEN attempts[d][i] + 1 ELSE attempts[d][i]]]
    /\ UNCHANGED <<table, nextId, receiving, delivering, sent, delivered>>

Lose(packet) ==
    /\ wire' = wire \ {packet}
    /\ UNCHANGED <<table, pending, nextId, abandoned, turnVars, delivering, history>>

UserStep(d) ==
    \/ \E c \in Channels : CreateChannel(d, c) \/ DestroyChannel(d, c)
    \/ \E c \in Channels, to \in Nodes \ {d} : Send(d, c, to)
    \/ \E c \in Channels : CancelReliableMessagesForChannel(d, c)

TurnStep(d) ==
    \/ \E elapsed \in TurnLengths : PreAdvance(d, elapsed)
    \/ EndReceive(d)
    \/ \E packet \in wire : DropFrame(d, packet) \/ ProcessAcknowledgement(d, packet)
                            \/ ProcessReliableMessage(d, packet)
    \/ SendAcknowledgement(d)
    \/ PostAdvance(d)

Next ==
    \/ \E d \in Nodes : UserStep(d) \/ TurnStep(d)
    \/ \E packet \in wire : Lose(packet)

Spec == Init /\ [][Next]_vars

(***************************************************************************)
(* The application loop never stops taking turns, a turn ends, and the     *)
(* subscribers of a frame return.                                          *)
(***************************************************************************)
Fairness == \A d \in Nodes : WF_vars(TurnStep(d))

FairSpec == Spec /\ Fairness

----------------------------------------------------------------------------
(* Properties.                                                             *)

\* Every variable keeps its type (MessagingSystem.h:607-637).
TypeOK ==
    /\ table \in [Nodes -> [Entries -> Channels \cup {NoChannel}]]
    /\ pending \in [Nodes -> [PendingSlots -> Frames \cup {NoFrame}]]
    /\ nextId \in [Nodes -> 0..MaxId]
    /\ abandoned \in [Nodes -> Nat]
    /\ stage \in [Nodes -> {"Pre", "Post"}]
    /\ receiving \in [Nodes -> 0..ReceiveBudget]
    /\ delivering \in [Nodes -> Receptions \cup {NoDelivery}]
    /\ wire \subseteq Packets
    /\ outcome \in [Nodes -> [Ids -> Outcomes]]
    /\ attempts \in [Nodes -> [Ids -> 0..(AtLeastOne + 1)]]
    /\ delivered \in [Nodes -> SUBSET Packets]

\* A frame is released as acknowledged only when the device it was sent to has
\* handed it to the subscribers of its channel, although acknowledgements arrive
\* late, twice, or under the name of another channel, and pending slots are used
\* again (MessagingSystem_WireReceive.cpp:67-124).
AcknowledgedWasDelivered ==
    \A d \in Nodes, i \in Ids : outcome[d][i] = "Acknowledged" =>
        Packet("Message", d, sent[d][i].route, sent[d][i].channel, i)
            \in delivered[sent[d][i].route]

\* No reliable frame is lost by the sender: each id given out is in exactly one
\* pending slot until it is acknowledged, abandoned or cancelled, and the count of
\* abandoned frames is exact (MessagingSystem.cpp:88-109, 140-174, 285-301).
FramesAccounted ==
    \A d \in Nodes :
        /\ \A i \in Ids :
            Cardinality({p \in PendingSlots : IsPending(d, p) /\ pending[d][p].id = i})
                = IF outcome[d][i] = "Pending" THEN 1 ELSE 0
        /\ abandoned[d] = Cardinality({i \in Ids : outcome[d][i] = "Abandoned"})

\* The channel of a frame that is still retried exists (MessagingSystem.cpp:257-263).
PendingHaveChannels ==
    \A d \in Nodes, p \in PendingSlots : IsPending(d, p) => pending[d][p].channel \in Names(d)

\* No frame is put on the wire more often than the policy allows, and what its
\* slot counts is what was sent (MessagingSystem.cpp:88-104, 154-173).
AttemptsBounded ==
    \A d \in Nodes :
        /\ \A i \in Ids : attempts[d][i] <= AtLeastOne
        /\ \A p \in PendingSlots : IsPending(d, p) =>
               attempts[d][pending[d][p].id] = pending[d][p].sends

\* Every reliable frame leaves the table in the end, whatever is lost and whoever
\* is gone (MessagingSystem.cpp:140-174, 552-559).
PendingEnds ==
    \A d \in Senders, i \in Ids : outcome[d][i] = "Pending" ~> outcome[d][i] # "Pending"
=============================================================================
