-------------------------- MODULE MessageDispatch --------------------------
(***************************************************************************)
(* Channels, subscriptions and local delivery of FMessagingSystem.         *)
(*                                                                         *)
(* DeliverToMatchingSubscribers walks the slots and calls each matching    *)
(* subscriber in place.  A subscriber is user code: while it runs it may   *)
(* subscribe, unsubscribe (itself too), create and destroy channels, and   *)
(* send, which starts a delivery inside the delivery.  The call stack of   *)
(* deliveries is therefore part of the state, and every operation can run  *)
(* wherever user code can: between deliveries, or in a running subscriber. *)
(*                                                                         *)
(* Reliable frames, which can also refuse a DestroyChannel, are the state  *)
(* of ReliableMessaging.                                                   *)
(***************************************************************************)
EXTENDS Naturals, Sequences, FiniteSets, FiniteSetsExt

CONSTANTS
    Channels,           \* channel names
    Messages,           \* message names
    Owners,             \* owners a subscription may be bound to
    AnyMessage,         \* the unset message filter
    NoOwner,            \* the ownerless token
    NoChannel,          \* channel of a slot never used
    MaxChannels,        \* channel table size (4 in the code)
    MaxSubscriptions,   \* slots (16 in the code)
    MaxGeneration,      \* largest slot generation (2^16 - 1 in the code)
    MaxSequence,        \* bound: registrations in one run of the program
    MaxDepth            \* bound: deliveries nested in one another

ASSUME DispatchAssumption ==
    /\ AnyMessage \notin Messages
    /\ NoOwner \notin Owners
    /\ NoChannel \notin Channels
    /\ MaxChannels \in Nat \ {0}
    /\ MaxSubscriptions \in Nat \ {0}
    /\ MaxGeneration \in Nat \ {0}
    /\ MaxSequence \in Nat
    /\ MaxDepth \in Nat \ {0}

VARIABLES
    channels,       \* names in the channel table
    slots,          \* SubscriptionSlots
    nextSequence,   \* NextSubscriptionSequence
    dead,           \* owners destroyed so far
    stack,          \* active calls of DeliverToMatchingSubscribers, outermost first
    handles         \* handles given out, each with the registration it is for

vars == <<channels, slots, nextSequence, dead, stack, handles>>

SlotIds == 1..MaxSubscriptions
Sequences == 1..MaxSequence

(***************************************************************************)
(* A slot's sequence names the registration that last used it, and so the  *)
(* callable that lies in it: releasing a slot leaves its callable there.   *)
(***************************************************************************)
EmptySlot ==
    [occupied |-> FALSE, dispatched |-> FALSE, generation |-> 1, sequence |-> 0,
     channel |-> NoChannel, filter |-> AnyMessage, owner |-> NoOwner]

SlotRecords ==
    [occupied: BOOLEAN, dispatched: BOOLEAN, generation: 1..MaxGeneration,
     sequence: {0} \cup Sequences, channel: Channels \cup {NoChannel},
     filter: Messages \cup {AnyMessage}, owner: Owners \cup {NoOwner}]

(***************************************************************************)
(* One active delivery.  A running one is inside the subscriber of the slot*)
(* at its cursor, which it entered as registration callee; called collects *)
(* the registrations it has called (history, for the properties).          *)
(***************************************************************************)
Deliveries ==
    [channel: Channels, message: Messages, start: 1..(MaxSequence + 1),
     cursor: 1..(MaxSubscriptions + 1), running: BOOLEAN,
     callee: {0} \cup Sequences, called: SUBSET Sequences, sends: BOOLEAN]

Handles == [index: SlotIds, generation: 1..MaxGeneration, sequence: Sequences]

Init ==
    /\ channels = {}
    /\ slots = [i \in SlotIds |-> EmptySlot]
    /\ nextSequence = 1
    /\ dead = {}
    /\ stack = <<>>
    /\ handles = {}

Depth == Len(stack)
Top == stack[Depth]

InUserCode == Depth > 0 => Top.running

----------------------------------------------------------------------------
(* Channels.                                                               *)

\* FindChannel and IsFull of the table.
HasRoomFor(c) == c \notin channels /\ Cardinality(channels) < MaxChannels

CreateChannel(c) ==
    /\ InUserCode
    /\ HasRoomFor(c)
    /\ channels' = channels \cup {c}
    /\ UNCHANGED <<slots, nextSequence, dead, stack, handles>>

\* A DestroyChannel that looks at dispatching slots instead of occupied ones.
IsRunning(c) == \E i \in SlotIds : slots[i].dispatched /\ slots[i].channel = c

IsSubscribed(c) == \E i \in SlotIds : slots[i].occupied /\ slots[i].channel = c

DestroyChannel(c) ==
    /\ InUserCode
    /\ c \in channels
    /\ ~IsSubscribed(c)
    /\ channels' = channels \ {c}
    /\ UNCHANGED <<slots, nextSequence, dead, stack, handles>>

----------------------------------------------------------------------------
(* Subscriptions.                                                          *)

IsLive(slot) == slot.owner \notin dead

\* Counts round: 0 is left out, the generation of no handle.
NextGeneration(g) == IF g = MaxGeneration THEN 1 ELSE g + 1

\* A release that leaves the generation of the slot alone.
ReleasedInPlace(slot) == [slot EXCEPT !.occupied = FALSE]

\* ReleaseSubscriptionSlot.
Released(slot) ==
    [slot EXCEPT !.occupied = FALSE, !.generation = NextGeneration(@)]

\* A search that forgets the callables that are running.
IsUnoccupied(slot) == ~slot.occupied

\* The slots FindFreeSubscriptionSlot may choose from.
IsFree(slot) == ~slot.occupied /\ ~slot.dispatched

FreeSlots(table) == {i \in SlotIds : IsFree(table[i])}

\* The table in which SubscribeToChannel searches: only when it is full are
\* the subscriptions of dead owners reclaimed.
SearchedTable ==
    IF FreeSlots(slots) # {} THEN slots
    ELSE [i \in SlotIds |-> IF slots[i].occupied /\ ~IsLive(slots[i])
                            THEN Released(slots[i]) ELSE slots[i]]

Registered(slot, c, f, o) ==
    [slot EXCEPT !.occupied = TRUE, !.sequence = nextSequence,
                 !.channel = c, !.filter = f, !.owner = o]

Subscribe(c, f, o) ==
    /\ InUserCode
    /\ c \in channels
    /\ o \notin dead
    /\ nextSequence <= MaxSequence
    /\ FreeSlots(SearchedTable) # {}
    /\ LET i == Min(FreeSlots(SearchedTable))
       IN  /\ slots' = [SearchedTable EXCEPT ![i] = Registered(@, c, f, o)]
           /\ handles' = handles \cup
                  {[index |-> i, generation |-> SearchedTable[i].generation,
                    sequence |-> nextSequence]}
    /\ nextSequence' = nextSequence + 1
    /\ UNCHANGED <<channels, dead, stack>>

\* SubscribeToChannel returns Full, with dead subscriptions reclaimed all the same.
SubscribeFull ==
    /\ InUserCode
    /\ channels # {}
    /\ FreeSlots(SearchedTable) = {}
    /\ slots' = SearchedTable
    /\ UNCHANGED <<channels, nextSequence, dead, stack, handles>>

Unsubscribe(h) ==
    /\ InUserCode
    /\ slots[h.index].occupied
    /\ slots[h.index].generation = h.generation
    /\ slots' = [slots EXCEPT ![h.index] = Released(@)]
    /\ UNCHANGED <<channels, nextSequence, dead, stack, handles>>

UnsubscribeAll(o) ==
    /\ InUserCode
    /\ slots' = [i \in SlotIds |-> IF slots[i].occupied /\ slots[i].owner = o
                                   THEN Released(slots[i]) ELSE slots[i]]
    /\ UNCHANGED <<channels, nextSequence, dead, stack, handles>>

\* The generation counter an FWeakOwner watches moves on.
OwnerDies(o) ==
    /\ InUserCode
    /\ o \notin dead
    /\ dead' = dead \cup {o}
    /\ UNCHANGED <<channels, slots, nextSequence, stack, handles>>

----------------------------------------------------------------------------
(* Delivery.                                                               *)

\* DeliverMessageLocally, a received frame, or (sends) SendMessageToChannel.
BeginDelivery(c, m, sends) ==
    /\ InUserCode
    /\ Depth < MaxDepth
    /\ c \in channels
    /\ stack' = Append(stack,
           [channel |-> c, message |-> m, start |-> nextSequence, cursor |-> 1,
            running |-> FALSE, callee |-> 0, called |-> {}, sends |-> sends])
    /\ UNCHANGED <<channels, slots, nextSequence, dead, handles>>

SetTop(delivery) == stack' = [stack EXCEPT ![Depth] = delivery]

IsVisiting == Depth > 0 /\ ~Top.running /\ Top.cursor \in SlotIds

Visited == slots[Top.cursor]

\* A walk that does not leave out what was registered since it began.
IsIdleSubscription(slot, delivery) == slot.occupied /\ ~slot.dispatched

IsCandidate(slot, delivery) ==
    slot.occupied /\ ~slot.dispatched /\ slot.sequence < delivery.start

Matches(slot, delivery) ==
    /\ slot.channel = delivery.channel
    /\ slot.filter \in {AnyMessage, delivery.message}

SkipSlot ==
    /\ IsVisiting
    /\ \/ ~IsCandidate(Visited, Top)
       \/ IsLive(Visited) /\ ~Matches(Visited, Top)
    /\ SetTop([Top EXCEPT !.cursor = @ + 1])
    /\ UNCHANGED <<channels, slots, nextSequence, dead, handles>>

ReclaimDeadOwnerSlot ==
    /\ IsVisiting
    /\ IsCandidate(Visited, Top)
    /\ ~IsLive(Visited)
    /\ slots' = [slots EXCEPT ![Top.cursor] = Released(@)]
    /\ SetTop([Top EXCEPT !.cursor = @ + 1])
    /\ UNCHANGED <<channels, nextSequence, dead, handles>>

CallSubscriber ==
    /\ IsVisiting
    /\ IsCandidate(Visited, Top)
    /\ IsLive(Visited)
    /\ Matches(Visited, Top)
    /\ slots' = [slots EXCEPT ![Top.cursor].dispatched = TRUE]
    /\ SetTop([Top EXCEPT !.running = TRUE, !.callee = Visited.sequence,
                          !.called = @ \cup {Visited.sequence}])
    /\ UNCHANGED <<channels, nextSequence, dead, handles>>

SubscriberReturns ==
    /\ Depth > 0
    /\ Top.running
    /\ slots' = [slots EXCEPT ![Top.cursor].dispatched = FALSE]
    /\ SetTop([Top EXCEPT !.running = FALSE, !.callee = 0, !.cursor = @ + 1])
    /\ UNCHANGED <<channels, nextSequence, dead, handles>>

\* SendMessageToChannel goes on to the channel's default route, which no state
\* of this module depends on.
EndDelivery ==
    /\ Depth > 0
    /\ ~Top.running
    /\ Top.cursor > MaxSubscriptions
    /\ stack' = SubSeq(stack, 1, Depth - 1)
    /\ UNCHANGED <<channels, slots, nextSequence, dead, handles>>

(***************************************************************************)
(* SendMessageToChannel looks its channel up again and dereferences the    *)
(* result.  When a subscriber has destroyed the channel that is a null     *)
(* pointer: the program stops and starts over, or reads what lies there and*)
(* returns (EndDelivery).                                                  *)
(***************************************************************************)
NullChannel ==
    /\ Depth > 0
    /\ ~Top.running
    /\ Top.cursor > MaxSubscriptions
    /\ Top.sends
    /\ Top.channel \notin channels
    /\ channels' = {}
    /\ slots' = [i \in SlotIds |-> EmptySlot]
    /\ nextSequence' = 1
    /\ dead' = {}
    /\ stack' = <<>>
    /\ handles' = {}

UserStep ==
    \/ \E c \in Channels : CreateChannel(c) \/ DestroyChannel(c)
    \/ \E c \in Channels, f \in Messages \cup {AnyMessage}, o \in Owners \cup {NoOwner} :
           Subscribe(c, f, o)
    \/ SubscribeFull
    \/ \E h \in handles : Unsubscribe(h)
    \/ \E o \in Owners : UnsubscribeAll(o) \/ OwnerDies(o)
    \/ \E c \in Channels, m \in Messages, sends \in BOOLEAN : BeginDelivery(c, m, sends)

DispatchStep ==
    \/ SkipSlot
    \/ ReclaimDeadOwnerSlot
    \/ CallSubscriber
    \/ SubscriberReturns
    \/ EndDelivery
    \/ NullChannel

Next == UserStep \/ DispatchStep

Spec == Init /\ [][Next]_vars

----------------------------------------------------------------------------
(* Properties.                                                             *)

\* Every variable keeps its type and the table its size (MessagingSystem.h:607-621).
TypeOK ==
    /\ channels \subseteq Channels /\ Cardinality(channels) <= MaxChannels
    /\ slots \in [SlotIds -> SlotRecords]
    /\ nextSequence \in 1..(MaxSequence + 1)
    /\ dead \subseteq Owners
    /\ stack \in Seq(Deliveries) /\ Depth <= MaxDepth
    /\ handles \subseteq Handles

\* No callable is destroyed or replaced while it runs, entered again while it
\* runs, or left marked as running: bIsBeingDispatched is set in exactly the slots
\* of the running subscribers, each of which still holds the callable that was
\* entered (MessagingSystem.cpp:121-132, 401-428).
RunningSubscribersIntact ==
    /\ \A d \in 1..Depth : stack[d].running =>
           slots[stack[d].cursor].sequence = stack[d].callee
    /\ \A d, e \in 1..Depth : stack[d].running /\ stack[e].running
           /\ stack[d].cursor = stack[e].cursor => d = e
    /\ \A i \in SlotIds : slots[i].dispatched
           <=> \E d \in 1..Depth : stack[d].running /\ stack[d].cursor = i

\* Whatever subscribers do to the table while a message goes round, a delivery
\* calls every live registration that matches and was there when it began, except
\* those running further out, and none that came later (MessagingSystem.cpp:401-428).
RunsFurtherOut(i, d) ==
    \E e \in 1..(d - 1) : stack[e].running /\ stack[e].cursor = i

MustHaveBeenCalled(i, d) ==
    /\ i < stack[d].cursor
    /\ slots[i].occupied
    /\ slots[i].sequence < stack[d].start
    /\ IsLive(slots[i])
    /\ Matches(slots[i], stack[d])
    /\ ~RunsFurtherOut(i, d)

DeliveryComplete ==
    \A d \in 1..Depth :
        /\ \A i \in SlotIds : MustHaveBeenCalled(i, d) => slots[i].sequence \in stack[d].called
        /\ \A q \in stack[d].called : q < stack[d].start

\* A handle releases the registration it was given for and no other, until its
\* slot has been registered MaxGeneration (65535) times more and the generation has
\* come round (MessagingSystem.cpp:111-119, 373-388).
UsesSince(h) == Cardinality({g \in handles : g.index = h.index /\ g.sequence > h.sequence})

HandlesNameTheirOwn ==
    \A h \in handles :
        slots[h.index].occupied /\ slots[h.index].generation = h.generation
            => slots[h.index].sequence = h.sequence \/ UsesSince(h) >= MaxGeneration

\* No registration outlives its channel (MessagingSystem.cpp:249-255).
SubscriptionsHaveChannels ==
    \A i \in SlotIds : slots[i].occupied => slots[i].channel \in channels

\* DestroyChannel removes "only an existing channel with no live or dispatching
\* subscriptions" (MessagingSystem.h:170; MessagingSystem.cpp:232-283).
DestroySparesUsedChannels ==
    [][\A c \in Channels : DestroyChannel(c) =>
           \A i \in SlotIds : slots[i].occupied \/ slots[i].dispatched
               => slots[i].channel # c]_vars
=============================================================================
