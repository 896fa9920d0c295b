----------------------- MODULE MessageDispatch_proofs -----------------------
(***************************************************************************)
(* Proofs about MessageDispatch for any number of channels, slots, owners  *)
(* and registrations and any depth of nesting.                             *)
(*                                                                         *)
(* Almost everything a subscriber can do to the tables has one of two      *)
(* effects on a slot: it leaves the registration there, at most releasing  *)
(* it (KeepsRegistration), or it registers anew in a slot nothing runs in  *)
(* (Registers).  The proofs are about these effects.                       *)
(***************************************************************************)
EXTENDS MessageDispatch, TableLemmas, SequenceTheorems

KeepsRegistration(i) ==
    /\ slots'[i].sequence = slots[i].sequence
    /\ slots'[i].channel = slots[i].channel
    /\ slots'[i].filter = slots[i].filter
    /\ slots'[i].owner = slots[i].owner
    /\ slots'[i].occupied => slots[i].occupied

Registers(i) ==
    /\ ~slots[i].dispatched
    /\ slots'[i].sequence = nextSequence
    /\ nextSequence \in Sequences

\* What user code does while the deliveries stand still.
UserMoves ==
    /\ stack' = stack
    /\ nextSequence <= nextSequence'
    /\ dead \subseteq dead'
    /\ \A i \in SlotIds :
        /\ slots'[i].dispatched = slots[i].dispatched
        /\ KeepsRegistration(i) \/ Registers(i)

\* A running delivery is at a slot, has noted whom it called, and no delivery
\* began with registrations yet to come.
StackSound ==
    \A d \in 1..Depth :
        /\ stack[d].running => stack[d].cursor \in SlotIds /\ stack[d].callee \in stack[d].called
        /\ stack[d].start <= nextSequence

TypeInvariant == TypeOK /\ IsFiniteSet(channels)

\* A registration has a number.
Numbered == \A i \in SlotIds : slots[i].occupied => slots[i].sequence \in Sequences

DispatchInvariant ==
    TypeInvariant /\ Numbered /\ StackSound /\ RunningSubscribersIntact /\ DeliveryComplete

----------------------------------------------------------------------------
(* Slots and stacks.                                                       *)

\* ReleaseSubscriptionSlot keeps the record's type and touches nothing but the
\* occupation and the generation.
LEMMA ReleasedSlot ==
  ASSUME NEW slot \in SlotRecords
  PROVE  /\ Released(slot) \in SlotRecords
         /\ Released(slot).occupied = FALSE
         /\ Released(slot).generation = NextGeneration(slot.generation)
         /\ Released(slot).dispatched = slot.dispatched
         /\ Released(slot).sequence = slot.sequence
         /\ Released(slot).channel = slot.channel
         /\ Released(slot).filter = slot.filter
         /\ Released(slot).owner = slot.owner
<1>1. NextGeneration(slot.generation) \in 1..MaxGeneration
  BY DispatchAssumption DEF DispatchAssumption, SlotRecords, NextGeneration
<1> QED
  BY <1>1 DEF SlotRecords, Released

\* The table SubscribeToChannel searches differs from the present one only in
\* released slots.
LEMMA SearchedSlots ==
  ASSUME slots \in [SlotIds -> SlotRecords]
  PROVE  /\ SearchedTable \in [SlotIds -> SlotRecords]
         /\ \A i \in SlotIds :
              \/ SearchedTable[i] = slots[i]
              \/ slots[i].occupied /\ SearchedTable[i] = Released(slots[i])
BY ReleasedSlot DEF SearchedTable

\* The slot SubscribeToChannel takes is free.
LEMMA FreeSlotChosen ==
  ASSUME NEW T, FreeSlots(T) # {}
  PROVE  Min(FreeSlots(T)) \in SlotIds /\ IsFree(T[Min(FreeSlots(T))])
<1>1. FreeSlots(T) \subseteq SlotIds /\ SlotIds \subseteq Nat
  BY DEF FreeSlots, SlotIds
<1>2. IsFiniteSet(FreeSlots(T))
  BY <1>1, FS_Interval, FS_Subset, DispatchAssumption DEF SlotIds, DispatchAssumption
<1>3. Min(FreeSlots(T)) \in FreeSlots(T)
  BY <1>1, <1>2, MinIsLeast
<1> QED
  BY <1>1, <1>3 DEF FreeSlots

\* The parts of TypeOK the steps work with.
LEMMA Types ==
  ASSUME TypeOK
  PROVE  /\ slots \in [SlotIds -> SlotRecords]
         /\ stack \in Seq(Deliveries) /\ Depth \in Nat /\ Depth <= MaxDepth
         /\ nextSequence \in 1..(MaxSequence + 1)
         /\ Depth > 0 => Top \in Deliveries
BY DEF TypeOK, Depth, Top

\* The walk of the innermost delivery goes on.
LEMMA TopMoves ==
  ASSUME stack \in Seq(Deliveries), Depth > 0, NEW delivery \in Deliveries, SetTop(delivery)
  PROVE  /\ stack' \in Seq(Deliveries)
         /\ Depth' = Depth
         /\ stack'[Depth] = delivery
         /\ \A d \in 1..Depth : d # Depth => stack'[d] = stack[d]
BY DEF SetTop, Depth

\* A delivery begins inside the others.
LEMMA DeliveryPushed ==
  ASSUME stack \in Seq(Deliveries), NEW delivery \in Deliveries, stack' = Append(stack, delivery)
  PROVE  /\ stack' \in Seq(Deliveries)
         /\ Depth' = Depth + 1
         /\ stack'[Depth + 1] = delivery
         /\ \A d \in 1..Depth : stack'[d] = stack[d]
BY DEF Depth

\* A sequence without its last element.
LEMMA FrontOfSequence ==
  ASSUME NEW S, NEW s \in Seq(S), Len(s) > 0, NEW n, n = Len(s) - 1
  PROVE  /\ SubSeq(s, 1, n) \in Seq(S)
         /\ Len(SubSeq(s, 1, n)) = n
         /\ \A d \in 1..n : SubSeq(s, 1, n)[d] = s[d]
<1>1. n \in Nat /\ n < Len(s) /\ Len(s) \in Nat
  OBVIOUS
<1>2. 1 \in 1..(Len(s) + 1) /\ n \in 0..Len(s)
  BY <1>1
<1> QED
  BY <1>1, <1>2, SubSeqProperties

\* The innermost delivery ends.
LEMMA DeliveryPopped ==
  ASSUME stack \in Seq(Deliveries), Depth > 0, stack' = SubSeq(stack, 1, Depth - 1)
  PROVE  /\ stack' \in Seq(Deliveries)
         /\ Depth' = Depth - 1
         /\ \A d \in 1..(Depth - 1) : stack'[d] = stack[d]
<1>1. PICK n : n = Len(stack) - 1
  OBVIOUS
<1>2. /\ SubSeq(stack, 1, n) \in Seq(Deliveries)
      /\ Len(SubSeq(stack, 1, n)) = n
      /\ \A d \in 1..n : SubSeq(stack, 1, n)[d] = stack[d]
  BY <1>1, FrontOfSequence DEF Depth
<1>3. stack' = SubSeq(stack, 1, n)
  BY <1>1 DEF Depth
<1> QED
  BY <1>1, <1>2, <1>3, Zenon DEF Depth

----------------------------------------------------------------------------
(* Type correctness.                                                       *)

\* The parts of a registration belong to the record.
LEMMA RegisteredSlot ==
  ASSUME NEW slot \in SlotRecords, NEW c \in Channels, NEW f \in Messages \cup {AnyMessage},
         NEW o \in Owners \cup {NoOwner}, nextSequence \in Sequences
  PROVE  /\ Registered(slot, c, f, o) \in SlotRecords
         /\ Registered(slot, c, f, o).occupied
         /\ Registered(slot, c, f, o).dispatched = slot.dispatched
         /\ Registered(slot, c, f, o).generation = slot.generation
         /\ Registered(slot, c, f, o).sequence = nextSequence
         /\ Registered(slot, c, f, o).channel = c
BY DEF SlotRecords, Registered

\* A table with one more record written into it.
LEMMA TableUpdate ==
  ASSUME NEW T \in [SlotIds -> SlotRecords], NEW k \in SlotIds, NEW r \in SlotRecords
  PROVE  /\ [T EXCEPT ![k] = r] \in [SlotIds -> SlotRecords]
         /\ [T EXCEPT ![k] = r][k] = r
         /\ \A i \in SlotIds : i # k => [T EXCEPT ![k] = r][i] = T[i]
OBVIOUS

\* The table of channels stays within its capacity.
LEMMA ChannelsTyped ==
  ASSUME TypeInvariant, NEW c \in Channels, CreateChannel(c) \/ DestroyChannel(c)
  PROVE  channels' \subseteq Channels /\ Cardinality(channels') <= MaxChannels /\ IsFiniteSet(channels')
<1>1. IsFiniteSet(channels) /\ Cardinality(channels) \in Nat /\ MaxChannels \in Nat
      /\ channels \subseteq Channels /\ Cardinality(channels) <= MaxChannels
  BY FS_CardinalityType, DispatchAssumption DEF TypeInvariant, TypeOK, DispatchAssumption
<1>2. CASE CreateChannel(c)
  BY <1>1, <1>2, FS_AddElement DEF CreateChannel, HasRoomFor
<1>3. CASE DestroyChannel(c)
  <2>1. channels' = channels \ {c} /\ c \in channels
    BY <1>3 DEF DestroyChannel
  <2>2. IsFiniteSet(channels') /\ Cardinality(channels') = Cardinality(channels) - 1
    BY <1>1, <2>1, FS_RemoveElement
  <2> QED
    BY <1>1, <2>1, <2>2
<1> QED
  BY <1>2, <1>3

\* The records and the counter a program starts with.
LEMMA EmptyTyped == EmptySlot \in SlotRecords /\ 0 \notin Sequences /\ 1 \in 1..(MaxSequence + 1)
BY DispatchAssumption DEF EmptySlot, SlotRecords, Sequences, DispatchAssumption

\* A program that starts has its tables empty.
LEMMA InitTyped == Init => TypeInvariant
<1> SUFFICES ASSUME Init PROVE TypeInvariant
  OBVIOUS
<1>1. channels = {} /\ IsFiniteSet(channels) /\ Cardinality(channels) <= MaxChannels
  BY FS_EmptySet, DispatchAssumption DEF Init, DispatchAssumption
<1>2. slots \in [SlotIds -> SlotRecords] /\ nextSequence \in 1..(MaxSequence + 1)
  BY EmptyTyped DEF Init
<1>3. stack \in Seq(Deliveries) /\ Depth <= MaxDepth
  BY DispatchAssumption DEF Init, Depth, DispatchAssumption
<1> QED
  BY <1>1, <1>2, <1>3 DEF Init, TypeInvariant, TypeOK

\* Whatever a subscriber does keeps the types.
LEMMA UserTyped ==
  ASSUME TypeInvariant, UserStep PROVE TypeInvariant'
<1> USE DEF TypeInvariant
<1>0. slots \in [SlotIds -> SlotRecords] /\ stack \in Seq(Deliveries)
  BY Types
<1>1. ASSUME NEW c \in Channels, CreateChannel(c) \/ DestroyChannel(c) PROVE TypeInvariant'
  <2>1. channels' \subseteq Channels /\ Cardinality(channels') <= MaxChannels /\ IsFiniteSet(channels')
    BY <1>1, ChannelsTyped
  <2>2. UNCHANGED <<slots, nextSequence, dead, stack, handles>>
    BY <1>1 DEF CreateChannel, DestroyChannel
  <2> QED
    BY <2>1, <2>2 DEF TypeOK, Depth
<1>2. ASSUME NEW c \in Channels, NEW f \in Messages \cup {AnyMessage},
             NEW o \in Owners \cup {NoOwner}, Subscribe(c, f, o)
      PROVE  TypeInvariant'
  <2> DEFINE k == Min(FreeSlots(SearchedTable))
  <2>1. nextSequence \in Sequences /\ nextSequence' \in 1..(MaxSequence + 1)
    BY <1>2, Types, DispatchAssumption DEF Subscribe, Sequences, DispatchAssumption
  <2>2. SearchedTable \in [SlotIds -> SlotRecords] /\ k \in SlotIds
    BY <1>0, <1>2, SearchedSlots, FreeSlotChosen DEF Subscribe
  <2>3. slots' = [SearchedTable EXCEPT ![k] = Registered(SearchedTable[k], c, f, o)]
    BY <1>2, <2>2 DEF Subscribe
  <2>4. Registered(SearchedTable[k], c, f, o) \in SlotRecords
    BY <2>1, <2>2, RegisteredSlot
  <2>5. slots' \in [SlotIds -> SlotRecords]
    BY <2>2, <2>3, <2>4, TableUpdate
  <2>6. [index |-> k, generation |-> SearchedTable[k].generation, sequence |-> nextSequence] \in Handles
    BY <2>1, <2>2 DEF Handles, SlotRecords
  <2>7. handles' \subseteq Handles
    BY <1>2, <2>6 DEF Subscribe, TypeOK
  <2> QED
    BY <1>2, <2>1, <2>5, <2>7 DEF Subscribe, TypeOK, Depth
<1>3. ASSUME slots' \in [SlotIds -> SlotRecords],
             UNCHANGED <<channels, nextSequence, dead, stack, handles>>
      PROVE  TypeInvariant'
  BY <1>3 DEF TypeOK, Depth
<1>4. ASSUME SubscribeFull PROVE TypeInvariant'
  BY <1>0, <1>3, <1>4, SearchedSlots DEF SubscribeFull
<1>5. ASSUME NEW h \in handles, Unsubscribe(h) PROVE TypeInvariant'
  <2>1. h.index \in SlotIds
    BY DEF TypeOK, Handles
  <2>2. slots' = [slots EXCEPT ![h.index] = Released(slots[h.index])]
    BY <1>0, <1>5, <2>1 DEF Unsubscribe
  <2>3. slots' \in [SlotIds -> SlotRecords]
    BY <1>0, <2>1, <2>2, ReleasedSlot, TableUpdate
  <2> QED
    BY <1>3, <1>5, <2>3 DEF Unsubscribe
<1>6. ASSUME NEW o \in Owners, UnsubscribeAll(o) PROVE TypeInvariant'
  <2>1. slots' \in [SlotIds -> SlotRecords]
    BY <1>0, <1>6, ReleasedSlot DEF UnsubscribeAll
  <2> QED
    BY <1>3, <1>6, <2>1 DEF UnsubscribeAll
<1>7. ASSUME NEW o \in Owners, OwnerDies(o) PROVE TypeInvariant'
  BY <1>7 DEF OwnerDies, TypeOK, Depth
<1>8. ASSUME NEW c \in Channels, NEW m \in Messages, NEW sends \in BOOLEAN,
             BeginDelivery(c, m, sends)
      PROVE  TypeInvariant'
  <2> DEFINE delivery ==
        [channel |-> c, message |-> m, start |-> nextSequence, cursor |-> 1,
         running |-> FALSE, callee |-> 0, called |-> {}, sends |-> sends]
  <2>1. delivery \in Deliveries
    BY Types, DispatchAssumption DEF Deliveries, DispatchAssumption
  <2>2. stack' = Append(stack, delivery) /\ Depth < MaxDepth
    BY <1>8 DEF BeginDelivery
  <2> HIDE DEF delivery
  <2>3. stack' \in Seq(Deliveries) /\ Depth' = Depth + 1
    BY <1>0, <2>1, <2>2, DeliveryPushed
  <2>4. Depth' <= MaxDepth
    BY <2>2, <2>3, Types, DispatchAssumption DEF DispatchAssumption
  <2> QED
    BY <1>8, <2>3, <2>4 DEF BeginDelivery, TypeOK
<1> QED
  BY <1>1, <1>2, <1>4, <1>5, <1>6, <1>7, <1>8 DEF UserStep

\* The innermost delivery takes a step of its walk.
LEMMA WalkTyped ==
  ASSUME TypeInvariant, Depth > 0, NEW delivery \in Deliveries, SetTop(delivery),
         slots' \in [SlotIds -> SlotRecords],
         UNCHANGED <<channels, nextSequence, dead, handles>>
  PROVE  TypeInvariant'
<1>1. stack' \in Seq(Deliveries) /\ Depth' = Depth
  BY Types, TopMoves DEF TypeInvariant
<1> QED
  BY <1>1 DEF TypeInvariant, TypeOK

\* The innermost delivery with its cursor at the next slot.
LEMMA CursorMoves ==
  ASSUME TypeOK, Depth > 0, Top.cursor \in SlotIds
  PROVE  /\ [Top EXCEPT !.cursor = @ + 1] \in Deliveries
         /\ [Top EXCEPT !.running = FALSE, !.callee = 0, !.cursor = @ + 1] \in Deliveries
<1>1. Top \in Deliveries
  BY Types
<1>2. Top.cursor + 1 \in 1..(MaxSubscriptions + 1)
  BY DispatchAssumption DEF SlotIds, DispatchAssumption
<1> QED
  BY <1>1, <1>2 DEF Deliveries

\* The innermost delivery as it enters the subscriber of registration q.
LEMMA CalleeEntered ==
  ASSUME TypeOK, Depth > 0, NEW q \in Sequences
  PROVE  [Top EXCEPT !.running = TRUE, !.callee = q, !.called = @ \cup {q}] \in Deliveries
<1>1. Top \in Deliveries
  BY Types
<1> QED
  BY <1>1 DEF Deliveries

----------------------------------------------------------------------------
(* What the steps do to the slots.                                         *)

\* A released slot keeps its registration.
LEMMA ReleaseKeeps ==
  ASSUME slots \in [SlotIds -> SlotRecords], NEW i \in SlotIds,
         slots'[i] = slots[i] \/ (slots[i].occupied /\ slots'[i] = Released(slots[i]))
  PROVE  slots'[i].dispatched = slots[i].dispatched /\ KeepsRegistration(i)
<1>1. slots[i] \in SlotRecords
  OBVIOUS
<1> QED
  BY <1>1, ReleasedSlot DEF KeepsRegistration

\* User code moves the tables, or begins a delivery.
LEMMA UserStepMoves ==
  ASSUME TypeOK, UserStep
  PROVE  \/ UserMoves
         \/ \E c \in Channels, m \in Messages, sends \in BOOLEAN : BeginDelivery(c, m, sends)
<1>0. slots \in [SlotIds -> SlotRecords] /\ nextSequence \in Nat
  BY Types, DispatchAssumption DEF DispatchAssumption
<1>1. ASSUME stack' = stack, nextSequence' = nextSequence, dead \subseteq dead',
             \A i \in SlotIds :
                 slots'[i] = slots[i] \/ (slots[i].occupied /\ slots'[i] = Released(slots[i]))
      PROVE  UserMoves
  BY <1>0, <1>1, ReleaseKeeps DEF UserMoves
<1>2. ASSUME NEW c \in Channels, CreateChannel(c) \/ DestroyChannel(c) PROVE UserMoves
  BY <1>1, <1>2 DEF CreateChannel, DestroyChannel
<1>3. ASSUME NEW c \in Channels, NEW f \in Messages \cup {AnyMessage},
             NEW o \in Owners \cup {NoOwner}, Subscribe(c, f, o)
      PROVE  UserMoves
  <2> DEFINE k == Min(FreeSlots(SearchedTable))
  <2>1. SearchedTable \in [SlotIds -> SlotRecords] /\ k \in SlotIds /\ IsFree(SearchedTable[k])
    BY <1>0, <1>3, SearchedSlots, FreeSlotChosen DEF Subscribe
  <2>2. \A i \in SlotIds :
          \/ SearchedTable[i] = slots[i]
          \/ slots[i].occupied /\ SearchedTable[i] = Released(slots[i])
    BY <1>0, SearchedSlots
  <2>3. slots' = [SearchedTable EXCEPT ![k] = Registered(SearchedTable[k], c, f, o)]
    BY <1>3, <2>1 DEF Subscribe
  <2>4. slots'[k] = Registered(SearchedTable[k], c, f, o)
        /\ \A i \in SlotIds : i # k => slots'[i] = SearchedTable[i]
    BY <2>1, <2>3
  <2>5. nextSequence \in Sequences
    BY <1>3, Types, DispatchAssumption DEF Subscribe, Sequences, DispatchAssumption
  <2> HIDE DEF k
  <2>6. \A i \in SlotIds : i # k =>
          slots'[i].dispatched = slots[i].dispatched /\ KeepsRegistration(i)
    BY <1>0, <2>2, <2>4, ReleaseKeeps
  <2>7. ~SearchedTable[k].dispatched /\ SearchedTable[k].dispatched = slots[k].dispatched
    BY <1>0, <2>1, <2>2, ReleasedSlot DEF IsFree
  <2>8. slots'[k].dispatched = SearchedTable[k].dispatched /\ slots'[k].sequence = nextSequence
    BY <2>1, <2>4, <2>5, RegisteredSlot
  <2>9. slots'[k].dispatched = slots[k].dispatched /\ Registers(k)
    BY <2>5, <2>7, <2>8 DEF Registers
  <2> QED
    BY <1>0, <1>3, <2>6, <2>9 DEF Subscribe, UserMoves
<1>4. ASSUME SubscribeFull PROVE UserMoves
  BY <1>0, <1>1, <1>4, SearchedSlots DEF SubscribeFull
<1>5. ASSUME NEW h \in handles, Unsubscribe(h) PROVE UserMoves
  <2>1. h.index \in SlotIds
    BY DEF TypeOK, Handles
  <2>2. \A i \in SlotIds :
          slots'[i] = slots[i] \/ (slots[i].occupied /\ slots'[i] = Released(slots[i]))
    BY <1>0, <1>5, <2>1 DEF Unsubscribe
  <2> QED
    BY <1>1, <1>5, <2>2 DEF Unsubscribe
<1>6. ASSUME NEW o \in Owners, UnsubscribeAll(o) PROVE UserMoves
  BY <1>0, <1>1, <1>6 DEF UnsubscribeAll
<1>7. ASSUME NEW o \in Owners, OwnerDies(o) PROVE UserMoves
  BY <1>1, <1>7 DEF OwnerDies
<1> QED
  BY <1>2, <1>3, <1>4, <1>5, <1>6, <1>7 DEF UserStep

\* User code leaves registrations numbered.
LEMMA UserNumbered ==
  ASSUME TypeOK, Numbered, UserStep PROVE Numbered'
<1>1. CASE UserMoves
  <2> SUFFICES ASSUME NEW i \in SlotIds, slots'[i].occupied
               PROVE  slots'[i].sequence \in Sequences
    BY DEF Numbered
  <2>1. CASE KeepsRegistration(i)
    BY <2>1 DEF KeepsRegistration, Numbered
  <2>2. CASE Registers(i)
    BY <2>2 DEF Registers
  <2> QED
    BY <1>1, <2>1, <2>2 DEF UserMoves
<1>2. CASE \E c \in Channels, m \in Messages, sends \in BOOLEAN : BeginDelivery(c, m, sends)
  BY <1>2 DEF BeginDelivery, Numbered
<1> QED
  BY <1>1, <1>2, UserStepMoves

----------------------------------------------------------------------------
(* Running subscribers and complete deliveries.                            *)

\* What a delivery that has begun owes to the registration in slot i.
Complete(i, d) == MustHaveBeenCalled(i, d) => slots[i].sequence \in stack[d].called

\* User code disturbs no delivery.
LEMMA UserMovesSafe ==
  ASSUME DispatchInvariant, UserMoves, nextSequence' \in Nat
  PROVE  StackSound' /\ RunningSubscribersIntact' /\ DeliveryComplete'
<1>0. /\ stack' = stack /\ Depth' = Depth /\ Depth \in Nat
      /\ stack \in Seq(Deliveries) /\ \A d \in 1..Depth : stack[d] \in Deliveries
      /\ nextSequence \in Nat
      /\ \A d \in 1..Depth : stack[d].start \in Nat /\ stack[d].start <= nextSequence
  <2>1. stack \in Seq(Deliveries) /\ nextSequence \in Nat /\ stack' = stack
    BY Types, DispatchAssumption DEF DispatchInvariant, TypeInvariant, DispatchAssumption, UserMoves
  <2>2. \A d \in 1..Depth : stack[d] \in Deliveries
    BY <2>1 DEF Depth
  <2>3. \A d \in 1..Depth : stack[d].start \in Nat
    BY <2>2, DispatchAssumption DEF Deliveries, DispatchAssumption
  <2>4. \A d \in 1..Depth : stack[d].start <= nextSequence
    BY DEF DispatchInvariant, StackSound
  <2> QED
    BY <2>1, <2>2, <2>3, <2>4 DEF Depth
<1>1. StackSound'
  <2> SUFFICES ASSUME NEW d \in 1..Depth
               PROVE  /\ stack[d].running =>
                           stack[d].cursor \in SlotIds /\ stack[d].callee \in stack[d].called
                      /\ stack[d].start <= nextSequence'
    BY <1>0 DEF StackSound
  <2> QED
    BY <1>0 DEF DispatchInvariant, StackSound, UserMoves
<1>2. RunningSubscribersIntact'
  <2>1. \A d \in 1..Depth : stack[d].running => slots'[stack[d].cursor].sequence = stack[d].callee
    <3> SUFFICES ASSUME NEW d \in 1..Depth, stack[d].running
                 PROVE  slots'[stack[d].cursor].sequence = stack[d].callee
      OBVIOUS
    <3> DEFINE i == stack[d].cursor
    <3>1. i \in SlotIds /\ slots[i].dispatched /\ slots[i].sequence = stack[d].callee
      BY DEF DispatchInvariant, StackSound, RunningSubscribersIntact
    <3>2. KeepsRegistration(i)
      BY <3>1 DEF UserMoves, Registers
    <3> QED
      BY <3>1, <3>2 DEF KeepsRegistration
  <2>2. \A i \in SlotIds : slots'[i].dispatched
          <=> \E d \in 1..Depth : stack[d].running /\ stack[d].cursor = i
    BY DEF DispatchInvariant, RunningSubscribersIntact, UserMoves
  <2>3. \A d, e \in 1..Depth : stack[d].running /\ stack[e].running
           /\ stack[d].cursor = stack[e].cursor => d = e
    BY DEF DispatchInvariant, RunningSubscribersIntact
  <2> QED
    BY <1>0, <2>1, <2>2, <2>3 DEF RunningSubscribersIntact
<1>3. ASSUME NEW d \in 1..Depth, NEW i \in SlotIds PROVE Complete(i, d)'
  <2> SUFFICES ASSUME MustHaveBeenCalled(i, d)' PROVE slots'[i].sequence \in stack[d].called
    BY <1>0 DEF Complete
  <2>1. ~Registers(i)
    BY <1>0 DEF MustHaveBeenCalled, Registers
  <2>2. KeepsRegistration(i)
    BY <2>1 DEF UserMoves
  <2>3. IsLive(slots[i])
    BY <2>2 DEF MustHaveBeenCalled, IsLive, KeepsRegistration, UserMoves
  <2>4. Matches(slots[i], stack[d])
    BY <1>0, <2>2 DEF MustHaveBeenCalled, Matches, KeepsRegistration
  <2>5. ~RunsFurtherOut(i, d)
    BY <1>0 DEF MustHaveBeenCalled, RunsFurtherOut
  <2>6. MustHaveBeenCalled(i, d)
    BY <1>0, <2>2, <2>3, <2>4, <2>5 DEF MustHaveBeenCalled, KeepsRegistration
  <2> QED
    BY <2>2, <2>6 DEF KeepsRegistration, DispatchInvariant, DeliveryComplete
<1>4. DeliveryComplete'
  <2>1. \A d \in 1..Depth : \A q \in stack[d].called : q < stack[d].start
    BY DEF DispatchInvariant, DeliveryComplete
  <2> QED
    BY <1>0, <1>3, <2>1 DEF DeliveryComplete, Complete
<1> QED
  BY <1>1, <1>2, <1>4

\* A delivery begins with nobody called and nobody owed.
LEMMA BeginDeliverySafe ==
  ASSUME DispatchInvariant, NEW c \in Channels, NEW m \in Messages, NEW sends \in BOOLEAN,
         BeginDelivery(c, m, sends)
  PROVE  StackSound' /\ RunningSubscribersIntact' /\ DeliveryComplete'
<1> DEFINE delivery ==
      [channel |-> c, message |-> m, start |-> nextSequence, cursor |-> 1,
       running |-> FALSE, callee |-> 0, called |-> {}, sends |-> sends]
<1>1. /\ delivery \in Deliveries /\ delivery.running = FALSE /\ delivery.cursor = 1
      /\ delivery.called = {} /\ delivery.start = nextSequence
      /\ nextSequence \in Nat
  BY Types, DispatchAssumption
     DEF Deliveries, DispatchAssumption, DispatchInvariant, TypeInvariant
<1>2. stack' = Append(stack, delivery)
  BY DEF BeginDelivery
<1> HIDE DEF delivery
<1>3. /\ stack' \in Seq(Deliveries) /\ Depth' = Depth + 1 /\ stack'[Depth + 1] = delivery
      /\ \A d \in 1..Depth : stack'[d] = stack[d]
      /\ Depth \in Nat
  BY <1>1, <1>2, Types, DeliveryPushed DEF DispatchInvariant, TypeInvariant
<1>4. slots' = slots /\ nextSequence' = nextSequence /\ dead' = dead
  BY DEF BeginDelivery
<1>5. \A d \in 1..Depth' : d = Depth + 1 \/ d \in 1..Depth
  BY <1>3
<1>6. StackSound'
  <2> SUFFICES ASSUME NEW d \in 1..Depth'
               PROVE  /\ stack'[d].running =>
                           stack'[d].cursor \in SlotIds /\ stack'[d].callee \in stack'[d].called
                      /\ stack'[d].start <= nextSequence
    BY <1>4 DEF StackSound
  <2>1. CASE d = Depth + 1
    BY <1>1, <1>3, <2>1
  <2>2. CASE d \in 1..Depth
    BY <1>3, <2>2 DEF DispatchInvariant, StackSound
  <2> QED
    BY <1>5, <2>1, <2>2
<1>7. RunningSubscribersIntact'
  <2>1. \A d \in 1..Depth' : stack'[d].running <=> d \in 1..Depth /\ stack[d].running
    BY <1>1, <1>3, <1>5
  <2>2. 1..Depth \subseteq 1..Depth'
    BY <1>3
  <2> QED
    BY <1>3, <1>4, <2>1, <2>2 DEF DispatchInvariant, RunningSubscribersIntact
<1>8. ASSUME NEW d \in 1..Depth', NEW i \in SlotIds PROVE Complete(i, d)'
  <2>1. CASE d = Depth + 1
    BY <1>1, <1>3, <2>1 DEF Complete, MustHaveBeenCalled, SlotIds
  <2>2. CASE d \in 1..Depth
    <3>1. RunsFurtherOut(i, d)' <=> RunsFurtherOut(i, d)
      BY <1>3, <2>2 DEF RunsFurtherOut
    <3>2. stack'[d] = stack[d] /\ Complete(i, d)
      BY <1>3, <2>2 DEF DispatchInvariant, DeliveryComplete, Complete
    <3> QED
      BY <1>4, <3>1, <3>2 DEF Complete, MustHaveBeenCalled, IsLive, Matches
  <2> QED
    BY <1>5, <2>1, <2>2
<1>9. \A d \in 1..Depth' : \A q \in stack'[d].called : q < stack'[d].start
  BY <1>1, <1>3, <1>5 DEF DispatchInvariant, DeliveryComplete
<1> QED
  BY <1>6, <1>7, <1>8, <1>9 DEF DeliveryComplete, Complete

\* The invariant, told of the innermost delivery.
LEMMA TopFacts ==
  ASSUME DispatchInvariant, Depth > 0
  PROVE  /\ Depth \in 1..Depth /\ Depth \in Nat /\ Top = stack[Depth] /\ Top \in Deliveries
         /\ stack \in Seq(Deliveries) /\ slots \in [SlotIds -> SlotRecords]
         /\ Top.start <= nextSequence
         /\ Top.running => /\ Top.cursor \in SlotIds /\ Top.callee \in Top.called
                           /\ slots[Top.cursor].sequence = Top.callee
BY Types DEF DispatchInvariant, TypeInvariant, StackSound, RunningSubscribersIntact, Top

\* The innermost delivery leaves the slot at its cursor behind, as nothing is owed
\* to it or its subscriber has been called.
LEMMA WalkOnSafe ==
  ASSUME DispatchInvariant, Depth > 0, NEW delivery \in Deliveries, SetTop(delivery),
         Top.cursor \in SlotIds,
         delivery.cursor = Top.cursor + 1, ~delivery.running,
         delivery.channel = Top.channel, delivery.message = Top.message,
         delivery.start = Top.start, delivery.called = Top.called,
         UNCHANGED <<nextSequence, dead>>,
         \A i \in SlotIds : KeepsRegistration(i),
         \A i \in SlotIds : slots'[i].dispatched
             <=> slots[i].dispatched /\ (Top.running => i # Top.cursor),
         \/ ~slots'[Top.cursor].occupied
         \/ Top.running
         \/ ~IsCandidate(slots[Top.cursor], Top)
         \/ ~Matches(slots[Top.cursor], Top)
  PROVE  StackSound' /\ RunningSubscribersIntact' /\ DeliveryComplete'
<1>1. /\ stack' \in Seq(Deliveries) /\ Depth' = Depth /\ stack'[Depth] = delivery
      /\ \A d \in 1..Depth : d # Depth => stack'[d] = stack[d]
      /\ Depth \in 1..Depth /\ Depth \in Nat
  BY TopFacts, TopMoves
<1>2. stack[Depth] = Top
  BY DEF Top
<1>3. \A d \in 1..Depth : stack'[d].running <=> d # Depth /\ stack[d].running
  BY <1>1
<1>4. StackSound'
  BY <1>1, <1>2, <1>3, TopFacts DEF StackSound, DispatchInvariant
<1>5. RunningSubscribersIntact'
  <2>1. \A d \in 1..Depth : stack'[d].running =>
          slots'[stack'[d].cursor].sequence = stack'[d].callee
    BY <1>1, <1>3 DEF DispatchInvariant, StackSound, RunningSubscribersIntact, KeepsRegistration
  <2>2. \A d, e \in 1..Depth : stack'[d].running /\ stack'[e].running
           /\ stack'[d].cursor = stack'[e].cursor => d = e
    BY <1>1, <1>3 DEF DispatchInvariant, RunningSubscribersIntact
  <2>3. \A i \in SlotIds : slots'[i].dispatched
          <=> \E d \in 1..Depth : stack'[d].running /\ stack'[d].cursor = i
    <3> SUFFICES ASSUME NEW i \in SlotIds
                 PROVE  slots'[i].dispatched
                          <=> \E d \in 1..Depth : stack'[d].running /\ stack'[d].cursor = i
      OBVIOUS
    <3>1. slots[i].dispatched <=> \E d \in 1..Depth : stack[d].running /\ stack[d].cursor = i
      BY DEF DispatchInvariant, RunningSubscribersIntact
    <3>2. ASSUME slots'[i].dispatched
          PROVE  \E d \in 1..Depth : stack'[d].running /\ stack'[d].cursor = i
      <4>1. PICK d \in 1..Depth : stack[d].running /\ stack[d].cursor = i
        BY <3>1, <3>2
      <4>2. d # Depth
        BY <1>2, <3>2, <4>1
      <4> QED
        BY <1>1, <4>1, <4>2
    <3>3. ASSUME NEW d \in 1..Depth, stack'[d].running, stack'[d].cursor = i
          PROVE  slots'[i].dispatched
      <4>1. d # Depth /\ stack[d].running /\ stack[d].cursor = i
        BY <1>1, <1>3, <3>3
      <4>2. slots[i].dispatched
        BY <3>1, <4>1
      <4>3. Top.running => i # Top.cursor
        BY <1>1, <1>2, <4>1 DEF DispatchInvariant, RunningSubscribersIntact
      <4> QED
        BY <4>2, <4>3
    <3> QED
      BY <3>2, <3>3
  <2> QED
    BY <1>1, <2>1, <2>2, <2>3 DEF RunningSubscribersIntact
<1>6. ASSUME NEW d \in 1..Depth, NEW i \in SlotIds, MustHaveBeenCalled(i, d)'
      PROVE  slots'[i].sequence \in stack'[d].called
  <2>1. /\ KeepsRegistration(i)
        /\ stack'[d].channel = stack[d].channel /\ stack'[d].message = stack[d].message
        /\ stack'[d].start = stack[d].start /\ stack'[d].called = stack[d].called
    BY <1>1, <1>2
  <2>2. RunsFurtherOut(i, d)' <=> RunsFurtherOut(i, d)
    <3>1. \A e \in 1..(d - 1) : e \in 1..Depth /\ e # Depth
      BY <1>1
    <3>2. \A e \in 1..(d - 1) : stack'[e] = stack[e]
      BY <1>1, <3>1
    <3> QED
      BY <3>2 DEF RunsFurtherOut
  <2>3. /\ slots[i].occupied /\ slots[i].sequence < stack[d].start
        /\ IsLive(slots[i]) /\ Matches(slots[i], stack[d]) /\ ~RunsFurtherOut(i, d)
    BY <1>6, <2>1, <2>2 DEF MustHaveBeenCalled, KeepsRegistration, IsLive, Matches
  <2>4. CASE i < stack[d].cursor
    BY <2>1, <2>3, <2>4 DEF MustHaveBeenCalled, DispatchInvariant, DeliveryComplete, KeepsRegistration
  <2>5. CASE ~(i < stack[d].cursor)
    <3>1. d = Depth
      BY <1>1, <1>6, <2>5 DEF MustHaveBeenCalled
    <3>2. i < Top.cursor + 1 /\ ~(i < Top.cursor)
      BY <1>1, <1>2, <1>6, <2>5, <3>1 DEF MustHaveBeenCalled
    <3>3. i = Top.cursor
      BY <3>2 DEF SlotIds
    <3>4. CASE Top.running
      BY <1>2, <2>1, <3>1, <3>3, <3>4, TopFacts DEF KeepsRegistration
    <3>5. CASE ~Top.running
      <4>1. slots'[i].occupied
        BY <1>6 DEF MustHaveBeenCalled
      <4>2. ~IsCandidate(slots[i], Top)
        BY <1>2, <2>3, <3>1, <3>3, <3>5, <4>1
      <4>3. slots[i].dispatched
        BY <1>2, <2>3, <3>1, <4>2 DEF IsCandidate
      <4>4. PICK e \in 1..Depth : stack[e].running /\ stack[e].cursor = i
        BY <4>3 DEF DispatchInvariant, RunningSubscribersIntact
      <4>5. e \in 1..(Depth - 1)
        BY <1>1, <1>2, <3>5, <4>4
      <4> QED
        BY <2>3, <3>1, <4>4, <4>5 DEF RunsFurtherOut
    <3> QED
      BY <3>4, <3>5
  <2> QED
    BY <2>4, <2>5
<1>7. \A d \in 1..Depth : \A q \in stack'[d].called : q < stack'[d].start
  BY <1>1, <1>2 DEF DispatchInvariant, DeliveryComplete
<1> QED
  BY <1>1, <1>4, <1>5, <1>6, <1>7 DEF DeliveryComplete

\* A subscriber is entered: its slot is marked, and no delivery runs it already.
LEMMA CallSafe ==
  ASSUME DispatchInvariant, CallSubscriber
  PROVE  StackSound' /\ RunningSubscribersIntact' /\ DeliveryComplete'
<1> DEFINE k == Top.cursor
           q == slots[Top.cursor].sequence
           delivery == [Top EXCEPT !.running = TRUE, !.callee = q, !.called = @ \cup {q}]
<1>1. /\ Depth > 0 /\ ~Top.running /\ k \in SlotIds
      /\ slots[k].occupied /\ ~slots[k].dispatched /\ q < Top.start
      /\ SetTop(delivery)
      /\ slots' = [slots EXCEPT ![k].dispatched = TRUE]
      /\ UNCHANGED <<channels, nextSequence, dead, handles>>
  BY DEF CallSubscriber, IsVisiting, IsCandidate, Visited
<1>2. q \in Sequences /\ Top \in Deliveries /\ slots \in [SlotIds -> SlotRecords]
  BY <1>1, TopFacts DEF DispatchInvariant, Numbered
<1>3. /\ delivery \in Deliveries /\ delivery.running /\ delivery.callee = q
      /\ delivery.called = Top.called \cup {q} /\ delivery.cursor = k
      /\ delivery.start = Top.start /\ delivery.channel = Top.channel
      /\ delivery.message = Top.message
  BY <1>1, <1>2, CalleeEntered DEF DispatchInvariant, TypeInvariant, Deliveries
<1>4. /\ \A i \in SlotIds : slots'[i].dispatched <=> slots[i].dispatched \/ i = k
      /\ \A i \in SlotIds : KeepsRegistration(i)
  BY <1>1, <1>2 DEF KeepsRegistration, SlotRecords
<1> HIDE DEF delivery, k, q
<1>5. /\ stack' \in Seq(Deliveries) /\ Depth' = Depth /\ stack'[Depth] = delivery
      /\ \A d \in 1..Depth : d # Depth => stack'[d] = stack[d]
      /\ Depth \in 1..Depth /\ Depth \in Nat /\ stack[Depth] = Top
  BY <1>1, <1>3, TopFacts, TopMoves
<1>6. slots[k].sequence = q /\ slots'[k].sequence = q
  BY <1>1, <1>4 DEF k, q, KeepsRegistration
<1>7. StackSound'
  BY <1>1, <1>3, <1>5 DEF StackSound, DispatchInvariant
<1>8. RunningSubscribersIntact'
  <2>1. \A d \in 1..Depth : d # Depth /\ stack[d].running => stack[d].cursor # k
    BY <1>1 DEF DispatchInvariant, RunningSubscribersIntact
  <2>2. \A d \in 1..Depth : stack'[d].running =>
          slots'[stack'[d].cursor].sequence = stack'[d].callee
    BY <1>3, <1>4, <1>5, <1>6 DEF DispatchInvariant, StackSound, RunningSubscribersIntact, KeepsRegistration
  <2>3. \A d, e \in 1..Depth : stack'[d].running /\ stack'[e].running
           /\ stack'[d].cursor = stack'[e].cursor => d = e
    BY <1>3, <1>5, <2>1 DEF DispatchInvariant, RunningSubscribersIntact
  <2>4. ASSUME NEW i \in SlotIds
        PROVE  slots'[i].dispatched <=> \E d \in 1..Depth : stack'[d].running /\ stack'[d].cursor = i
    <3>1. slots[i].dispatched <=> \E d \in 1..Depth : stack[d].running /\ stack[d].cursor = i
      BY DEF DispatchInvariant, RunningSubscribersIntact
    <3> QED
      BY <1>1, <1>3, <1>4, <1>5, <3>1
  <2> QED
    BY <1>5, <2>2, <2>3, <2>4 DEF RunningSubscribersIntact
<1>9. ASSUME NEW d \in 1..Depth, NEW i \in SlotIds, MustHaveBeenCalled(i, d)'
      PROVE  slots'[i].sequence \in stack'[d].called
  <2>1. /\ KeepsRegistration(i)
        /\ stack'[d].channel = stack[d].channel /\ stack'[d].message = stack[d].message
        /\ stack'[d].start = stack[d].start /\ stack'[d].cursor = stack[d].cursor
        /\ stack[d].called \subseteq stack'[d].called
    BY <1>3, <1>4, <1>5 DEF k
  <2>2. RunsFurtherOut(i, d)' <=> RunsFurtherOut(i, d)
    <3>1. \A e \in 1..(d - 1) : e \in 1..Depth /\ e # Depth
      BY <1>5
    <3>2. \A e \in 1..(d - 1) : stack'[e] = stack[e]
      BY <1>5, <3>1
    <3> QED
      BY <3>2 DEF RunsFurtherOut
  <2>3. IsLive(slots[i])
    BY <1>1, <1>9, <2>1 DEF MustHaveBeenCalled, KeepsRegistration, IsLive
  <2>4. Matches(slots[i], stack[d])
    BY <1>9, <2>1 DEF MustHaveBeenCalled, KeepsRegistration, Matches
  <2>5. i < stack[d].cursor /\ slots[i].occupied /\ slots[i].sequence < stack[d].start
    BY <1>9, <2>1 DEF MustHaveBeenCalled, KeepsRegistration
  <2>6. MustHaveBeenCalled(i, d)
    BY <1>9, <2>2, <2>3, <2>4, <2>5 DEF MustHaveBeenCalled
  <2> QED
    BY <2>1, <2>6 DEF DispatchInvariant, DeliveryComplete, KeepsRegistration
<1>10. \A d \in 1..Depth : \A p \in stack'[d].called : p < stack'[d].start
  BY <1>1, <1>3, <1>5 DEF DispatchInvariant, DeliveryComplete, q
<1> QED
  BY <1>5, <1>7, <1>8, <1>9, <1>10 DEF DeliveryComplete

\* A delivery ends that has come past the last slot.
LEMMA EndDeliverySafe ==
  ASSUME DispatchInvariant, EndDelivery
  PROVE  StackSound' /\ RunningSubscribersIntact' /\ DeliveryComplete'
<1>1. /\ Depth > 0 /\ ~Top.running /\ stack' = SubSeq(stack, 1, Depth - 1)
      /\ slots' = slots /\ nextSequence' = nextSequence /\ dead' = dead
  BY DEF EndDelivery
<1>2. /\ Depth' = Depth - 1
      /\ \A d \in 1..(Depth - 1) : stack'[d] = stack[d] /\ d \in 1..Depth
      /\ Depth \in Nat /\ stack[Depth] = Top
  BY <1>1, TopFacts, DeliveryPopped
<1>3. StackSound'
  BY <1>1, <1>2 DEF StackSound, DispatchInvariant
<1>4. RunningSubscribersIntact'
  <2>1. \A d \in 1..Depth : stack[d].running => d \in 1..(Depth - 1)
    BY <1>1, <1>2
  <2> QED
    BY <1>1, <1>2, <2>1 DEF DispatchInvariant, RunningSubscribersIntact
<1>5. ASSUME NEW d \in 1..(Depth - 1), NEW i \in SlotIds, MustHaveBeenCalled(i, d)'
      PROVE  slots'[i].sequence \in stack'[d].called
  <2>1. stack'[d] = stack[d] /\ d \in 1..Depth
    BY <1>2
  <2>2. \A e \in 1..(d - 1) : e \in 1..(Depth - 1)
    BY <1>2
  <2>3. RunsFurtherOut(i, d)' <=> RunsFurtherOut(i, d)
    BY <1>2, <2>2 DEF RunsFurtherOut
  <2>4. MustHaveBeenCalled(i, d)
    BY <1>1, <1>5, <2>1, <2>3 DEF MustHaveBeenCalled, IsLive, Matches
  <2> QED
    BY <1>1, <2>1, <2>4 DEF DispatchInvariant, DeliveryComplete
<1>6. \A d \in 1..(Depth - 1) : \A q \in stack'[d].called : q < stack'[d].start
  BY <1>2 DEF DispatchInvariant, DeliveryComplete
<1> QED
  BY <1>2, <1>3, <1>4, <1>5, <1>6 DEF DeliveryComplete

\* A program that starts has no deliveries, whatever it did before.
LEMMA EmptySafe ==
  ASSUME slots = [i \in SlotIds |-> EmptySlot], stack = <<>>
  PROVE  Numbered /\ StackSound /\ RunningSubscribersIntact /\ DeliveryComplete
<1>1. Depth = 0 /\ \A i \in SlotIds : ~slots[i].occupied /\ ~slots[i].dispatched
  BY DEF Depth, EmptySlot
<1> QED
  BY <1>1 DEF Numbered, StackSound, RunningSubscribersIntact, DeliveryComplete

\* A program starts in the invariant.
LEMMA InitSafe == Init => DispatchInvariant
BY InitTyped, EmptySafe DEF Init, DispatchInvariant

\* Entering or leaving a subscriber marks its slot and keeps the registration there.
LEMMA MarkingKeeps ==
  ASSUME slots \in [SlotIds -> SlotRecords], NEW k \in SlotIds, NEW b \in BOOLEAN,
         slots' = [slots EXCEPT ![k].dispatched = b]
  PROVE  slots' \in [SlotIds -> SlotRecords] /\ \A i \in SlotIds : KeepsRegistration(i)
<1>1. slots[k] \in SlotRecords
  OBVIOUS
<1>2. PICK r : r = [slots[k] EXCEPT !.dispatched = b]
  OBVIOUS
<1>3. /\ r \in SlotRecords /\ r.occupied = slots[k].occupied
      /\ r.sequence = slots[k].sequence /\ r.channel = slots[k].channel
      /\ r.filter = slots[k].filter /\ r.owner = slots[k].owner
  BY <1>1, <1>2 DEF SlotRecords
<1>4. slots' = [slots EXCEPT ![k] = r]
  BY <1>2
<1>5. /\ slots' \in [SlotIds -> SlotRecords] /\ slots'[k] = r
      /\ \A i \in SlotIds : i # k => slots'[i] = slots[i]
  BY <1>3, <1>4, TableUpdate
<1> QED
  BY <1>3, <1>5 DEF KeepsRegistration

\* The code's own steps keep the types and the invariant.
LEMMA DispatchStepSafe ==
  ASSUME DispatchInvariant, DispatchStep PROVE DispatchInvariant'
<1>0. TypeInvariant /\ TypeOK /\ slots \in [SlotIds -> SlotRecords]
  BY Types DEF DispatchInvariant, TypeInvariant
<1>1. ASSUME \A i \in SlotIds : KeepsRegistration(i) PROVE Numbered'
  BY <1>1 DEF KeepsRegistration, Numbered, DispatchInvariant
<1>2. ASSUME Depth > 0, Top.cursor \in SlotIds
      PROVE  LET walked == [Top EXCEPT !.cursor = @ + 1]
                 returned == [Top EXCEPT !.running = FALSE, !.callee = 0, !.cursor = @ + 1]
             IN  /\ walked \in Deliveries /\ returned \in Deliveries
                 /\ walked.cursor = Top.cursor + 1 /\ returned.cursor = Top.cursor + 1
                 /\ walked.running = Top.running /\ returned.running = FALSE
                 /\ walked.channel = Top.channel /\ returned.channel = Top.channel
                 /\ walked.message = Top.message /\ returned.message = Top.message
                 /\ walked.start = Top.start /\ returned.start = Top.start
                 /\ walked.called = Top.called /\ returned.called = Top.called
  BY <1>0, <1>2, CursorMoves, TopFacts DEF Deliveries
<1>3. CASE SkipSlot
  <2>1. /\ Depth > 0 /\ ~Top.running /\ Top.cursor \in SlotIds
        /\ SetTop([Top EXCEPT !.cursor = @ + 1])
        /\ UNCHANGED <<channels, slots, nextSequence, dead, handles>>
        /\ ~IsCandidate(slots[Top.cursor], Top) \/ ~Matches(slots[Top.cursor], Top)
    BY <1>3 DEF SkipSlot, IsVisiting, Visited
  <2>2. \A i \in SlotIds : KeepsRegistration(i)
    BY <2>1 DEF KeepsRegistration
  <2>3. StackSound' /\ RunningSubscribersIntact' /\ DeliveryComplete'
    BY <1>2, <2>1, <2>2, WalkOnSafe
  <2>4. TypeInvariant'
    BY <1>0, <1>2, <2>1, WalkTyped
  <2> QED
    BY <1>1, <2>2, <2>3, <2>4 DEF DispatchInvariant
<1>4. CASE ReclaimDeadOwnerSlot
  <2>1. /\ Depth > 0 /\ ~Top.running /\ Top.cursor \in SlotIds
        /\ SetTop([Top EXCEPT !.cursor = @ + 1])
        /\ slots[Top.cursor].occupied
        /\ slots' = [slots EXCEPT ![Top.cursor] = Released(slots[Top.cursor])]
        /\ UNCHANGED <<channels, nextSequence, dead, handles>>
    BY <1>0, <1>4 DEF ReclaimDeadOwnerSlot, IsVisiting, IsCandidate, Visited
  <2>2. slots' \in [SlotIds -> SlotRecords] /\ ~slots'[Top.cursor].occupied
    BY <1>0, <2>1, ReleasedSlot, TableUpdate
  <2>3. \A i \in SlotIds : slots'[i].dispatched = slots[i].dispatched /\ KeepsRegistration(i)
    BY <1>0, <2>1, ReleaseKeeps
  <2>4. StackSound' /\ RunningSubscribersIntact' /\ DeliveryComplete'
    BY <1>2, <2>1, <2>2, <2>3, WalkOnSafe
  <2>5. TypeInvariant'
    BY <1>0, <1>2, <2>1, <2>2, WalkTyped
  <2> QED
    BY <1>1, <2>3, <2>4, <2>5 DEF DispatchInvariant
<1>5. CASE CallSubscriber
  <2>1. /\ Depth > 0 /\ Top.cursor \in SlotIds /\ slots[Top.cursor].occupied
        /\ slots' = [slots EXCEPT ![Top.cursor].dispatched = TRUE]
        /\ UNCHANGED <<channels, nextSequence, dead, handles>>
        /\ SetTop([Top EXCEPT !.running = TRUE, !.callee = slots[Top.cursor].sequence,
                              !.called = @ \cup {slots[Top.cursor].sequence}])
    BY <1>5 DEF CallSubscriber, IsVisiting, IsCandidate, Visited
  <2>2. slots' \in [SlotIds -> SlotRecords] /\ \A i \in SlotIds : KeepsRegistration(i)
    BY <1>0, <2>1, MarkingKeeps
  <2>3. slots[Top.cursor].sequence \in Sequences
    BY <2>1 DEF DispatchInvariant, Numbered
  <2>4. TypeInvariant'
    BY <1>0, <2>1, <2>2, <2>3, CalleeEntered, WalkTyped
  <2> QED
    BY <1>1, <1>5, <2>2, <2>4, CallSafe DEF DispatchInvariant
<1>6. CASE SubscriberReturns
  <2>1. /\ Depth > 0 /\ Top.running /\ Top.cursor \in SlotIds
        /\ slots' = [slots EXCEPT ![Top.cursor].dispatched = FALSE]
        /\ SetTop([Top EXCEPT !.running = FALSE, !.callee = 0, !.cursor = @ + 1])
        /\ UNCHANGED <<channels, nextSequence, dead, handles>>
    BY <1>6, TopFacts DEF SubscriberReturns
  <2>2. slots' \in [SlotIds -> SlotRecords] /\ \A i \in SlotIds : KeepsRegistration(i)
    BY <1>0, <2>1, MarkingKeeps
  <2>3. \A i \in SlotIds : slots'[i].dispatched <=> slots[i].dispatched /\ i # Top.cursor
    BY <1>0, <2>1 DEF SlotRecords
  <2>4. StackSound' /\ RunningSubscribersIntact' /\ DeliveryComplete'
    BY <1>2, <2>1, <2>2, <2>3, WalkOnSafe
  <2>5. TypeInvariant'
    BY <1>0, <1>2, <2>1, <2>2, WalkTyped
  <2> QED
    BY <1>1, <2>2, <2>4, <2>5 DEF DispatchInvariant
<1>7. CASE EndDelivery
  <2>1. Depth > 0 /\ stack' = SubSeq(stack, 1, Depth - 1)
        /\ UNCHANGED <<channels, slots, nextSequence, dead, handles>>
    BY <1>7 DEF EndDelivery
  <2>2. stack' \in Seq(Deliveries) /\ Depth' <= MaxDepth
    BY <1>0, <2>1, Types, DeliveryPopped, DispatchAssumption DEF DispatchAssumption
  <2>3. TypeInvariant' /\ Numbered'
    BY <2>1, <2>2 DEF DispatchInvariant, TypeInvariant, TypeOK, Numbered
  <2> QED
    BY <1>7, <2>3, EndDeliverySafe DEF DispatchInvariant
<1>8. CASE NullChannel
  <2>1. Init'
    BY <1>8 DEF NullChannel, Init
  <2> QED
    BY <2>1, InitSafe, PTL
<1> QED
  BY <1>3, <1>4, <1>5, <1>6, <1>7, <1>8 DEF DispatchStep

\* Every step keeps the invariant.
LEMMA StepSafe ==
  ASSUME DispatchInvariant, [Next]_vars PROVE DispatchInvariant'
<1>1. CASE UserStep
  <2>1. TypeInvariant' /\ Numbered'
    BY <1>1, UserTyped, UserNumbered DEF DispatchInvariant, TypeInvariant
  <2>2. nextSequence' \in Nat
    BY <2>1, DispatchAssumption DEF TypeInvariant, TypeOK, DispatchAssumption
  <2>3. StackSound' /\ RunningSubscribersIntact' /\ DeliveryComplete'
    BY <1>1, <2>2, UserStepMoves, UserMovesSafe, BeginDeliverySafe
       DEF DispatchInvariant, TypeInvariant
  <2> QED
    BY <2>1, <2>3 DEF DispatchInvariant
<1>2. CASE DispatchStep
  BY <1>2, DispatchStepSafe
<1>3. CASE UNCHANGED vars
  BY <1>3 DEF vars, DispatchInvariant, TypeInvariant, TypeOK, Numbered, StackSound,
              RunningSubscribersIntact, DeliveryComplete, MustHaveBeenCalled, RunsFurtherOut,
              IsLive, Matches, Depth
<1> QED
  BY <1>1, <1>2, <1>3 DEF Next

\* The invariant of deliveries holds for ever.
LEMMA DispatchSound == Spec => []DispatchInvariant
BY InitSafe, StepSafe, PTL DEF Spec

\* Every variable of channels, subscriptions and deliveries keeps its type.
THEOREM TypeCorrect == Spec => []TypeOK
<1>1. DispatchInvariant => TypeOK
  BY DEF DispatchInvariant, TypeInvariant
<1> QED
  BY <1>1, DispatchSound, PTL

\* No callable is overwritten, entered twice or left marked while it runs: the
\* bIsBeingDispatched flag is enough (MessagingSystem.cpp:121-132, 401-428).
THEOREM SubscribersIntact == Spec => []RunningSubscribersIntact
<1>1. DispatchInvariant => RunningSubscribersIntact
  BY DEF DispatchInvariant
<1> QED
  BY <1>1, DispatchSound, PTL

\* A delivery reaches whom it must, however the table changes under its walk
\* (MessagingSystem.cpp:401-428).
THEOREM DeliveriesComplete == Spec => []DeliveryComplete
<1>1. DispatchInvariant => DeliveryComplete
  BY DEF DispatchInvariant
<1> QED
  BY <1>1, DispatchSound, PTL

----------------------------------------------------------------------------
(* Handles and channels of registrations.                                  *)
(*                                                                         *)
(* The generation of a slot counts round.  How far it is ahead of a handle's  *)
(* tells how often the slot has been used since, as long as that is less than *)
(* once round.                                                             *)

Distance(g, s) == IF s >= g THEN s - g ELSE s - g + MaxGeneration

Fits(h, slot, uses) ==
    uses < MaxGeneration =>
        IF slot.occupied
        THEN /\ Distance(h.generation, slot.generation) = uses
             /\ uses = 0 => slot.sequence = h.sequence
        ELSE Distance(h.generation, slot.generation) =
                 IF uses + 1 < MaxGeneration THEN uses + 1 ELSE 0

HandleInvariant ==
    /\ IsFiniteSet(handles)
    /\ \A h \in handles : h.sequence < nextSequence
    /\ \A h \in handles : Fits(h, slots[h.index], UsesSince(h))
    /\ SubscriptionsHaveChannels

\* The registration in slot i stays, whether or not it begins or ends to run.
Undisturbed(i) ==
    /\ slots'[i].occupied = slots[i].occupied
    /\ slots'[i].generation = slots[i].generation
    /\ slots'[i].sequence = slots[i].sequence
    /\ slots'[i].channel = slots[i].channel

\* The uses of a handle's slot are counted by a number.
LEMMA UsesNatural ==
  ASSUME IsFiniteSet(handles), NEW h PROVE UsesSince(h) \in Nat
<1>1. {g \in handles : g.index = h.index /\ g.sequence > h.sequence} \subseteq handles
  OBVIOUS
<1> QED
  BY <1>1, FS_Subset, FS_CardinalityType DEF UsesSince

\* One step further round: nothing is left between, or one step more.
LEMMA NextDistance ==
  ASSUME NEW g \in 1..MaxGeneration, NEW s \in 1..MaxGeneration
  PROVE  Distance(g, NextGeneration(s)) =
             IF Distance(g, s) + 1 < MaxGeneration THEN Distance(g, s) + 1 ELSE 0
<1>1. MaxGeneration \in Nat /\ g \in Nat /\ s \in Nat
      /\ 1 <= g /\ g <= MaxGeneration /\ 1 <= s /\ s <= MaxGeneration
  BY DispatchAssumption DEF DispatchAssumption
<1>2. CASE s = MaxGeneration
  <2>1. NextGeneration(s) = 1 /\ Distance(g, s) = MaxGeneration - g
    BY <1>1, <1>2 DEF NextGeneration, Distance
  <2>2. Distance(g, 1) = IF g = 1 THEN 0 ELSE 1 - g + MaxGeneration
    BY <1>1 DEF Distance
  <2> QED
    BY <1>1, <2>1, <2>2
<1>3. CASE s # MaxGeneration
  <2>1. NextGeneration(s) = s + 1
    BY <1>3 DEF NextGeneration
  <2>2. CASE s >= g
    <3>1. Distance(g, s) = s - g /\ Distance(g, s + 1) = s + 1 - g
      BY <1>1, <2>2 DEF Distance
    <3> QED
      BY <1>1, <1>3, <2>1, <2>2, <3>1
  <2>3. CASE s < g
    <3>1. /\ Distance(g, s) = s - g + MaxGeneration
          /\ Distance(g, s + 1) = IF s + 1 = g THEN 0 ELSE s + 1 - g + MaxGeneration
      BY <1>1, <2>3 DEF Distance
    <3> QED
      BY <1>1, <1>3, <2>1, <2>3, <3>1
  <2> QED
    BY <1>1, <2>2, <2>3
<1> QED
  BY <1>2, <1>3

\* A released slot fits the handles it fitted, also when its generation wraps.
LEMMA ReleaseFits ==
  ASSUME NEW slot \in SlotRecords, slot.occupied,
         NEW h \in Handles, NEW uses \in Nat, Fits(h, slot, uses)
  PROVE  Fits(h, Released(slot), uses)
<1>1. PICK s : s = Released(slot)
  OBVIOUS
<1>2. s.occupied = FALSE /\ s.generation = NextGeneration(slot.generation)
  BY <1>1, ReleasedSlot
<1>3. h.generation \in 1..MaxGeneration /\ slot.generation \in 1..MaxGeneration
  BY DEF Handles, SlotRecords
<1>4. Distance(h.generation, s.generation) =
          IF Distance(h.generation, slot.generation) + 1 < MaxGeneration
          THEN Distance(h.generation, slot.generation) + 1 ELSE 0
  BY <1>2, <1>3, NextDistance
<1>5. ASSUME uses < MaxGeneration
      PROVE  Distance(h.generation, s.generation) = IF uses + 1 < MaxGeneration THEN uses + 1 ELSE 0
  BY <1>4, <1>5 DEF Fits
<1>6. Fits(h, s, uses)
  BY <1>2, <1>5 DEF Fits
<1> QED
  BY <1>1, <1>6

\* A step that registers nothing.
LEMMA QuietSafe ==
  ASSUME TypeOK, HandleInvariant, nextSequence' = nextSequence, handles' = handles,
         \A i \in SlotIds :
             Undisturbed(i) \/ (slots[i].occupied /\ slots'[i] = Released(slots[i])),
         \A i \in SlotIds : slots'[i].occupied => slots[i].channel \in channels'
  PROVE  HandleInvariant'
<1>0. /\ slots \in [SlotIds -> SlotRecords] /\ handles \subseteq Handles
      /\ \A h \in handles : h \in Handles /\ h.index \in SlotIds /\ UsesSince(h) \in Nat
  BY Types, UsesNatural DEF TypeOK, Handles, HandleInvariant
<1>1. ASSUME NEW i \in SlotIds
      PROVE  /\ \A h \in Handles, u \in Nat : Fits(h, slots[i], u) => Fits(h, slots'[i], u)
             /\ slots'[i].occupied => slots'[i].channel = slots[i].channel
  <2>1. slots[i] \in SlotRecords
    BY <1>0
  <2>2. CASE Undisturbed(i)
    BY <2>2 DEF Undisturbed, Fits
  <2>3. CASE slots[i].occupied /\ slots'[i] = Released(slots[i])
    BY <2>1, <2>3, ReleaseFits, ReleasedSlot
  <2> QED
    BY <2>2, <2>3
<1>2. \A h \in handles : UsesSince(h)' = UsesSince(h)
  BY DEF UsesSince
<1>3. ASSUME NEW h \in handles PROVE Fits(h, slots'[h.index], UsesSince(h)')
  <2>1. Fits(h, slots[h.index], UsesSince(h))
    BY DEF HandleInvariant
  <2> QED
    BY <1>0, <1>1, <1>2, <2>1
<1> QED
  BY <1>0, <1>1, <1>3 DEF HandleInvariant, SubscriptionsHaveChannels

\* A new handle: its slot has been used once more, for all the handles before it.
LEMMA UsesCounted ==
  ASSUME IsFiniteSet(handles), NEW new, new.sequence \in Nat,
         \A h \in handles : h.sequence \in Nat /\ h.sequence < new.sequence,
         handles' = handles \cup {new}
  PROVE  /\ IsFiniteSet(handles')
         /\ \A h \in handles : UsesSince(h)' = UsesSince(h) + (IF h.index = new.index THEN 1 ELSE 0)
         /\ UsesSince(new)' = 0
<1>1. IsFiniteSet(handles') /\ new \notin handles
  BY FS_AddElement
<1>2. ASSUME NEW h \in handles
      PROVE  UsesSince(h)' = UsesSince(h) + (IF h.index = new.index THEN 1 ELSE 0)
  <2> DEFINE S == {g \in handles : g.index = h.index /\ g.sequence > h.sequence}
             T == {g \in handles' : g.index = h.index /\ g.sequence > h.sequence}
  <2>1. IsFiniteSet(S) /\ Cardinality(S) \in Nat /\ new \notin S
    BY <1>1, FS_Subset, FS_CardinalityType
  <2>4. UsesSince(h) = Cardinality(S) /\ UsesSince(h)' = Cardinality(T)
    BY DEF UsesSince
  <2>2. CASE h.index = new.index
    <3>1. T = S \cup {new}
      BY <2>2
    <3>2. Cardinality(T) = Cardinality(S) + 1
      BY <2>1, <3>1, FS_AddElement
    <3> HIDE DEF S, T
    <3> QED
      BY <2>1, <2>2, <2>4, <3>2
  <2>3. CASE h.index # new.index
    <3>1. T = S
      BY <2>3
    <3> HIDE DEF S, T
    <3> QED
      BY <2>1, <2>3, <2>4, <3>1
  <2> QED
    BY <2>2, <2>3
<1>3. UsesSince(new)' = 0
  <2>1. {g \in handles' : g.index = new.index /\ g.sequence > new.sequence} = {}
    OBVIOUS
  <2> QED
    BY <2>1, FS_EmptySet DEF UsesSince
<1> QED
  BY <1>1, <1>2, <1>3

\* A registration gets the first handle of its generation of the slot.
LEMMA SubscribeSafe ==
  ASSUME TypeOK, HandleInvariant, NEW c \in Channels, NEW f \in Messages \cup {AnyMessage},
         NEW o \in Owners \cup {NoOwner}, Subscribe(c, f, o)
  PROVE  HandleInvariant'
<1> DEFINE k == Min(FreeSlots(SearchedTable))
           n == nextSequence
<1>0. /\ n \in Nat /\ n \in Sequences /\ nextSequence' = n + 1
      /\ slots \in [SlotIds -> SlotRecords] /\ handles \subseteq Handles
      /\ \A h \in Handles : h.index \in SlotIds /\ h.generation \in 1..MaxGeneration /\ h.sequence \in Nat
      /\ MaxGeneration \in Nat \ {0} /\ channels' = channels /\ c \in channels
  BY Types, DispatchAssumption DEF TypeOK, Handles, DispatchAssumption, Subscribe, Sequences
<1>1. /\ SearchedTable \in [SlotIds -> SlotRecords]
      /\ k \in SlotIds /\ ~SearchedTable[k].occupied
  BY <1>0, SearchedSlots, FreeSlotChosen DEF Subscribe, IsFree
<1>2. ASSUME NEW i \in SlotIds
      PROVE  /\ \A h \in Handles, u \in Nat : Fits(h, slots[i], u) => Fits(h, SearchedTable[i], u)
             /\ SearchedTable[i].occupied => SearchedTable[i] = slots[i]
  <2>1. slots[i] \in SlotRecords
    BY <1>0
  <2>2. SearchedTable[i] = slots[i] \/ (slots[i].occupied /\ SearchedTable[i] = Released(slots[i]))
    BY <1>0, SearchedSlots
  <2> QED
    BY <2>1, <2>2, ReleaseFits, ReleasedSlot
<1> DEFINE r == Registered(SearchedTable[k], c, f, o)
<1>3. PICK new : new = [index |-> k, generation |-> SearchedTable[k].generation, sequence |-> n]
  OBVIOUS
<1>3a. slots' = [SearchedTable EXCEPT ![k] = r] /\ handles' = handles \cup {new}
  BY <1>1, <1>3 DEF Subscribe
<1>4. /\ r.occupied /\ r.generation = SearchedTable[k].generation /\ r.sequence = n /\ r.channel = c
      /\ SearchedTable[k].generation \in 1..MaxGeneration
  <2>1. SearchedTable[k] \in SlotRecords
    BY <1>1
  <2>2. SearchedTable[k].generation \in 1..MaxGeneration
    BY <2>1 DEF SlotRecords
  <2> QED
    BY <1>0, <2>1, <2>2, RegisteredSlot
<1>5. slots'[k] = r /\ \A i \in SlotIds : i # k => slots'[i] = SearchedTable[i]
  BY <1>1, <1>3a
<1>6. new.index = k /\ new.generation = SearchedTable[k].generation /\ new.sequence = n
  BY <1>3
<1> HIDE DEF k, r, n
<1>7. /\ IsFiniteSet(handles')
      /\ \A h \in handles : UsesSince(h)' = UsesSince(h) + (IF h.index = k THEN 1 ELSE 0)
      /\ UsesSince(new)' = 0
      /\ \A h \in handles : h.sequence < n
  <2>1. IsFiniteSet(handles) /\ \A h \in handles : h.sequence < n
    BY DEF HandleInvariant, n
  <2> QED
    BY <1>0, <1>3a, <1>6, <2>1, UsesCounted
<1>8. ASSUME NEW i \in SlotIds PROVE slots'[i].occupied => slots'[i].channel \in channels
  BY <1>0, <1>2, <1>4, <1>5 DEF HandleInvariant, SubscriptionsHaveChannels
<1>9. ASSUME NEW h \in handles PROVE Fits(h, slots'[h.index], UsesSince(h)')
  <2>1. h \in Handles /\ h.index \in SlotIds /\ UsesSince(h) \in Nat
        /\ Fits(h, slots[h.index], UsesSince(h))
    BY <1>0, UsesNatural DEF HandleInvariant
  <2>2. Fits(h, SearchedTable[h.index], UsesSince(h))
    BY <1>2, <2>1
  <2>3. CASE h.index # k
    BY <1>5, <1>7, <2>1, <2>2, <2>3
  <2>4. CASE h.index = k
    <3>1. UsesSince(h)' = UsesSince(h) + 1 /\ slots'[h.index] = r
      BY <1>5, <1>7, <2>1, <2>4
    <3>2. UsesSince(h) + 1 < MaxGeneration
              => Distance(h.generation, SearchedTable[k].generation) = UsesSince(h) + 1
      BY <1>0, <1>1, <2>1, <2>2, <2>4 DEF Fits
    <3>3. Fits(h, r, UsesSince(h) + 1)
      BY <1>4, <2>1, <3>2 DEF Fits
    <3> QED
      BY <3>1, <3>3
  <2> QED
    BY <2>3, <2>4
<1>10. Fits(new, slots'[new.index], UsesSince(new)')
  <2>1. Distance(r.generation, r.generation) = 0
    BY <1>4 DEF Distance
  <2> QED
    BY <1>4, <1>5, <1>6, <1>7, <2>1 DEF Fits
<1>11. \A h \in handles' : h.sequence < n + 1
  BY <1>0, <1>3a, <1>6, <1>7
<1> QED
  BY <1>0, <1>3a, <1>7, <1>8, <1>9, <1>10, <1>11 DEF HandleInvariant, SubscriptionsHaveChannels

\* A program that starts has given no handle out.
LEMMA InitHandles == Init => HandleInvariant
<1> SUFFICES ASSUME Init PROVE HandleInvariant
  OBVIOUS
<1>1. handles = {} /\ \A i \in SlotIds : slots[i].occupied = FALSE
  BY DEF Init, EmptySlot
<1> QED
  BY <1>1, FS_EmptySet DEF HandleInvariant, SubscriptionsHaveChannels

\* Every step keeps the handles and the channels of the registrations.
LEMMA HandleStep ==
  ASSUME DispatchInvariant, HandleInvariant, [Next]_vars PROVE HandleInvariant'
<1>0. TypeOK /\ slots \in [SlotIds -> SlotRecords] /\ handles \subseteq Handles
      /\ \A i \in SlotIds : slots[i].occupied => slots[i].channel \in channels
  BY Types DEF DispatchInvariant, TypeInvariant, TypeOK, HandleInvariant, SubscriptionsHaveChannels
<1>1. ASSUME nextSequence' = nextSequence, handles' = handles, channels' = channels,
             \A i \in SlotIds : slots'[i] = slots[i]
                                \/ (slots[i].occupied /\ slots'[i] = Released(slots[i]))
      PROVE  HandleInvariant'
  <2>1. \A i \in SlotIds : slots'[i].occupied => slots[i].channel \in channels'
    BY <1>0, <1>1, ReleasedSlot
  <2>2. \A i \in SlotIds :
          Undisturbed(i) \/ (slots[i].occupied /\ slots'[i] = Released(slots[i]))
    BY <1>1 DEF Undisturbed
  <2> QED
    BY <1>0, <1>1, <2>1, <2>2, QuietSafe
<1>2. ASSUME nextSequence' = nextSequence, handles' = handles, channels' = channels,
             \A i \in SlotIds : Undisturbed(i)
      PROVE  HandleInvariant'
  <2>1. \A i \in SlotIds : slots'[i].occupied => slots[i].channel \in channels'
    BY <1>0, <1>2 DEF Undisturbed
  <2> QED
    BY <1>0, <1>2, <2>1, QuietSafe
<1>3. ASSUME NEW c \in Channels, CreateChannel(c) \/ DestroyChannel(c) PROVE HandleInvariant'
  <2>1. nextSequence' = nextSequence /\ handles' = handles /\ slots' = slots
    BY <1>3 DEF CreateChannel, DestroyChannel
  <2>2. \A i \in SlotIds : slots[i].occupied => slots[i].channel \in channels'
    BY <1>0, <1>3 DEF CreateChannel, DestroyChannel, IsSubscribed
  <2> QED
    BY <1>0, <2>1, <2>2, QuietSafe DEF Undisturbed
<1>4. ASSUME NEW c \in Channels, NEW f \in Messages \cup {AnyMessage},
             NEW o \in Owners \cup {NoOwner}, Subscribe(c, f, o)
      PROVE  HandleInvariant'
  BY <1>0, <1>4, SubscribeSafe
<1>5. CASE SubscribeFull
  BY <1>0, <1>1, <1>5, SearchedSlots DEF SubscribeFull
<1>6. ASSUME NEW h \in handles, Unsubscribe(h) PROVE HandleInvariant'
  <2>1. h.index \in SlotIds
    BY <1>0 DEF Handles
  <2>2. \A i \in SlotIds :
          slots'[i] = slots[i] \/ (slots[i].occupied /\ slots'[i] = Released(slots[i]))
    BY <1>0, <1>6, <2>1 DEF Unsubscribe
  <2> QED
    BY <1>1, <1>6, <2>2 DEF Unsubscribe
<1>7. ASSUME NEW o \in Owners, UnsubscribeAll(o) PROVE HandleInvariant'
  BY <1>0, <1>1, <1>7 DEF UnsubscribeAll
<1>8. ASSUME NEW o \in Owners, OwnerDies(o) PROVE HandleInvariant'
  BY <1>1, <1>8 DEF OwnerDies
<1>9. ASSUME NEW c \in Channels, NEW m \in Messages, NEW sends \in BOOLEAN,
             BeginDelivery(c, m, sends)
      PROVE  HandleInvariant'
  BY <1>1, <1>9 DEF BeginDelivery
<1>10. CASE SkipSlot \/ EndDelivery \/ UNCHANGED vars
  BY <1>1, <1>10 DEF SkipSlot, EndDelivery, vars
<1>11. CASE ReclaimDeadOwnerSlot
  <2>1. \A i \in SlotIds :
          slots'[i] = slots[i] \/ (slots[i].occupied /\ slots'[i] = Released(slots[i]))
    BY <1>0, <1>11 DEF ReclaimDeadOwnerSlot, IsVisiting, IsCandidate, Visited
  <2> QED
    BY <1>1, <1>11, <2>1 DEF ReclaimDeadOwnerSlot
<1>12. CASE CallSubscriber \/ SubscriberReturns
  <2>1. \A i \in SlotIds : Undisturbed(i)
    BY <1>0, <1>12 DEF CallSubscriber, SubscriberReturns, Undisturbed, SlotRecords
  <2> QED
    BY <1>2, <1>12, <2>1 DEF CallSubscriber, SubscriberReturns
<1>13. CASE NullChannel
  <2>1. Init'
    BY <1>13 DEF NullChannel, Init
  <2> QED
    BY <2>1, InitHandles, PTL
<1> QED
  BY <1>3, <1>4, <1>5, <1>6, <1>7, <1>8, <1>9, <1>10, <1>11, <1>12, <1>13
     DEF Next, UserStep, DispatchStep

\* The invariant of handles holds for ever.
LEMMA HandlesStaySound == Spec => []HandleInvariant
BY InitHandles, HandleStep, DispatchSound, PTL DEF Spec

\* An unsubscription by a handle ends no registration but its own, until the slot
\* has been registered once for every generation since (MessagingSystem.cpp:111-119,
\* 373-388).
THEOREM HandlesAreExact == Spec => []HandlesNameTheirOwn
<1>1. DispatchInvariant /\ HandleInvariant => HandlesNameTheirOwn
  <2> SUFFICES ASSUME DispatchInvariant, HandleInvariant, NEW h \in handles,
                      slots[h.index].occupied, slots[h.index].generation = h.generation,
                      ~(UsesSince(h) >= MaxGeneration)
               PROVE  slots[h.index].sequence = h.sequence
    BY DEF HandlesNameTheirOwn
  <2>1. h \in Handles
    BY DEF DispatchInvariant, TypeInvariant, TypeOK
  <2>2. h.generation \in 1..MaxGeneration /\ MaxGeneration \in Nat /\ UsesSince(h) \in Nat
    BY <2>1, UsesNatural, DispatchAssumption DEF Handles, DispatchAssumption, HandleInvariant
  <2>3. Fits(h, slots[h.index], UsesSince(h))
    BY DEF HandleInvariant
  <2>4. Distance(h.generation, slots[h.index].generation) = 0
    BY <2>2 DEF Distance
  <2> QED
    BY <2>2, <2>3, <2>4 DEF Fits
<1> QED
  BY <1>1, DispatchSound, HandlesStaySound, PTL

\* No registration outlives its channel (MessagingSystem.cpp:249-255).
THEOREM ChannelsOutliveSubscriptions == Spec => []SubscriptionsHaveChannels
<1>1. HandleInvariant => SubscriptionsHaveChannels
  BY DEF HandleInvariant
<1> QED
  BY <1>1, HandlesStaySound, PTL
=============================================================================
