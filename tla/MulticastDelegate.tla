-------------------------- MODULE MulticastDelegate -------------------------
(***************************************************************************)
(* TMulticastDelegate: bounded bindings, called by Broadcast in the order  *)
(* in which they were added.  Bindings are user code and may call the      *)
(* delegate back; while a broadcast is active it refuses them all.         *)
(***************************************************************************)
EXTENDS Naturals, Sequences, SequencesExt, SequenceFilter

CONSTANTS
    MaxBindings,            \* slots
    MaxBindingGeneration    \* largest slot generation (2^32 - 1 in the code)

ASSUME BindingAssumption ==
    /\ MaxBindings \in Nat \ {0}
    /\ MaxBindingGeneration \in Nat \ {0}

VARIABLES
    bindingSlots,           \* BindingSlots
    broadcastOrder,         \* BroadcastOrder, its first ActiveBindingCount entries
    bBroadcastActive,
    orderIndex,             \* OrderIndex, the position of the loop in Broadcast
    initialBindingCount,    \* InitialBindingCount, the end of that loop
    inBinding,              \* the binding at OrderIndex is being called
    bindingLog              \* history: the handles given out, and whether removed

bindingVars ==
    <<bindingSlots, broadcastOrder, bBroadcastActive, orderIndex, initialBindingCount,
      inBinding, bindingLog>>

BindingSlots == 1..MaxBindings
BindingHandles == [index: BindingSlots, generation: 1..MaxBindingGeneration]

(* The binding of a slot is the number of the Add that brought it; 0 when unbound. *)
Adds == 1..(MaxBindings * MaxBindingGeneration)

FBindingSlot ==
    [binding: {0} \cup Adds, generation: 1..MaxBindingGeneration, occupied: BOOLEAN,
     retired: BOOLEAN]

BindingInit ==
    /\ bindingSlots = [i \in BindingSlots |->
            [binding |-> 0, generation |-> 1, occupied |-> FALSE, retired |-> FALSE]]
    /\ broadcastOrder = <<>>
    /\ bBroadcastActive = FALSE
    /\ orderIndex = 1
    /\ initialBindingCount = 0
    /\ inBinding = FALSE
    /\ bindingLog = <<>>

AvailableBindings == {i \in BindingSlots : ~bindingSlots[i].occupied /\ ~bindingSlots[i].retired}
IsFirstAvailableBinding(i) == i \in AvailableBindings /\ \A j \in AvailableBindings : i <= j

\* Mutant: an addition that an active broadcast does not refuse.
AddWhileBroadcasting ==
    /\ \E i \in BindingSlots :
          LET handle == [index |-> i, generation |-> bindingSlots[i].generation]
          IN  /\ IsFirstAvailableBinding(i)
              /\ bindingSlots' = [bindingSlots EXCEPT
                    ![i].binding = Len(bindingLog) + 1, ![i].occupied = TRUE]
              /\ broadcastOrder' = Append(broadcastOrder, handle)
              /\ bindingLog' = Append(bindingLog, [handle |-> handle, left |-> FALSE])
    /\ UNCHANGED <<bBroadcastActive, orderIndex, initialBindingCount, inBinding>>

Add ==
    /\ ~bBroadcastActive
    /\ \E i \in BindingSlots :
          LET handle == [index |-> i, generation |-> bindingSlots[i].generation]
          IN  /\ IsFirstAvailableBinding(i)
              /\ bindingSlots' = [bindingSlots EXCEPT
                    ![i].binding = Len(bindingLog) + 1, ![i].occupied = TRUE]
              /\ broadcastOrder' = Append(broadcastOrder, handle)
              /\ bindingLog' = Append(bindingLog, [handle |-> handle, left |-> FALSE])
    /\ UNCHANGED <<bBroadcastActive, orderIndex, initialBindingCount, inBinding>>

ValidateLiveHandle(h) ==
    /\ h \in BindingHandles
    /\ bindingSlots[h.index].occupied
    /\ bindingSlots[h.index].generation = h.generation
    /\ Contains(broadcastOrder, h)

(* RetireSlotAndCompactOrder for the slot itself. *)
RetiredSlot(slot) ==
    [slot EXCEPT !.binding = 0, !.occupied = FALSE,
                 !.generation = IF @ < MaxBindingGeneration THEN @ + 1 ELSE @,
                 !.retired = @ \/ slot.generation = MaxBindingGeneration]

RemoveBinding(h) ==
    /\ ~bBroadcastActive
    /\ ValidateLiveHandle(h)
    /\ bindingSlots' = [bindingSlots EXCEPT ![h.index] = RetiredSlot(@)]
    /\ broadcastOrder' = Without(broadcastOrder, h)
    /\ bindingLog' = [s \in DOMAIN bindingLog |->
                        IF bindingLog[s].handle = h THEN [bindingLog[s] EXCEPT !.left = TRUE]
                        ELSE bindingLog[s]]
    /\ UNCHANGED <<bBroadcastActive, orderIndex, initialBindingCount, inBinding>>

BeginBroadcast ==
    /\ ~bBroadcastActive
    /\ bBroadcastActive' = TRUE
    /\ orderIndex' = 1
    /\ initialBindingCount' = Len(broadcastOrder)
    /\ UNCHANGED <<bindingSlots, broadcastOrder, inBinding, bindingLog>>

BindingAt(i) == bindingSlots[broadcastOrder[i].index].binding

(* Execute on a bound delegate enters the callable. *)
CallBinding ==
    /\ bBroadcastActive /\ ~inBinding
    /\ orderIndex <= initialBindingCount
    /\ BindingAt(orderIndex) # 0
    /\ inBinding' = TRUE
    /\ UNCHANGED <<bindingSlots, broadcastOrder, bBroadcastActive, orderIndex,
                   initialBindingCount, bindingLog>>

BindingReturns ==
    /\ inBinding
    /\ inBinding' = FALSE
    /\ orderIndex' = orderIndex + 1
    /\ UNCHANGED <<bindingSlots, broadcastOrder, bBroadcastActive, initialBindingCount,
                   bindingLog>>

(* The loop ends, or Execute fails on an unbound delegate and ends it early. *)
EndBroadcast ==
    /\ bBroadcastActive /\ ~inBinding
    /\ \/ orderIndex > initialBindingCount
       \/ orderIndex <= initialBindingCount /\ BindingAt(orderIndex) = 0
    /\ bBroadcastActive' = FALSE
    /\ orderIndex' = 1
    /\ initialBindingCount' = 0
    /\ UNCHANGED <<bindingSlots, broadcastOrder, inBinding, bindingLog>>

-----------------------------------------------------------------------------
BindingTypeOK ==
    /\ bindingSlots \in [BindingSlots -> FBindingSlot]
    /\ broadcastOrder \in Seq(BindingHandles) /\ Len(broadcastOrder) <= MaxBindings
    /\ bBroadcastActive \in BOOLEAN
    /\ orderIndex \in 1..(MaxBindings + 1)
    /\ initialBindingCount \in 0..MaxBindings
    /\ inBinding \in BOOLEAN
    /\ bindingLog \in Seq([handle: BindingHandles, left: BOOLEAN]) /\ DOMAIN bindingLog \subseteq Adds

(***************************************************************************)
(* A handle names the binding it was given for until that binding is       *)
(* removed, and nothing afterwards.                                        *)
(***************************************************************************)
BindingHandlesNameTheirOwn ==
    \A s \in DOMAIN bindingLog :
        LET h == bindingLog[s].handle
        IN  IF bindingLog[s].left THEN ~ValidateLiveHandle(h)
            ELSE ValidateLiveHandle(h) /\ bindingSlots[h.index].binding = s
=============================================================================
