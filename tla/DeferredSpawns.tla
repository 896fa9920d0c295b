--------------------------- MODULE DeferredSpawns ---------------------------
(***************************************************************************)
(* TDeferredActorSpawnStorage: typed spawn requests, from the call that    *)
(* captured their factory to the barrier that constructs and publishes the *)
(* actor.  A barrier seals the two queues first, so that it works on the   *)
(* requests that were there when it began, whatever its callbacks add.     *)
(***************************************************************************)
EXTENDS ActorLifecycle

CONSTANTS
    MaxRequests,            \* slots
    MaxSpawnGeneration,     \* largest slot generation (2^32 - 1 in the code)
    NoActor

ASSUME SpawnAssumption ==
    /\ MaxRequests \in Nat \ {0}
    /\ MaxSpawnGeneration \in Nat \ {0}
    /\ NoActor \notin TypedActors

VARIABLES
    spawnSlots,             \* Slots
    factoryQueue,           \* FactoryQueue: captured, not yet sealed
    publishQueue,           \* PublishQueue: constructed, put back by a barrier
    sealedFactories,        \* SealedFactoryQueue
    sealedPublishes         \* SealedPublishQueue

spawnVars == <<spawnSlots, factoryQueue, publishQueue, sealedFactories, sealedPublishes>>

SpawnSlots == 1..MaxRequests
SpawnHandles == [index: SpawnSlots, generation: 1..MaxSpawnGeneration]
SpawnStates ==
    {"Free", "Queued", "ConstructedPendingPublish", "Spawned", "Failed", "Released", "Retired"}

FSlot ==
    [generation: 0..MaxSpawnGeneration, state: SpawnStates, actor: TypedActors \cup {NoActor}]

SpawnInit ==
    /\ spawnSlots = [i \in SpawnSlots |-> [generation |-> 0, state |-> "Free", actor |-> NoActor]]
    /\ factoryQueue = <<>> /\ publishQueue = <<>>
    /\ sealedFactories = <<>> /\ sealedPublishes = <<>>

IsSlotReusable(slot) == slot.state \in {"Free", "Failed", "Released"}

(***************************************************************************)
(* Reserve walks the slots and takes the first reusable one; the used-up   *)
(* ones it meets on the way it retires, also when it finds nothing at all. *)
(***************************************************************************)
Reservable == {i \in SpawnSlots :
    IsSlotReusable(spawnSlots[i]) /\ spawnSlots[i].generation < MaxSpawnGeneration}
IsFirstReservable(i) == i \in Reservable /\ \A j \in Reservable : i <= j

RetiredBefore(i) ==
    [j \in SpawnSlots |->
        IF j < i /\ IsSlotReusable(spawnSlots[j])
        THEN [spawnSlots[j] EXCEPT !.state = "Retired"] ELSE spawnSlots[j]]

(* Reserve, the capture of the factory, and Activate. *)
QueueFactory ==
    /\ \E i \in SpawnSlots :
          /\ IsFirstReservable(i)
          /\ spawnSlots' = [RetiredBefore(i) EXCEPT
                ![i] = [generation |-> @.generation + 1, state |-> "Queued", actor |-> NoActor]]
          /\ factoryQueue' = Append(factoryQueue,
                [index |-> i, generation |-> spawnSlots[i].generation + 1])
    /\ UNCHANGED <<publishQueue, sealedFactories, sealedPublishes>>

ReserveNothing ==
    /\ Reservable = {}
    /\ spawnSlots' = RetiredBefore(MaxRequests + 1)
    /\ UNCHANGED <<factoryQueue, publishQueue, sealedFactories, sealedPublishes>>

SlotMatches(h) == h \in SpawnHandles /\ spawnSlots[h.index].generation = h.generation
StateOf(h) == IF SlotMatches(h) THEN spawnSlots[h.index].state ELSE "Free"

PendingSlots ==
    {i \in SpawnSlots : spawnSlots[i].state \in {"Queued", "ConstructedPendingPublish"}}
PendingCount == Cardinality(PendingSlots)

SealBarrier ==
    /\ sealedFactories' = factoryQueue /\ factoryQueue' = <<>>
    /\ sealedPublishes' = publishQueue /\ publishQueue' = <<>>
    /\ UNCHANGED spawnSlots

(***************************************************************************)
(* SealBarrier followed by the two Restore calls of a barrier that cannot  *)
(* run: whatever an outer barrier had sealed is overwritten by the first,  *)
(* and what the second puts back is what was queued, in its order.         *)
(***************************************************************************)
SealAndRestore ==
    /\ sealedFactories' = <<>> /\ sealedPublishes' = <<>>
    /\ factoryQueue' = Kept(factoryQueue, {h \in SpawnHandles : StateOf(h) = "Queued"})
    /\ publishQueue' =
          Kept(publishQueue, {h \in SpawnHandles : StateOf(h) = "ConstructedPendingPublish"})
    /\ UNCHANGED spawnSlots

(* Construct, once the factory has run: it made an actor, or it failed. *)
ConstructSucceeds(h, actor) ==
    /\ spawnSlots' = [spawnSlots EXCEPT
            ![h.index].state = "ConstructedPendingPublish", ![h.index].actor = actor]
    /\ sealedPublishes' = Append(sealedPublishes, h)
    /\ UNCHANGED <<factoryQueue, publishQueue, sealedFactories>>

ConstructFails(h) ==
    /\ spawnSlots' = [spawnSlots EXCEPT ![h.index].state = "Failed", ![h.index].actor = NoActor]
    /\ UNCHANGED <<factoryQueue, publishQueue, sealedFactories, sealedPublishes>>

GetConstructedActor(h) ==
    IF StateOf(h) = "ConstructedPendingPublish" THEN spawnSlots[h.index].actor ELSE NoActor

CompletePublish(h) ==
    /\ spawnSlots' = IF StateOf(h) = "ConstructedPendingPublish"
                     THEN [spawnSlots EXCEPT ![h.index].state = "Spawned"] ELSE spawnSlots
    /\ UNCHANGED <<factoryQueue, publishQueue, sealedFactories, sealedPublishes>>

AbortSealedBatch ==
    /\ spawnSlots' = [i \in SpawnSlots |->
            IF i \in PendingSlots
            THEN [spawnSlots[i] EXCEPT !.state = "Failed", !.actor = NoActor] ELSE spawnSlots[i]]
    /\ factoryQueue' = <<>> /\ publishQueue' = <<>>
    /\ sealedFactories' = <<>> /\ sealedPublishes' = <<>>

\* Mutant: the request keeps naming an actor that has left the world.
NeverReleased(actors) == spawnSlots

(* ReleaseActor for each of a set of actors. *)
Released(actors) ==
    [i \in SpawnSlots |->
        IF spawnSlots[i].state = "Spawned" /\ spawnSlots[i].actor \in actors
        THEN [spawnSlots[i] EXCEPT !.state = "Released", !.actor = NoActor] ELSE spawnSlots[i]]

SpawnTypeOK ==
    /\ spawnSlots \in [SpawnSlots -> FSlot]
    /\ \A q \in {factoryQueue, publishQueue, sealedFactories, sealedPublishes} :
          q \in Seq(SpawnHandles) /\ Len(q) <= MaxRequests
=============================================================================
