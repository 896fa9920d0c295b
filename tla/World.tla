------------------------------- MODULE World -------------------------------
(***************************************************************************)
(* UWorld: registration before play, the calls that begin, advance and end *)
(* play, and the barrier that applies the structural changes requested     *)
(* meanwhile.  A call runs in stages; within a stage the agenda of         *)
(* ActorLifecycle runs the moves and hooks of the objects concerned.       *)
(*                                                                         *)
(* Hooks are user code.  The dispatch guard held around them refuses       *)
(* BeginPlay, Advance, EndPlay and all registration, so what they can do   *)
(* is to queue spawns and destroys, and to call ApplyPending, which gets   *)
(* as far as sealing the typed requests before its guard fails.            *)
(***************************************************************************)
EXTENDS DeferredSpawns

CONSTANTS
    Capacity,           \* MaxActors of the world's registry
    Loseable,           \* objects that their owner may destroy behind the world's back
    MaxLost             \* bound: how many of these are gone at most when another is lost

ASSUME WorldAssumption ==
    /\ Capacity \in Nat
    /\ Loseable \subseteq Objects
    /\ MaxLost \in Nat

VARIABLES
    worldState,         \* Lifecycle
    registered,         \* Actors
    subsystems,         \* Subsystems
    pendingSpawn,       \* PendingSpawn
    pendingDestroy,     \* PendingDestroy
    assigned,           \* the actors whose world is assigned
    overbooked,         \* history: an actor was registered in a typed request's room
    overwritten,        \* history: requests left to a barrier when another overwrote its seal
    collecting,         \* a collection cycle is suspended in the store
    call                \* the world's call in progress

registries == <<registered, subsystems, pendingSpawn, pendingDestroy, assigned,
                overbooked, overwritten>>
vars == <<spawnVars, lifecycleVars, worldState, registries, collecting, call>>

NoRequest == [index |-> 0, generation |-> 0]

(***************************************************************************)
(* A call: what it is, its stage, the position of the stage's loop, the    *)
(* first error, and the typed request that it is in the middle of.         *)
(***************************************************************************)
Calls ==
    [op: {"None", "BeginPlay", "Advance", "ApplyPending", "EndPlay"},
     stage: {"Return", "Construct", "Factory", "Subsystems", "Actors", "RollbackActors",
             "FailWorld", "Failed", "EndDoomed", "BeginSpawns", "BeginDeferred", "Published"},
     at: Nat, error: BOOLEAN, request: SpawnHandles \cup {NoRequest}]

NoCall ==
    [op |-> "None", stage |-> "Return", at |-> 1, error |-> FALSE, request |-> NoRequest]
Enter(op, stage) == call' = [NoCall EXCEPT !.op = op, !.stage = stage]
Stage(stage) == call' = [call EXCEPT !.stage = stage, !.at = 1]

Idle == call.op = "None" /\ Quiet
AtStage(stage) == call.op # "None" /\ call.stage = stage /\ Quiet
InUserCode == Idle \/ inHook

Init ==
    /\ SpawnInit /\ LifecycleInit
    /\ worldState = "Constructed"
    /\ registered = <<>> /\ subsystems = <<>>
    /\ pendingSpawn = <<>> /\ pendingDestroy = <<>>
    /\ assigned = {}
    /\ overbooked = FALSE /\ overwritten = {}
    /\ collecting = FALSE
    /\ call = NoCall

-----------------------------------------------------------------------------
(* Before play. *)

(* Registration counts the registered actors, not the requests accepted already. *)
Register(a) ==
    /\ Idle /\ ~collecting /\ worldState = "Constructed"
    /\ Resolves(a) /\ a \notin assigned
    /\ Len(registered) < Capacity
    /\ registered' = Append(registered, a)
    /\ assigned' = assigned \cup {a}
    /\ overbooked' = (overbooked \/ Len(registered) + PendingCount >= Capacity)
    /\ UNCHANGED <<spawnVars, lifecycleVars, worldState, subsystems, pendingSpawn,
                   pendingDestroy, overwritten, collecting, call>>

RegisterSubsystem(s) ==
    /\ Idle /\ ~collecting /\ worldState = "Constructed"
    /\ Resolves(s) /\ ~Contains(subsystems, s)
    /\ subsystems' = Append(subsystems, s)
    /\ UNCHANGED <<spawnVars, lifecycleVars, worldState, registered, pendingSpawn,
                   pendingDestroy, assigned, overbooked, overwritten, collecting, call>>

RegisterComponentOf(a, c) ==
    /\ Idle /\ ~collecting
    /\ RegisterComponent(a, c)
    /\ UNCHANGED <<spawnVars, worldState, registries, collecting, call>>

(* The owner destroys an object through the store; the world is not told. *)
LoseObject(x) ==
    /\ Idle /\ ~collecting
    /\ Resolves(x)
    /\ Cardinality({y \in Loseable : object[y] = "Dead"}) < MaxLost
    /\ object' = Destroyed({x})
    /\ UNCHANGED <<lifecycle, components, agenda, inHook>>
    /\ UNCHANGED <<spawnVars, worldState, registries, collecting, call>>

(* The collector begins a cycle, and later completes or cancels it. *)
ToggleCollection ==
    /\ Idle
    /\ collecting' = ~collecting
    /\ UNCHANGED <<spawnVars, lifecycleVars, worldState, registries, call>>

-----------------------------------------------------------------------------
(* Requests, also from hooks. *)
\* Mutant: only what the registry and its queue hold is counted.
TypedRequestsUncounted == Len(registered) + Len(pendingSpawn) < Capacity

CanAcceptMoreActors == Len(registered) + Len(pendingSpawn) + PendingCount < Capacity

SpawnActor(a) ==
    /\ InUserCode /\ worldState = "Playing"
    /\ Resolves(a) /\ a \notin assigned /\ ~Contains(pendingSpawn, a)
    /\ CanAcceptMoreActors
    /\ pendingSpawn' = Append(pendingSpawn, a)
    /\ UNCHANGED <<spawnVars, lifecycleVars, worldState, registered, subsystems,
                   pendingDestroy, assigned, overbooked, overwritten, collecting, call>>

CheckDeferredSpawnRequest ==
    worldState \in {"Constructed", "Playing"} /\ ~collecting /\ CanAcceptMoreActors

QueueTypedActor ==
    /\ InUserCode /\ CheckDeferredSpawnRequest
    /\ QueueFactory \/ ReserveNothing
    /\ UNCHANGED <<lifecycleVars, worldState, registries, collecting, call>>

DestroyActor(a) ==
    /\ InUserCode /\ worldState = "Playing"
    /\ Resolves(a) /\ Contains(registered, a) /\ ~Contains(pendingDestroy, a)
    /\ pendingDestroy' = Append(pendingDestroy, a)
    /\ UNCHANGED <<spawnVars, lifecycleVars, worldState, registered, subsystems,
                   pendingSpawn, assigned, overbooked, overwritten, collecting, call>>

\* Mutant: a barrier with nothing but typed requests returns at once.
TypedRequestsForgotten == pendingDestroy # <<>> \/ pendingSpawn # <<>>

HasPendingBarrierWork == pendingDestroy # <<>> \/ pendingSpawn # <<>> \/ PendingCount # 0

(***************************************************************************)
(* What the call in progress has sealed and still has to serve, besides the*)
(* request that it is in the middle of.                                    *)
(***************************************************************************)
IsInHands(h) == call.stage \in {"Factory", "Published"} /\ call.request = h

LeftSealed ==
    {h \in ToSet(sealedFactories) : StateOf(h) = "Queued" /\ ~IsInHands(h)} \cup
    {h \in ToSet(sealedPublishes) : StateOf(h) = "ConstructedPendingPublish" /\ ~IsInHands(h)}

(***************************************************************************)
(* ApplyPending called where its guard cannot be had: in a cycle, or from a*)
(* hook, where the seal it begins with overwrites that of the outer call.  *)
(***************************************************************************)
RefusedBarrier ==
    /\ inHook \/ (Idle /\ collecting)
    /\ worldState = "Playing"
    /\ IF HasPendingBarrierWork THEN SealAndRestore ELSE SealBarrier
    /\ overwritten' = overwritten \cup LeftSealed
    /\ UNCHANGED <<registered, subsystems, pendingSpawn, pendingDestroy, assigned, overbooked>>
    /\ UNCHANGED <<lifecycleVars, worldState, collecting, call>>

HookReturns ==
    /\ inHook
    /\ inHook' = FALSE
    /\ UNCHANGED <<lifecycle, object, components, agenda>>
    /\ UNCHANGED <<spawnVars, worldState, registries, collecting, call>>

-----------------------------------------------------------------------------
(* What the stages have in common. *)
\* Mutant: actors end in the order in which they were registered.
EndActorsForward(actors) ==
    FlattenSeq([i \in DOMAIN actors |->
        IF Resolves(actors[i]) THEN EndSteps(actors[i]) ELSE <<>>])

(* DispatchEndPlay for a sequence of actors, last to first. *)
EndActors(actors) ==
    FlattenSeq([i \in DOMAIN actors |->
        LET a == Reverse(actors)[i] IN IF Resolves(a) THEN EndSteps(a) ELSE <<>>])

DeinitializeSubsystems ==
    FlattenSeq([i \in DOMAIN subsystems |-> DeinitializeSteps(Reverse(subsystems)[i])])

ActorsThatBegin == {a \in Actors : Resolves(a) /\ ~BeginFails(a)}
ActorsThatAdvance == {a \in Actors : Resolves(a) /\ ~AdvanceFails(a)}

(* Every actor in order, until one of them fails; that one still does its part. *)
DispatchInOrder(able, moves) ==
    LET works == Prefix(registered, able)
        tried == IF works = registered THEN works
                 ELSE Append(works, registered[Len(works) + 1])
    IN  FlattenSeq([i \in DOMAIN tried |->
            IF Resolves(tried[i]) THEN moves[tried[i]] ELSE <<>>])

(* Dispatching an agenda leaves everything but itself to the hooks. *)
Dispatch(moves) == agenda' = moves /\ UNCHANGED <<lifecycle, object, components, inHook>>

BeginPlay ==
    /\ Idle /\ ~collecting /\ worldState = "Constructed"
    /\ worldState' = "Playing"
    /\ SealBarrier
    /\ Enter("BeginPlay", "Construct")
    /\ UNCHANGED <<lifecycleVars, registries, collecting>>

(* ConstructDeferredSpawns enters the next factory: user code, like a hook. *)
EnterFactory ==
    /\ AtStage("Construct") /\ call.at <= Len(sealedFactories)
    /\ call' = [call EXCEPT !.stage = "Factory", !.request = sealedFactories[call.at]]
    /\ inHook' = TRUE
    /\ UNCHANGED <<lifecycle, object, components, agenda>>
    /\ UNCHANGED <<spawnVars, worldState, registries, collecting>>

(***************************************************************************)
(* The factory returns: it made an actor, or the store, the class registry *)
(* or the constructor failed.                                              *)
(***************************************************************************)
Construct(h) ==
    \/ \E a \in TypedActors : \E made \in DefaultSubobjects :
          Born(a, made) /\ ConstructSucceeds(h, a)
    \/ ConstructFails(h) /\ UNCHANGED lifecycleVars

FactoryReturns ==
    /\ AtStage("Factory")
    /\ Construct(call.request)
    /\ call' = [call EXCEPT !.stage = "Construct", !.at = @ + 1, !.request = NoRequest]
    /\ UNCHANGED <<worldState, registries, collecting>>

Return == call' = NoCall

AnySealedFailed == \E i \in DOMAIN sealedFactories : StateOf(sealedFactories[i]) = "Failed"

(* AbortPrePlayConstruction: what this BeginPlay had constructed is destroyed. *)
FailConstruction ==
    /\ AtStage("Construct") /\ call.at > Len(sealedFactories)
    /\ call.op = "BeginPlay" /\ AnySealedFailed
    /\ LET made == {GetConstructedActor(sealedPublishes[i]) : i \in DOMAIN sealedPublishes}
       IN  object' = Destroyed(WithComponents({a \in made \cap TypedActors : Resolves(a)}))
    /\ AbortSealedBatch
    /\ worldState' = "Failed"
    /\ Return
    /\ UNCHANGED <<lifecycle, components, agenda, inHook>>
    /\ UNCHANGED <<registries, collecting>>

EndConstruct ==
    /\ AtStage("Construct") /\ call.at > Len(sealedFactories)
    /\ ~(call.op = "BeginPlay" /\ AnySealedFailed)
    /\ Stage(IF call.op = "BeginPlay" THEN "Subsystems" ELSE "BeginDeferred")
    /\ UNCHANGED <<spawnVars, lifecycleVars, worldState, registries, collecting>>

(* InitializeSubsystemsWithRollback. *)
InitializeSubsystems ==
    /\ AtStage("Subsystems")
    /\ LET ready == Prefix(subsystems, {s \in Subsystems : Begins(s)})
       IN  IF ready = subsystems
           THEN Dispatch(Each(ready, "Playing")) /\ Stage("Actors")
           ELSE Dispatch(Each(ready, "Playing") \o RollbackSteps(ready)) /\ Stage("Failed")
    /\ UNCHANGED <<spawnVars, worldState, registries, collecting>>

(* BeginRegisteredActorsWithRollback; "at" keeps how many actors have begun. *)
BeginActors ==
    /\ AtStage("Actors")
    /\ Dispatch(DispatchInOrder(ActorsThatBegin, [a \in Actors |-> BeginSteps(a)]))
    /\ LET begun == Prefix(registered, ActorsThatBegin)
       IN  IF begun = registered THEN Stage("BeginDeferred")
           ELSE call' = [call EXCEPT !.stage = "RollbackActors", !.at = Len(begun)]
    /\ UNCHANGED <<spawnVars, worldState, registries, collecting>>

RollbackActors ==
    /\ AtStage("RollbackActors")
    /\ Dispatch(EndActors(SubSeq(registered, 1, call.at)))
    /\ Stage("FailWorld")
    /\ UNCHANGED <<spawnVars, worldState, registries, collecting>>

(* The world has failed before its subsystems are deinitialized. *)
FailWorld ==
    /\ AtStage("FailWorld")
    /\ worldState' = "Failed"
    /\ Dispatch(DeinitializeSubsystems)
    /\ Stage("Return")
    /\ UNCHANGED <<spawnVars, registries, collecting>>

(* The world fails once everything else is undone. *)
FailAtLast ==
    /\ AtStage("Failed")
    /\ worldState' = "Failed"
    /\ Return
    /\ UNCHANGED <<spawnVars, lifecycleVars, registries, collecting>>

CannotAdvance == \E a \in ToSet(registered) : a \notin ActorsThatAdvance

Advance ==
    /\ Idle /\ ~collecting /\ worldState = "Playing"
    /\ Dispatch(DispatchInOrder(ActorsThatAdvance, [a \in Actors |-> AdvanceSteps(a)]))
    /\ call' = [NoCall EXCEPT !.op = "Advance", !.error = CannotAdvance]
    /\ UNCHANGED <<spawnVars, worldState, registries, collecting>>

EndPlay ==
    /\ Idle /\ ~collecting /\ worldState = "Playing"
    /\ worldState' = "Ended"
    /\ Dispatch(EndActors(registered) \o DeinitializeSubsystems)
    /\ Enter("EndPlay", "Return")
    /\ UNCHANGED <<spawnVars, registries, collecting>>

CallReturns ==
    /\ AtStage("Return")
    /\ Return
    /\ UNCHANGED <<spawnVars, lifecycleVars, worldState, registries, collecting>>

-----------------------------------------------------------------------------
(* The barrier. *)
BeginBarrier ==
    /\ SealBarrier
    /\ Enter("ApplyPending", IF HasPendingBarrierWork THEN "EndDoomed" ELSE "Return")
    /\ UNCHANGED <<lifecycleVars, worldState, registries, collecting>>

ApplyPending == Idle /\ ~collecting /\ worldState = "Playing" /\ BeginBarrier

(* The engine's frame goes on to the barrier, unless Advance has failed. *)
ApplyBarrierAfterAdvance ==
    AtStage("Return") /\ call.op = "Advance" /\ ~call.error /\ BeginBarrier

(* EndDoomedActorsUnderGuard: hooks may lengthen the list it walks. *)
EndNextDoomed ==
    /\ AtStage("EndDoomed") /\ call.at <= Len(pendingDestroy)
    /\ LET a == pendingDestroy[call.at]
       IN  /\ Dispatch(IF Resolves(a) THEN EndSteps(a) ELSE <<>>)
           /\ call' = [call EXCEPT !.at = @ + 1, !.error = @ \/ (Resolves(a) /\ EndFails(a))]
    /\ UNCHANGED <<spawnVars, worldState, registries, collecting>>

MarkAndUnregisterDoomedActors ==
    /\ AtStage("EndDoomed") /\ call.at > Len(pendingDestroy)
    /\ LET doomed == {a \in ToSet(pendingDestroy) : Resolves(a)}
       IN  /\ object' = Destroyed(WithComponents(doomed))
           /\ registered' = Kept(registered, Actors \ doomed)
           /\ spawnSlots' = Released(doomed \cap ToSet(registered))
    /\ pendingDestroy' = <<>>
    /\ call' = [call EXCEPT !.stage = "BeginSpawns", !.at = 1]
    /\ UNCHANGED <<factoryQueue, publishQueue, sealedFactories, sealedPublishes>>
    /\ UNCHANGED <<lifecycle, components, agenda, inHook>>
    /\ UNCHANGED <<worldState, subsystems, pendingSpawn, assigned>>
    /\ UNCHANGED <<overbooked, overwritten, collecting>>

(* AssignWorld, Actors.Add and DispatchActorBegin. *)
Publish(a) ==
    /\ assigned' = assigned \cup {a}
    /\ registered' = Append(registered, a)
    /\ Dispatch(BeginSteps(a))

(* BeginPendingSpawnsUnderGuard: hooks may lengthen this list too. *)
BeginNextSpawn ==
    /\ AtStage("BeginSpawns") /\ call.at <= Len(pendingSpawn)
    /\ LET a == pendingSpawn[call.at]
       IN  /\ IF Resolves(a) THEN Publish(a)
              ELSE UNCHANGED <<lifecycleVars, registered, assigned>>
           /\ call' = [call EXCEPT !.at = @ + 1, !.error = @ \/ (Resolves(a) /\ BeginFails(a))]
    /\ UNCHANGED <<spawnVars, worldState, subsystems, pendingSpawn, pendingDestroy>>
    /\ UNCHANGED <<overbooked, overwritten, collecting>>

\* Mutant: the typed requests are sealed after the destroys and spawns.
LateSeal ==
    /\ AtStage("BeginSpawns") /\ call.at > Len(pendingSpawn)
    /\ pendingSpawn' = <<>>
    /\ call' = [call EXCEPT !.stage = "Construct", !.at = 1]
    /\ SealBarrier
    /\ UNCHANGED <<lifecycleVars, worldState, registered, subsystems,
                   pendingDestroy, assigned, overbooked, overwritten, collecting>>

EndSpawns ==
    /\ AtStage("BeginSpawns") /\ call.at > Len(pendingSpawn)
    /\ pendingSpawn' = <<>>
    /\ call' = [call EXCEPT !.stage = "Construct", !.at = 1]
    /\ UNCHANGED <<spawnVars, lifecycleVars, worldState, registered, subsystems,
                   pendingDestroy, assigned, overbooked, overwritten, collecting>>

(* BeginDeferredSpawnsWithGuardHeld: the request is completed after BeginPlay. *)
BeginNextDeferred ==
    /\ AtStage("BeginDeferred") /\ call.at <= Len(sealedPublishes)
    /\ LET h == sealedPublishes[call.at]
           a == GetConstructedActor(h)
       IN  IF a # NoActor /\ Resolves(a)
           THEN /\ Publish(a)
                /\ call' = [call EXCEPT !.stage = "Published", !.request = h,
                                        !.error = @ \/ BeginFails(a)]
           ELSE /\ call' = [call EXCEPT !.at = @ + 1]
                /\ UNCHANGED <<lifecycleVars, registered, assigned>>
    /\ UNCHANGED <<spawnVars, worldState, subsystems, pendingSpawn, pendingDestroy>>
    /\ UNCHANGED <<overbooked, overwritten, collecting>>

CompleteDeferred ==
    /\ AtStage("Published")
    /\ CompletePublish(call.request)
    /\ call' = [call EXCEPT !.stage = "BeginDeferred", !.at = @ + 1, !.request = NoRequest]
    /\ UNCHANGED <<lifecycleVars, worldState, registries, collecting>>

(* The call is over, except for a BeginPlay one of whose typed actors failed. *)
EndDeferred ==
    /\ AtStage("BeginDeferred") /\ call.at > Len(sealedPublishes)
    /\ IF call.op = "BeginPlay" /\ call.error
       THEN Dispatch(EndActors(registered) \o DeinitializeSubsystems) /\ Stage("Failed")
       ELSE Return /\ UNCHANGED lifecycleVars
    /\ UNCHANGED <<spawnVars, worldState, registries, collecting>>

-----------------------------------------------------------------------------
Dispatching == DispatchStep /\ UNCHANGED <<spawnVars, worldState, registries, collecting, call>>

CallStep ==
    \/ Dispatching
    \/ ApplyBarrierAfterAdvance
    \/ EnterFactory \/ FactoryReturns \/ FailConstruction \/ EndConstruct
    \/ InitializeSubsystems \/ BeginActors \/ RollbackActors \/ FailWorld \/ FailAtLast
    \/ EndNextDoomed \/ MarkAndUnregisterDoomedActors \/ BeginNextSpawn \/ EndSpawns
    \/ BeginNextDeferred \/ CompleteDeferred \/ EndDeferred
    \/ CallReturns

UserStep ==
    \/ \E a \in ManualActors : Register(a) \/ SpawnActor(a)
    \/ \E a \in Actors, c \in Components : RegisterComponentOf(a, c)
    \/ \E s \in Subsystems : RegisterSubsystem(s)
    \/ \E x \in Loseable : LoseObject(x)
    \/ \E a \in Actors : DestroyActor(a)
    \/ QueueTypedActor
    \/ RefusedBarrier
    \/ BeginPlay \/ Advance \/ ApplyPending \/ EndPlay
    \/ ToggleCollection

(***************************************************************************)
(* Actors.Add does not look at the capacity: an actor too many is written  *)
(* over the registry's count and what lies behind it.  What the program    *)
(* does from then on is undefined, and the model has nothing to say of it. *)
(***************************************************************************)
Overrun == Len(registered) > Capacity
Undefined == Overrun /\ UNCHANGED vars

Defined == ~Overrun /\ (UserStep \/ CallStep \/ HookReturns)

Next == Defined \/ Undefined

Spec == Init /\ [][Next]_vars

(***************************************************************************)
(* Fairness: a call goes on by itself, a hook returns in the end whatever  *)
(* it requested on the way, a collection cycle is completed, and the host  *)
(* ticks its engine for ever: each tick advances the world, and goes on to *)
(* the barrier if that succeeds.                                           *)
(***************************************************************************)
Fairness ==
    /\ WF_vars(Defined /\ (CallStep \/ HookReturns \/ (collecting /\ ToggleCollection)))
    /\ SF_vars(Advance)
    /\ SF_vars(ApplyBarrierAfterAdvance)

FairSpec == Spec /\ Fairness

-----------------------------------------------------------------------------
TypeOK ==
    /\ SpawnTypeOK /\ LifecycleTypeOK
    /\ worldState \in Phases
    /\ registered \in Seq(Actors)
    /\ subsystems \in Seq(Subsystems)
    /\ pendingSpawn \in Seq(ManualActors) /\ Len(pendingSpawn) <= Capacity
    /\ pendingDestroy \in Seq(Actors)
    /\ assigned \subseteq Actors
    /\ overbooked \in BOOLEAN /\ overwritten \subseteq SpawnHandles
    /\ collecting \in BOOLEAN
    /\ call \in Calls

(***************************************************************************)
(* The registry of actors holds each actor once, and never more of them    *)
(* than the world has room for, whatever mixture of registrations, spawns  *)
(* and typed requests led there -- but for the one mixture that the code   *)
(* lets through: before play, an actor registered in the room that a typed *)
(* request was promised (World_ActorRegistration.cpp:86 against            *)
(* World_SpawnDestroy.cpp:104-109), which BeginPlay then overruns.         *)
(***************************************************************************)
RegistryWithinCapacity ==
    /\ Cardinality(ToSet(registered)) = Len(registered)
    /\ Overrun => overbooked

(* The world keeps its types and its registry. *)
RegistrySound == TypeOK /\ RegistryWithinCapacity

(***************************************************************************)
(* Between two calls no actor is half in play: its components play exactly *)
(* while it does, whichever of them failed to begin; what the world has    *)
(* destroyed it has destroyed with its components; and a world that has    *)
(* ended, or failed to begin, has left nothing in play but the components  *)
(* of actors that their owner destroyed behind its back.                   *)
(***************************************************************************)
IsOrphan(c) ==
    \E a \in Actors \cap Loseable : object[a] = "Dead" /\ Contains(components[a], c)

NoHalfPlay ==
    Idle =>
        /\ \A a \in Actors : Resolves(a) =>
              \A c \in ToSet(components[a]) : Resolves(c) => (Plays(c) <=> Plays(a))
        /\ \A a \in Actors \ Loseable : object[a] = "Dead" =>
              \A c \in ToSet(components[a]) : ~Resolves(c)
        /\ worldState \in {"Failed", "Ended"} => \A x \in Objects : Plays(x) => IsOrphan(x)

(***************************************************************************)
(* Between two calls of a world that has not failed, every typed request   *)
(* that is reported as queued waits for the next barrier, once, unless it  *)
(* was left to a barrier whose seal a hook's call of ApplyPending          *)
(* overwrote (World_SpawnDestroy.cpp:186-207): that one is lost.  No other *)
(* request waits, and a request is reported as spawned exactly while its   *)
(* actor is registered.                                                    *)
(***************************************************************************)
Occurrences(q, h) == Cardinality({i \in DOMAIN q : q[i] = h})
RequestIn(i) == [index |-> i, generation |-> spawnSlots[i].generation]

RequestsAccounted ==
    Idle /\ worldState # "Failed" =>
        /\ \A i \in SpawnSlots :
              /\ Occurrences(factoryQueue, RequestIn(i)) <=
                    (IF spawnSlots[i].state = "Queued" THEN 1 ELSE 0)
              /\ spawnSlots[i].state = "Queued" =>
                    Contains(factoryQueue, RequestIn(i)) \/ RequestIn(i) \in overwritten
              /\ Occurrences(publishQueue, RequestIn(i)) = 0
              /\ spawnSlots[i].state = "ConstructedPendingPublish" =>
                    RequestIn(i) \in overwritten
        /\ \A a \in TypedActors :
              Contains(registered, a) <=>
                \E i \in SpawnSlots : spawnSlots[i].state = "Spawned" /\ spawnSlots[i].actor = a

(***************************************************************************)
(* Play starts and stops in order.  While a world begins, an actor begins  *)
(* only after all subsystems and all the actors registered before it; and  *)
(* whether play ends or a beginning is undone, an actor ends only after    *)
(* all those registered after it, and a subsystem after all the actors and *)
(* the subsystems registered after it.                                     *)
(***************************************************************************)
Started(x) == lifecycle[x] # "Playing" /\ lifecycle'[x] = "Playing"
Stopped(x) == lifecycle[x] = "Playing" /\ lifecycle'[x] = "Ended"

StopsInReverse(s) ==
    \A i \in DOMAIN s : Stopped(s[i]) => \A j \in DOMAIN s : j > i => ~Plays(s[j])

StartAndStopInOrder ==
    [][/\ call.op = "BeginPlay" =>
            \A i \in DOMAIN registered : Started(registered[i]) =>
                /\ \A s \in ToSet(subsystems) : Plays(s)
                /\ \A j \in 1..(i - 1) : Plays(registered[j])
       /\ call.op \in {"BeginPlay", "EndPlay"} =>
            /\ StopsInReverse(registered) /\ StopsInReverse(subsystems)
            /\ \A s \in ToSet(subsystems) : Stopped(s) =>
                    \A a \in ToSet(registered) : ~Plays(a)]_vars

(***************************************************************************)
(* What a callback requests while a barrier is under way waits for the     *)
(* next one: the typed requests accepted during a call are all still       *)
(* queued, in their order, when it returns.                                *)
(***************************************************************************)
BarrierIsFrozen ==
    [][call.op = "ApplyPending" => IsPrefix(factoryQueue, factoryQueue')]_vars

(***************************************************************************)
(* The barrier serves every request the world has accepted: between two    *)
(* calls of a world that has not failed, a typed request that is reported  *)
(* as queued waits in the queue that the next barrier seals (World.h:276,  *)
(* "Apply every queued change").  A hook that calls ApplyPending refutes   *)
(* this.                                                                   *)
(***************************************************************************)
QueuedRequestsWait ==
    Idle /\ worldState # "Failed" =>
        \A i \in SpawnSlots : spawnSlots[i].state = "Queued" =>
            Contains(factoryQueue, RequestIn(i))

(***************************************************************************)
(* While the world plays, every request is served in the end: a typed one  *)
(* is constructed or fails, or was overwritten, and an actor to be         *)
(* destroyed leaves.  But a tick whose Advance fails never reaches the     *)
(* barrier (EngineHost.h:577-592), so a world that from some time on can   *)
(* never advance, for an actor whose owner destroyed it or that failed to  *)
(* begin, may leave its requests for ever.                                 *)
(***************************************************************************)
EveryRequestIsServed ==
    \/ <>[](CannotAdvance \/ Overrun)
    \/ /\ \A i \in SpawnSlots :
             (spawnSlots[i].state = "Queued") ~>
                  \/ spawnSlots[i].state # "Queued" \/ RequestIn(i) \in overwritten
                  \/ worldState # "Playing"
       /\ (pendingDestroy # <<>>) ~> (pendingDestroy = <<>> \/ worldState # "Playing")
=============================================================================
