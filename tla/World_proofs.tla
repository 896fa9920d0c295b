----------------------------- MODULE World_proofs -----------------------------
(***************************************************************************)
(* Proofs about a world, for every set of objects, number of requests and  *)
(* capacity, and whatever hooks request: types, the registry of actors,    *)
(* the fate of typed requests, and play: what a call makes of the          *)
(* lifecycles of actors, components and subsystems.                        *)
(***************************************************************************)
EXTENDS World, TableLemmas

-----------------------------------------------------------------------------
(* The steps of an actor and of a call.                                    *)

LEMMA PrefixIs ==
    ASSUME NEW S, NEW q \in Seq(S), NEW able
    PROVE  /\ Prefix(q, able) \in Seq(S) /\ Len(Prefix(q, able)) \in 0..Len(q)
           /\ Prefix(q, able) = SubSeq(q, 1, Len(Prefix(q, able)))
           /\ Len(Prefix(q, able)) = Len(q) => Prefix(q, able) = q
<1> DEFINE reached == {i \in DOMAIN q : \A j \in 1..i : q[j] \in able}
<1>1. Len(q) \in Nat /\ DOMAIN q = 1..Len(q)
  OBVIOUS
<1>2. IsFiniteSet(1..Len(q)) /\ Cardinality(1..Len(q)) = Len(q) /\ reached \subseteq 1..Len(q)
  BY <1>1, FS_Interval
<1> HIDE DEF reached
<1>3. Cardinality(reached) \in Nat /\ Cardinality(reached) <= Len(q)
  BY <1>2, FS_Subset, FS_CardinalityType
<1>4. Prefix(q, able) = SubSeq(q, 1, Cardinality(reached))
  BY DEF Prefix, reached
<1>5. SubSeq(q, 1, Len(q)) = q
  OBVIOUS
<1> QED
  BY <1>1, <1>3, <1>4, <1>5, FirstPart

LEMMA ObjectKinds ==
    /\ Actors \subseteq Objects /\ Components \subseteq Objects /\ Subsystems \subseteq Objects
    /\ ManualActors \subseteq Actors /\ TypedActors \subseteq Actors
    /\ ManualActors \cap TypedActors = {}
  BY LifecycleAssumption DEF LifecycleAssumption, Objects, Actors

LEMMA EachTyped ==
    ASSUME NEW q \in Seq(Objects), NEW phase \in Phases
    PROVE  Each(q, phase) \in Seq(Steps)
<1>1. \A i \in 1..Len(q) : Hook(q[i], phase) \in Steps
  BY DEF Hook, Steps
<1> QED
  BY <1>1 DEF Each

LEMMA OneStep ==
    ASSUME NEW x \in Objects, NEW phase \in Phases
    PROVE  <<Hook(x, phase)>> \in Seq(Steps) /\ <<Move(x, phase)>> \in Seq(Steps)
  BY DEF Hook, Move, Steps

LEMMA OfObjects ==
    ASSUME NEW S \in SUBSET Objects, NEW q \in Seq(S)
    PROVE  q \in Seq(Objects)
  OBVIOUS

LEMMA PhasesAre == {"Constructed", "Playing", "Failed", "Ended"} = Phases
  BY DEF Phases

LEMMA NoSteps == <<>> \in Seq(Steps)
  OBVIOUS

LEMMA ComponentsAre ==
    ASSUME LifecycleTypeOK, NEW a \in Actors
    PROVE  components[a] \in Seq(Components)
  BY DEF LifecycleTypeOK

LEMMA BeginStepsTyped ==
    ASSUME LifecycleTypeOK, NEW a \in Actors
    PROVE  BeginSteps(a) \in Seq(Steps)
<1> DEFINE begun == Prefix(components[a], {c \in Components : Begins(c)})
<1>1. begun \in Seq(Objects) /\ Reverse(begun) \in Seq(Objects) /\ a \in Objects
  BY ComponentsAre, OfObjects, ObjectKinds, PrefixIs, Reversed
<1> HIDE DEF begun
<1>2. /\ <<Move(a, "Playing")>> \in Seq(Steps) /\ Each(begun, "Playing") \in Seq(Steps)
      /\ <<Hook(a, "Playing")>> \in Seq(Steps) /\ RollbackSteps(begun) \in Seq(Steps)
      /\ <<Move(a, "Failed")>> \in Seq(Steps)
  BY <1>1, EachTyped, OneStep, PhasesAre DEF RollbackSteps
<1>3. RollbackSteps(begun) \o <<Move(a, "Failed")>> \in Seq(Steps)
  BY <1>2, Concatenated
<1> DEFINE last == IF begun = components[a] THEN <<Hook(a, "Playing")>>
                   ELSE RollbackSteps(begun) \o <<Move(a, "Failed")>>
<1>4. last \in Seq(Steps)
  BY <1>2, <1>3
<1> HIDE DEF last
<1>5. <<Move(a, "Playing")>> \o Each(begun, "Playing") \in Seq(Steps)
  BY <1>2, Concatenated
<1>6. (<<Move(a, "Playing")>> \o Each(begun, "Playing")) \o last \in Seq(Steps)
  BY <1>4, <1>5, Concatenated
<1>7. BeginSteps(a) = IF lifecycle[a] # "Constructed" THEN <<>>
                      ELSE (<<Move(a, "Playing")>> \o Each(begun, "Playing")) \o last
  BY DEF BeginSteps, last, begun
<1> QED
  BY <1>6, <1>7, NoSteps

LEMMA AdvanceStepsTyped ==
    ASSUME LifecycleTypeOK, NEW a \in Actors
    PROVE  AdvanceSteps(a) \in Seq(Steps)
<1> DEFINE ticked == Prefix(components[a], {c \in Components : Plays(c)})
<1>1. ticked \in Seq(Objects) /\ a \in Objects
  BY ComponentsAre, OfObjects, ObjectKinds, PrefixIs
<1> HIDE DEF ticked
<1> DEFINE last == IF ticked = components[a] THEN <<Hook(a, "Playing")>> ELSE <<>>
<1>2. Each(ticked, "Playing") \in Seq(Steps) /\ last \in Seq(Steps)
  BY <1>1, EachTyped, OneStep, PhasesAre, NoSteps
<1> HIDE DEF last
<1>3. Each(ticked, "Playing") \o last \in Seq(Steps)
  BY <1>2, Concatenated
<1>4. AdvanceSteps(a) = IF lifecycle[a] # "Playing" THEN <<>>
                        ELSE Each(ticked, "Playing") \o last
  BY DEF AdvanceSteps, last, ticked
<1> QED
  BY <1>3, <1>4, NoSteps

LEMMA EndStepsTyped ==
    ASSUME LifecycleTypeOK, NEW a \in Actors
    PROVE  EndSteps(a) \in Seq(Steps)
<1> DEFINE kept == Kept(components[a], {c \in Components : Plays(c)})
<1>1. kept \in Seq(Components)
  BY ComponentsAre, KeptIs
<1>2. Reverse(kept) \in Seq(Objects) /\ a \in Objects
  BY <1>1, OfObjects, ObjectKinds, Reversed
<1> HIDE DEF kept
<1>3. Each(Reverse(kept), "Ended") \in Seq(Steps) /\ <<Hook(a, "Ended")>> \in Seq(Steps)
  BY <1>2, EachTyped, OneStep, PhasesAre
<1>4. <<Hook(a, "Ended")>> \o Each(Reverse(kept), "Ended") \in Seq(Steps)
  BY <1>3, Concatenated
<1>5. EndSteps(a) = IF lifecycle[a] # "Playing" THEN <<>>
                    ELSE <<Hook(a, "Ended")>> \o Each(Reverse(kept), "Ended")
  BY DEF EndSteps, EndEach, kept
<1> QED
  BY <1>4, <1>5, NoSteps

LEMMA EndActorsTyped ==
    ASSUME LifecycleTypeOK, NEW q \in Seq(Actors)
    PROVE  EndActors(q) \in Seq(Steps)
<1> DEFINE back == Reverse(q)
           pieces == [i \in DOMAIN q |-> IF Resolves(back[i]) THEN EndSteps(back[i]) ELSE <<>>]
<1>1. back \in Seq(Actors) /\ Len(back) = Len(q) /\ Len(q) \in Nat /\ DOMAIN q = 1..Len(q)
  BY Reversed
<1>2. \A i \in 1..Len(q) : back[i] \in Actors
  <2> HIDE DEF back
  <2> QED
    BY <1>1
<1>3. \A i \in 1..Len(q) : pieces[i] \in Seq(Steps)
  <2> HIDE DEF back
  <2> QED
    BY <1>1, <1>2, EndStepsTyped, NoSteps
<1>4. pieces \in Seq(Seq(Steps))
  <2>1. pieces = [i \in 1..Len(q) |-> pieces[i]]
    BY <1>1
  <2> HIDE DEF pieces
  <2> QED
    BY <1>1, <1>3, <2>1
<1>5. EndActors(q) = FlattenSeq(pieces)
  BY DEF EndActors
<1> HIDE DEF pieces
<1> QED
  BY <1>4, <1>5, Flattened

LEMMA DeinitializeTyped ==
    ASSUME subsystems \in Seq(Subsystems)
    PROVE  DeinitializeSubsystems \in Seq(Steps)
<1> DEFINE back == Reverse(subsystems)
           pieces == [i \in DOMAIN subsystems |-> DeinitializeSteps(back[i])]
<1>1. /\ back \in Seq(Subsystems) /\ Len(back) = Len(subsystems) /\ Len(subsystems) \in Nat
      /\ DOMAIN subsystems = 1..Len(subsystems)
  BY Reversed
<1>2. \A i \in 1..Len(subsystems) : back[i] \in Objects
  <2> HIDE DEF back
  <2> QED
    BY <1>1, ObjectKinds
<1>3. \A i \in 1..Len(subsystems) : pieces[i] \in Seq(Steps)
  <2> HIDE DEF back
  <2> QED
    BY <1>1, <1>2, OneStep, PhasesAre, NoSteps DEF DeinitializeSteps
<1>4. pieces \in Seq(Seq(Steps))
  <2>1. pieces = [i \in 1..Len(subsystems) |-> pieces[i]]
    BY <1>1
  <2> HIDE DEF pieces
  <2> QED
    BY <1>1, <1>3, <2>1
<1>5. DeinitializeSubsystems = FlattenSeq(pieces)
  BY DEF DeinitializeSubsystems
<1> HIDE DEF pieces
<1> QED
  BY <1>4, <1>5, Flattened

LEMMA DispatchInOrderTyped ==
    ASSUME registered \in Seq(Actors), NEW able, NEW moves \in [Actors -> Seq(Steps)]
    PROVE  DispatchInOrder(able, moves) \in Seq(Steps)
<1> DEFINE works == Prefix(registered, able)
           tried == IF works = registered THEN works
                    ELSE Append(works, registered[Len(works) + 1])
           pieces == [i \in DOMAIN tried |-> IF Resolves(tried[i]) THEN moves[tried[i]] ELSE <<>>]
<1>1. works \in Seq(Actors) /\ Len(works) \in 0..Len(registered) /\ Len(registered) \in Nat
  BY PrefixIs
<1>2. Len(works) = Len(registered) => works = registered
  BY PrefixIs
<1>3. tried \in Seq(Actors)
  <2> HIDE DEF works
  <2>1. CASE works = registered
    BY <2>1, <1>1
  <2>2. CASE works # registered
    BY <1>1, <1>2, <2>2
  <2> QED
    BY <2>1, <2>2
<1> HIDE DEF tried
<1>4. /\ Len(tried) \in Nat /\ DOMAIN tried = 1..Len(tried)
      /\ \A i \in 1..Len(tried) : tried[i] \in Actors
  BY <1>3
<1>5. \A i \in 1..Len(tried) : pieces[i] \in Seq(Steps)
  BY <1>4, NoSteps
<1>6. pieces \in Seq(Seq(Steps))
  <2>1. pieces = [i \in 1..Len(tried) |-> pieces[i]]
    BY <1>4
  <2> HIDE DEF pieces
  <2> QED
    BY <1>4, <1>5, <2>1
<1>7. DispatchInOrder(able, moves) = FlattenSeq(pieces)
  BY DEF DispatchInOrder, tried
<1> HIDE DEF pieces
<1> QED
  BY <1>6, <1>7, Flattened

-----------------------------------------------------------------------------
(***************************************************************************)
(* What a call still has to do with what it sealed: the factories it has   *)
(* not entered, the actors it has not published and the spawns it has not  *)
(* begun.  The request it is in the middle of is none of them.             *)
(***************************************************************************)
FactoriesLeft ==
    {i \in DOMAIN sealedFactories :
        \/ call.stage \in {"EndDoomed", "BeginSpawns"}
        \/ call.stage = "Construct" /\ i >= call.at
        \/ call.stage = "Factory" /\ i > call.at}

PublishesLeft ==
    {i \in DOMAIN sealedPublishes :
        \/ call.stage \in {"EndDoomed", "BeginSpawns", "Construct", "Factory",
                           "Subsystems", "Actors"}
        \/ call.stage = "BeginDeferred" /\ i >= call.at
        \/ call.stage = "Published" /\ i > call.at}

SpawnsLeft == {i \in DOMAIN pendingSpawn : call.stage = "BeginSpawns" => i >= call.at}

Differ(q, left) == \A i, j \in left : q[i] = q[j] => i = j

Waits(h) == StateOf(h) = "Queued"
Constructed(h) == StateOf(h) = "ConstructedPendingPublish"

(***************************************************************************)
(* The inductive invariant.  A call knows where it is; a slot has an actor *)
(* exactly from its construction to its release, and no other slot has     *)
(* that actor; the queues hold requests that still wait, once; nothing is  *)
(* published twice; and a typed actor is registered while its slot says so.*)
(***************************************************************************)
CallSound ==
    /\ call.op = "None" => call = NoCall
    /\ call.stage = "RollbackActors" => call.at <= Len(registered)
    /\ call.stage \in {"Construct", "Factory", "EndDoomed", "BeginSpawns", "BeginDeferred",
                       "Published"} => call.at # 0
    /\ call.stage = "BeginSpawns" => call.at <= Len(pendingSpawn) + 1

SlotSound ==
    /\ \A i \in SpawnSlots :
          /\ i \in PendingSlots => spawnSlots[i].generation # 0
          /\ spawnSlots[i].actor # NoActor <=>
                spawnSlots[i].state \in {"ConstructedPendingPublish", "Spawned"}
          /\ spawnSlots[i].actor # NoActor => object[spawnSlots[i].actor] # "Unborn"
    /\ \A i, j \in SpawnSlots :
          spawnSlots[i].actor = spawnSlots[j].actor => i = j \/ spawnSlots[i].actor = NoActor

QueueSound ==
    /\ publishQueue = <<>>
    /\ \A i \in DOMAIN factoryQueue : Waits(factoryQueue[i])
    /\ Differ(factoryQueue, DOMAIN factoryQueue)

SealedSound ==
    /\ \A i \in FactoriesLeft :
          Waits(sealedFactories[i]) /\ ~Contains(factoryQueue, sealedFactories[i])
    /\ Differ(sealedFactories, FactoriesLeft)
    /\ \A i \in PublishesLeft :
          Constructed(sealedPublishes[i]) /\ Resolves(GetConstructedActor(sealedPublishes[i]))
    /\ Differ(sealedPublishes, PublishesLeft)
    /\ call.stage \in {"EndDoomed", "BeginSpawns"} => sealedPublishes = <<>>

RequestSound ==
    /\ call.stage = "Factory" =>
          /\ Waits(call.request) /\ ~Contains(factoryQueue, call.request)
          /\ \A i \in FactoriesLeft : sealedFactories[i] # call.request
    /\ call.stage = "Published" =>
          /\ Constructed(call.request)
          /\ \A i \in PublishesLeft : sealedPublishes[i] # call.request

RegisteredSound ==
    /\ \A a \in assigned : object[a] # "Unborn"
    /\ Differ(registered, DOMAIN registered)
    /\ \A i \in DOMAIN registered : registered[i] \in assigned
    /\ Differ(pendingSpawn, DOMAIN pendingSpawn)
    /\ \A i \in SpawnsLeft : pendingSpawn[i] \notin assigned
    /\ worldState = "Constructed" => pendingSpawn = <<>>

Publishing(i) == call.stage = "Published" /\ call.request = RequestIn(i)

SpawnedSound ==
    /\ \A i \in SpawnSlots :
          /\ spawnSlots[i].state = "Spawned" \/ Publishing(i) =>
                Contains(registered, spawnSlots[i].actor)
          /\ spawnSlots[i].state = "ConstructedPendingPublish" =>
                (spawnSlots[i].actor \in assigned <=> Publishing(i))
    /\ \A a \in TypedActors :
          Contains(registered, a) => \E i \in SpawnSlots : spawnSlots[i].actor = a

(* Room is kept for all that may still join the registry in this call or later. *)
SpawnsToCome ==
    IF call.stage = "BeginSpawns" THEN (Len(pendingSpawn) + 1) - call.at ELSE Len(pendingSpawn)
RequestsToCome == IF call.stage = "Published" THEN PendingCount - 1 ELSE PendingCount

RoomKept == overbooked \/ Len(registered) + SpawnsToCome + RequestsToCome <= Capacity

WorldInvariant ==
    /\ TypeOK /\ CallSound /\ SlotSound /\ QueueSound /\ SealedSound /\ RequestSound
    /\ RegisteredSound /\ SpawnedSound /\ RoomKept

(***************************************************************************)
(* Where the world does not give up, each request that waits is in a queue,*)
(* or left to a call, or in its hands; or another barrier overwrote it.    *)
(***************************************************************************)
GivenUp == worldState = "Failed" \/ call.stage \in {"RollbackActors", "FailWorld", "Failed"}

IsFound(i) ==
    \/ RequestIn(i) \in overwritten
    \/ /\ spawnSlots[i].state = "Queued" =>
             \/ Contains(factoryQueue, RequestIn(i))
             \/ \E j \in FactoriesLeft : sealedFactories[j] = RequestIn(i)
             \/ call.stage = "Factory" /\ call.request = RequestIn(i)
       /\ spawnSlots[i].state = "ConstructedPendingPublish" =>
             \/ \E j \in PublishesLeft : sealedPublishes[j] = RequestIn(i)
             \/ Publishing(i)

NothingLost == ~GivenUp => \A i \in SpawnSlots : IsFound(i)

-----------------------------------------------------------------------------
(* Requests and their slots.                                               *)

LEMMA SlotsAre == SpawnTypeOK => \A i \in SpawnSlots :
    /\ spawnSlots[i].generation \in 0..MaxSpawnGeneration
    /\ spawnSlots[i].state \in SpawnStates
    /\ spawnSlots[i].actor \in TypedActors \cup {NoActor}
    /\ spawnSlots[i] = [generation |-> spawnSlots[i].generation,
                        state |-> spawnSlots[i].state, actor |-> spawnSlots[i].actor]
  BY DEF SpawnTypeOK, FSlot

LEMMA RequestsAre == \A h \in SpawnHandles :
    /\ h.index \in SpawnSlots /\ h.generation \in 1..MaxSpawnGeneration
    /\ h = [index |-> h.index, generation |-> h.generation]
  BY DEF SpawnHandles

\* A request in a state is the one of its slot, which is in that state.
LEMMA StatesAre ==
    SpawnTypeOK =>
      /\ \A h : Waits(h) => /\ h \in SpawnHandles /\ h.index \in SpawnSlots
                            /\ h = RequestIn(h.index) /\ spawnSlots[h.index].state = "Queued"
      /\ \A h : Constructed(h) =>
            /\ h \in SpawnHandles /\ h.index \in SpawnSlots /\ h = RequestIn(h.index)
            /\ spawnSlots[h.index].state = "ConstructedPendingPublish"
      /\ \A i \in SpawnSlots : spawnSlots[i].generation # 0 =>
            /\ RequestIn(i) \in SpawnHandles /\ RequestIn(i).index = i
            /\ RequestIn(i).generation = spawnSlots[i].generation
            /\ spawnSlots[i].state = "Queued" => Waits(RequestIn(i))
            /\ spawnSlots[i].state = "ConstructedPendingPublish" => Constructed(RequestIn(i))
<1> SUFFICES ASSUME SpawnTypeOK
             PROVE  /\ \A h : Waits(h) =>
                        /\ h \in SpawnHandles /\ h.index \in SpawnSlots
                        /\ h = RequestIn(h.index) /\ spawnSlots[h.index].state = "Queued"
                    /\ \A h : Constructed(h) =>
                        /\ h \in SpawnHandles /\ h.index \in SpawnSlots
                        /\ h = RequestIn(h.index)
                        /\ spawnSlots[h.index].state = "ConstructedPendingPublish"
                    /\ \A i \in SpawnSlots : spawnSlots[i].generation # 0 =>
                        /\ RequestIn(i) \in SpawnHandles /\ RequestIn(i).index = i
                        /\ RequestIn(i).generation = spawnSlots[i].generation
                        /\ spawnSlots[i].state = "Queued" => Waits(RequestIn(i))
                        /\ spawnSlots[i].state = "ConstructedPendingPublish" =>
                              Constructed(RequestIn(i))
  OBVIOUS
<1>1. ASSUME NEW h, NEW s, StateOf(h) = s, s # "Free"
      PROVE  /\ h \in SpawnHandles /\ h.index \in SpawnSlots
             /\ h = RequestIn(h.index) /\ spawnSlots[h.index].state = s
  BY <1>1, RequestsAre DEF StateOf, SlotMatches, RequestIn
<1>2. ASSUME NEW i \in SpawnSlots, spawnSlots[i].generation # 0
      PROVE  /\ RequestIn(i) \in SpawnHandles /\ RequestIn(i).index = i
             /\ RequestIn(i).generation = spawnSlots[i].generation
             /\ StateOf(RequestIn(i)) = spawnSlots[i].state
  <2>1. spawnSlots[i].generation \in 1..MaxSpawnGeneration
    <3>1. spawnSlots[i].generation \in 0..MaxSpawnGeneration
      BY SlotsAre
    <3>2. MaxSpawnGeneration \in Nat
      BY SpawnAssumption DEF SpawnAssumption
    <3> QED
      BY <1>2, <3>1, <3>2
  <2>2. RequestIn(i) \in SpawnHandles
    BY <2>1 DEF RequestIn, SpawnHandles
  <2> QED
    BY <2>2 DEF RequestIn, StateOf, SlotMatches
<1> QED
  BY <1>1, <1>2 DEF Waits, Constructed

LEMMA StatesAreNext ==
    (SpawnTypeOK =>
      /\ \A h : Waits(h) => /\ h \in SpawnHandles /\ h.index \in SpawnSlots
                            /\ h = RequestIn(h.index) /\ spawnSlots[h.index].state = "Queued"
      /\ \A h : Constructed(h) =>
            /\ h \in SpawnHandles /\ h.index \in SpawnSlots /\ h = RequestIn(h.index)
            /\ spawnSlots[h.index].state = "ConstructedPendingPublish"
      /\ \A i \in SpawnSlots : spawnSlots[i].generation # 0 =>
            /\ RequestIn(i) \in SpawnHandles /\ RequestIn(i).index = i
            /\ RequestIn(i).generation = spawnSlots[i].generation
            /\ spawnSlots[i].state = "Queued" => Waits(RequestIn(i))
            /\ spawnSlots[i].state = "ConstructedPendingPublish" => Constructed(RequestIn(i)))'
  BY StatesAre, PTL

LEMMA SlotsAreNext ==
    (SpawnTypeOK => \A i \in SpawnSlots :
        /\ spawnSlots[i].generation \in 0..MaxSpawnGeneration
        /\ spawnSlots[i].state \in SpawnStates
        /\ spawnSlots[i].actor \in TypedActors \cup {NoActor}
        /\ spawnSlots[i] = [generation |-> spawnSlots[i].generation,
                            state |-> spawnSlots[i].state, actor |-> spawnSlots[i].actor])'
  BY SlotsAre, PTL

\* Where a slot keeps its state, its requests keep theirs.
LEMMA StateKept ==
    ASSUME NEW h, h \in SpawnHandles =>
              /\ spawnSlots'[h.index].generation = spawnSlots[h.index].generation
              /\ spawnSlots'[h.index].state = spawnSlots[h.index].state
    PROVE  /\ StateOf(h)' = StateOf(h) /\ Waits(h)' = Waits(h)
           /\ Constructed(h)' = Constructed(h)
  BY DEF StateOf, SlotMatches, Waits, Constructed

LEMMA PendingAre == IsFiniteSet(PendingSlots) /\ PendingCount \in Nat /\ PendingCount <= MaxRequests
<1>1. MaxRequests \in Nat
  BY SpawnAssumption DEF SpawnAssumption
<1>2. IsFiniteSet(SpawnSlots) /\ Cardinality(SpawnSlots) = MaxRequests
  BY <1>1, FS_Interval DEF SpawnSlots
<1>3. PendingSlots \subseteq SpawnSlots
  BY DEF PendingSlots
<1> QED
  BY <1>2, <1>3, FS_Subset, FS_CardinalityType DEF PendingCount

LEMMA PendingAreNext ==
    (IsFiniteSet(PendingSlots) /\ PendingCount \in Nat /\ PendingCount <= MaxRequests)'
  BY PendingAre, PTL

LEMMA PendingAdded ==
    ASSUME NEW i, i \notin PendingSlots, PendingSlots' = PendingSlots \cup {i}
    PROVE  PendingCount' = PendingCount + 1
  BY PendingAre, FS_AddElement DEF PendingCount

LEMMA PendingRemoved ==
    ASSUME NEW i, i \in PendingSlots, PendingSlots' = PendingSlots \ {i}
    PROVE  PendingCount' = PendingCount - 1
  BY PendingAre, FS_RemoveElement DEF PendingCount

LEMMA PendingSome ==
    ASSUME NEW i, i \in PendingSlots
    PROVE  PendingCount # 0
  BY PendingAre, FS_EmptySet DEF PendingCount

\* Requests that all wait, each once, are no more than there are slots.
LEMMA DistinctFit ==
    ASSUME NEW q \in Seq(SpawnHandles), Differ(q, DOMAIN q),
           \/ \A i \in DOMAIN q : Waits(q[i])
           \/ \A i \in DOMAIN q : Constructed(q[i])
    PROVE  Len(q) <= MaxRequests
<1> DEFINE slot == [i \in 1..Len(q) |-> q[i].index]
<1>1. Len(q) \in Nat /\ DOMAIN q = 1..Len(q) /\ \A i \in 1..Len(q) : q[i] \in SpawnHandles
  OBVIOUS
<1>2. \A i \in 1..Len(q) : spawnSlots[q[i].index].generation = q[i].generation
  BY <1>1 DEF Waits, Constructed, StateOf, SlotMatches
<1>3. slot \in [1..Len(q) -> 1..MaxRequests]
  BY <1>1, RequestsAre DEF SpawnSlots
<1>4. ASSUME NEW i \in 1..Len(q), NEW j \in 1..Len(q), slot[i] = slot[j] PROVE i = j
  BY <1>1, <1>2, <1>4, RequestsAre DEF Differ
<1>5. MaxRequests \in Nat
  BY SpawnAssumption DEF SpawnAssumption
<1> HIDE DEF slot
<1> QED
  BY <1>1, <1>3, <1>4, <1>5, OneEntryPerSlot

LEMMA DistinctFitAll ==
    \A q \in Seq(SpawnHandles) :
        /\ Differ(q, DOMAIN q)
        /\ \/ \A i \in DOMAIN q : Waits(q[i])
           \/ \A i \in DOMAIN q : Constructed(q[i])
        => Len(q) <= MaxRequests
  BY DistinctFit

LEMMA DistinctFitNext ==
   (\A q \in Seq(SpawnHandles) :
        /\ Differ(q, DOMAIN q)
        /\ \/ \A i \in DOMAIN q : Waits(q[i])
           \/ \A i \in DOMAIN q : Constructed(q[i])
        => Len(q) <= MaxRequests)'
  BY DistinctFitAll, PTL

\* Requests of a slot that keeps its state stay as they are.
LEMMA OthersKeep ==
    ASSUME SpawnTypeOK, NEW s,
           \A i \in PendingSlots : i # s => spawnSlots'[i] = spawnSlots[i]
    PROVE  /\ \A h : Waits(h) /\ h.index # s => Waits(h)'
           /\ \A h : Constructed(h) /\ h.index # s =>
                 Constructed(h)' /\ GetConstructedActor(h)' = GetConstructedActor(h)
<1>1. ASSUME NEW h, Waits(h) \/ Constructed(h), h.index # s
      PROVE  /\ Waits(h) => Waits(h)'
             /\ Constructed(h) =>
                   Constructed(h)' /\ GetConstructedActor(h)' = GetConstructedActor(h)
  BY <1>1, StatesAre DEF PendingSlots, Waits, Constructed, StateOf, SlotMatches,
     GetConstructedActor
<1> QED
  BY <1>1

LEMMA QueuesAre ==
    SpawnTypeOK =>
      /\ factoryQueue \in Seq(SpawnHandles) /\ Len(factoryQueue) <= MaxRequests
      /\ publishQueue \in Seq(SpawnHandles) /\ Len(publishQueue) <= MaxRequests
      /\ sealedFactories \in Seq(SpawnHandles) /\ Len(sealedFactories) <= MaxRequests
      /\ sealedPublishes \in Seq(SpawnHandles) /\ Len(sealedPublishes) <= MaxRequests
  BY DEF SpawnTypeOK

-----------------------------------------------------------------------------
(* Steps of a call.                                                        *)

Ops == {"None", "BeginPlay", "Advance", "ApplyPending", "EndPlay"}
Stages ==
    {"Return", "Construct", "Factory", "Subsystems", "Actors", "RollbackActors",
     "FailWorld", "Failed", "EndDoomed", "BeginSpawns", "BeginDeferred", "Published"}
Errors == BOOLEAN
Requests == SpawnHandles \cup {NoRequest}

LEMMA CallsAre ==
    /\ Calls = [op: Ops, stage: Stages, at: Nat, error: Errors, request: Requests]
    /\ \A c \in Calls : /\ c.op \in Ops /\ c.stage \in Stages /\ c.at \in Nat
                        /\ c.error \in Errors /\ c.request \in Requests
<1>1. Calls = [op: Ops, stage: Stages, at: Nat, error: Errors, request: Requests]
  BY DEF Calls, Ops, Stages, Errors, Requests
<1> QED
  BY <1>1

LEMMA CallMade ==
    ASSUME NEW op \in Ops, NEW stage \in Stages, NEW at \in Nat, NEW error \in Errors,
           NEW request \in Requests,
           call' = [op |-> op, stage |-> stage, at |-> at, error |-> error, request |-> request]
    PROVE  /\ call' \in Calls /\ call'.op = op /\ call'.stage = stage /\ call'.at = at
           /\ call'.request = request
  BY CallsAre

LEMMA NoCallIs ==
    /\ NoCall \in Calls /\ NoCall.op = "None" /\ NoCall.stage = "Return" /\ NoCall.at = 1
    /\ NoCall.request = NoRequest /\ NoRequest \notin SpawnHandles
<1>1. NoRequest \notin SpawnHandles
  BY RequestsAre DEF NoRequest
<1> QED
  BY <1>1, CallsAre DEF NoCall, Ops, Stages, Errors, Requests

LEMMA Entered ==
    ASSUME NEW op \in Ops, NEW stage \in Stages, Enter(op, stage)
    PROVE  /\ call' \in Calls /\ call'.op = op /\ call'.stage = stage /\ call'.at = 1
           /\ call'.request = NoRequest
<1>1. call' = [op |-> op, stage |-> stage, at |-> 1, error |-> FALSE, request |-> NoRequest]
  BY DEF Enter, NoCall
<1>2. PICK error \in Errors : error = FALSE
  BY DEF Errors
<1>3. call' = [op |-> op, stage |-> stage, at |-> 1, error |-> error, request |-> NoRequest]
  BY <1>1, <1>2, Zenon
<1> QED
  BY <1>3, CallMade DEF Requests

LEMMA Staged ==
    ASSUME call \in Calls, NEW stage \in Stages, Stage(stage)
    PROVE  /\ call' \in Calls /\ call'.op = call.op /\ call'.stage = stage /\ call'.at = 1
           /\ call'.request = call.request
<1>1. call = [op |-> call.op, stage |-> call.stage, at |-> call.at, error |-> call.error,
              request |-> call.request]
  BY DEF Calls
<1>2. call' = [op |-> call.op, stage |-> stage, at |-> 1, error |-> call.error,
               request |-> call.request]
  BY <1>1 DEF Stage
<1> QED
  BY <1>2, CallMade, CallsAre

(***************************************************************************)
(* A step that leaves requests, registry and assignments alone, and moves  *)
(* the call at most past something it is done with.                        *)
(***************************************************************************)
LEMMA CallMoves ==
    ASSUME TypeOK, TypeOK', SlotSound, QueueSound, SealedSound, RegisteredSound, SpawnedSound,
           RoomKept,
           UNCHANGED <<spawnVars, registered, assigned, overbooked>>,
           pendingSpawn' = pendingSpawn \/ pendingSpawn' = <<>>,
           worldState' = "Constructed" => worldState = "Constructed",
           \A a \in Actors : object'[a] = "Unborn" => object[a] = "Unborn",
           \A a \in TypedActors : Resolves(a)' = Resolves(a) \/ PublishesLeft' = {},
           call' = call \/ (call.stage # "Published" /\ call'.stage # "Published"),
           call'.stage \in {"EndDoomed", "BeginSpawns"} =>
              call.stage \in {"EndDoomed", "BeginSpawns"},
           FactoriesLeft' \subseteq FactoriesLeft, PublishesLeft' \subseteq PublishesLeft,
           SpawnsLeft' \subseteq SpawnsLeft, SpawnsToCome' <= SpawnsToCome
    PROVE  /\ SlotSound' /\ QueueSound' /\ SealedSound' /\ RegisteredSound' /\ SpawnedSound'
           /\ RoomKept'
<1>1. /\ UNCHANGED <<spawnSlots, factoryQueue, publishQueue, sealedFactories, sealedPublishes>>
      /\ UNCHANGED <<registered, assigned>>
  BY DEF spawnVars
<1>2. /\ PendingSlots' = PendingSlots /\ PendingCount' = PendingCount
      /\ \A h : Waits(h)' = Waits(h) /\ Constructed(h)' = Constructed(h)
      /\ \A i : RequestIn(i)' = RequestIn(i)
  BY <1>1 DEF PendingSlots, PendingCount, Waits, Constructed, StateOf, SlotMatches, RequestIn
<1>3. SlotSound'
  BY <1>1, <1>2, SlotsAre, ObjectKinds DEF TypeOK, SlotSound
<1>4. QueueSound'
  BY <1>1, <1>2 DEF QueueSound, Differ
<1>5. SealedSound'
  <2>1. /\ \A h : Constructed(h) => GetConstructedActor(h) \in TypedActors
        /\ \A h : GetConstructedActor(h)' = GetConstructedActor(h)
    <3>1. ASSUME NEW h, Constructed(h) PROVE GetConstructedActor(h) \in TypedActors
      BY <3>1, StatesAre, SlotsAre DEF TypeOK, GetConstructedActor, Constructed, SlotSound
    <3> QED
      BY <1>1, <3>1 DEF GetConstructedActor, StateOf, SlotMatches
  <2>2. \A i \in PublishesLeft' : Resolves(GetConstructedActor(sealedPublishes[i]))'
    BY <1>1, <2>1 DEF SealedSound
  <2> QED
    BY <1>1, <1>2, <2>2 DEF SealedSound, Differ, Contains
<1>6. RegisteredSound'
  <2>1. assigned \subseteq Actors
    BY DEF TypeOK
  <2>2. CASE pendingSpawn' = pendingSpawn
    BY <1>1, <2>1, <2>2 DEF RegisteredSound, Differ
  <2>3. CASE pendingSpawn' = <<>>
    BY <1>1, <2>1, <2>3 DEF SpawnsLeft, RegisteredSound, Differ
  <2> QED
    BY <2>2, <2>3
<1>7. SpawnedSound'
  BY <1>1, <1>2 DEF Publishing, SpawnedSound, Contains
<1>8. RoomKept'
  <2>1. RequestsToCome' = RequestsToCome /\ RequestsToCome \in Int
    BY <1>2, PendingAre DEF RequestsToCome
  <2>2. /\ Len(registered) \in Nat /\ SpawnsToCome \in Int /\ SpawnsToCome' \in Int
        /\ Capacity \in Nat
    BY WorldAssumption, CallsAre DEF TypeOK, WorldAssumption, SpawnsToCome
  <2> QED
    BY <1>1, <2>1, <2>2 DEF RoomKept
<1> QED
  BY <1>3, <1>4, <1>5, <1>6, <1>7, <1>8

LEMMA IdleIs ==
    ASSUME WorldInvariant, Idle
    PROVE  /\ call = NoCall /\ call.stage = "Return"
           /\ FactoriesLeft = {} /\ PublishesLeft = {} /\ SpawnsLeft = DOMAIN pendingSpawn
           /\ SpawnsToCome = Len(pendingSpawn)
<1>1. call = NoCall
  BY DEF Idle, WorldInvariant, CallSound
<1> QED
  BY <1>1, NoCallIs DEF FactoriesLeft, PublishesLeft, SpawnsLeft, SpawnsToCome

(* The call stands still and requests, registry and assignments are left alone. *)
LEMMA QuietStep ==
    ASSUME WorldInvariant, TypeOK',
           UNCHANGED <<spawnVars, registered, pendingSpawn, assigned, call, worldState>>,
           UNCHANGED <<overbooked, overwritten>>,
           Idle \/ UNCHANGED object,
           \A a \in Actors : object'[a] = "Unborn" => object[a] = "Unborn"
    PROVE  WorldInvariant' /\ (NothingLost => NothingLost')
<1>1. /\ UNCHANGED <<spawnSlots, factoryQueue, publishQueue, sealedFactories, sealedPublishes>>
      /\ UNCHANGED <<registered, pendingSpawn, call, worldState>>
  BY DEF spawnVars
<1>2. /\ FactoriesLeft' = FactoriesLeft /\ PublishesLeft' = PublishesLeft
      /\ SpawnsLeft' = SpawnsLeft
  BY <1>1 DEF FactoriesLeft, PublishesLeft, SpawnsLeft
<1>3. SpawnsToCome' = SpawnsToCome /\ SpawnsToCome \in Int
  BY <1>1, CallsAre DEF WorldInvariant, TypeOK, SpawnsToCome
<1>4. /\ SlotSound' /\ QueueSound' /\ SealedSound' /\ RegisteredSound' /\ SpawnedSound'
      /\ RoomKept'
  BY <1>1, <1>2, <1>3, IdleIs, CallMoves DEF Resolves, WorldInvariant
<1>5. CallSound' /\ RequestSound'
  BY <1>1, <1>2
     DEF WorldInvariant, CallSound, RequestSound, Waits, Constructed, StateOf, SlotMatches,
         Contains
<1>6. NothingLost => NothingLost'
  BY <1>1, <1>2 DEF NothingLost, GivenUp, IsFound, Publishing, RequestIn, Contains
<1> QED
  BY <1>4, <1>5, <1>6 DEF WorldInvariant

LEMMA ObjectsDestroyed ==
    ASSUME LifecycleTypeOK, NEW dead, object' = Destroyed(dead)
    PROVE  /\ object' \in [Objects -> {"Unborn", "Live", "Dead"}]
           /\ \A x \in Objects : object'[x] = "Unborn" => object[x] = "Unborn"
  BY DEF LifecycleTypeOK, Destroyed

LEMMA RegisterComponentKeeps ==
    ASSUME WorldInvariant, NEW a \in Actors, NEW c \in Components, RegisterComponentOf(a, c)
    PROVE  WorldInvariant' /\ (NothingLost => NothingLost')
<1>1. /\ UNCHANGED <<lifecycle, object, agenda, inHook>>
      /\ UNCHANGED <<spawnVars, worldState, registries, collecting, call>>
      /\ components' = [components EXCEPT ![a] = Append(@, c)]
      /\ Len(components[a]) < MaxComponents
  BY DEF RegisterComponentOf, RegisterComponent
<1>2. TypeOK
  BY DEF WorldInvariant
<1>3. LifecycleTypeOK'
  <2>1. components[a] \in Seq(Components) /\ MaxComponents \in Nat
    BY <1>2, LifecycleAssumption DEF TypeOK, LifecycleTypeOK, LifecycleAssumption
  <2>2. /\ Append(components[a], c) \in Seq(Components)
        /\ Len(Append(components[a], c)) <= MaxComponents
    BY <1>1, <2>1
  <2>3. DOMAIN components' = Actors
    BY <1>1, <1>2 DEF TypeOK, LifecycleTypeOK
  <2>4. ASSUME NEW b \in Actors
        PROVE  components'[b] \in Seq(Components) /\ Len(components'[b]) <= MaxComponents
    BY <1>1, <1>2, <2>2 DEF TypeOK, LifecycleTypeOK
  <2> QED
    BY <1>1, <1>2, <2>3, <2>4 DEF TypeOK, LifecycleTypeOK
<1>4. TypeOK'
  BY <1>1, <1>2, <1>3 DEF TypeOK, SpawnTypeOK, spawnVars, registries
<1> QED
  BY <1>1, <1>4, QuietStep DEF registries

LEMMA ObserversKeep ==
    ASSUME WorldInvariant,
           \/ \E s \in Subsystems : RegisterSubsystem(s)
           \/ \E x \in Loseable : LoseObject(x)
           \/ \E a \in Actors : DestroyActor(a)
           \/ ToggleCollection \/ HookReturns \/ Dispatching
    PROVE  WorldInvariant' /\ (NothingLost => NothingLost')
<1>1. TypeOK
  BY DEF WorldInvariant
<1>2. CASE \E s \in Subsystems : RegisterSubsystem(s)
  <2>1. PICK s \in Subsystems : RegisterSubsystem(s)
    BY <1>2
  <2>2. /\ UNCHANGED <<spawnVars, lifecycleVars, worldState, registered, pendingSpawn,
                       pendingDestroy, assigned, overbooked, overwritten, collecting, call>>
        /\ subsystems' = Append(subsystems, s)
    BY <2>1 DEF RegisterSubsystem
  <2>3. TypeOK'
    BY <1>1, <2>2 DEF TypeOK, SpawnTypeOK, LifecycleTypeOK, spawnVars, lifecycleVars
  <2> QED
    BY <2>2, <2>3, QuietStep DEF lifecycleVars
<1>3. CASE \E x \in Loseable : LoseObject(x)
  <2>1. PICK x \in Loseable : LoseObject(x)
    BY <1>3
  <2>2. /\ UNCHANGED <<lifecycle, components, agenda, inHook>>
        /\ UNCHANGED <<spawnVars, worldState, registries, collecting, call>>
        /\ object' = Destroyed({x}) /\ Idle
    BY <2>1 DEF LoseObject
  <2>3. /\ object' \in [Objects -> {"Unborn", "Live", "Dead"}]
        /\ \A y \in Objects : object'[y] = "Unborn" => object[y] = "Unborn"
    BY <1>1, <2>2, ObjectsDestroyed DEF TypeOK
  <2>4. TypeOK'
    BY <1>1, <2>2, <2>3 DEF TypeOK, SpawnTypeOK, LifecycleTypeOK, spawnVars, registries
  <2> QED
    BY <2>2, <2>3, <2>4, QuietStep, ObjectKinds DEF registries
<1>4. CASE \E a \in Actors : DestroyActor(a)
  <2>1. PICK a \in Actors : DestroyActor(a)
    BY <1>4
  <2>2. /\ UNCHANGED <<spawnVars, lifecycleVars, worldState, registered, subsystems,
                       pendingSpawn, assigned, overbooked, overwritten, collecting, call>>
        /\ pendingDestroy' = Append(pendingDestroy, a)
    BY <2>1 DEF DestroyActor
  <2>3. TypeOK'
    BY <1>1, <2>2 DEF TypeOK, SpawnTypeOK, LifecycleTypeOK, spawnVars, lifecycleVars
  <2> QED
    BY <2>2, <2>3, QuietStep DEF lifecycleVars
<1>5. CASE ToggleCollection
  BY <1>1, <1>5, QuietStep DEF ToggleCollection, TypeOK, SpawnTypeOK, LifecycleTypeOK,
     spawnVars, lifecycleVars, registries
<1>6. CASE HookReturns
  BY <1>1, <1>6, QuietStep DEF HookReturns, TypeOK, SpawnTypeOK, LifecycleTypeOK, spawnVars,
     registries
<1>7. CASE Dispatching
  <2>1. /\ UNCHANGED <<spawnVars, worldState, registries, collecting, call>>
        /\ UNCHANGED <<object, components>>
        /\ agenda # <<>> /\ agenda' = Tail(agenda) /\ inHook' = Head(agenda).hook
        /\ lifecycle' = [lifecycle EXCEPT ![Head(agenda).of] = Head(agenda).to]
    BY <1>7 DEF Dispatching, DispatchStep
  <2>2. LifecycleTypeOK'
    <3>1. agenda \in Seq(Steps) /\ lifecycle \in [Objects -> Phases]
      BY <1>1 DEF TypeOK, LifecycleTypeOK
    <3>2. Head(agenda) \in Steps /\ agenda' \in Seq(Steps)
      BY <2>1, <3>1
    <3>3. Head(agenda).to \in Phases /\ Head(agenda).of \in Objects
      BY <3>2 DEF Steps
    <3>4. inHook' \in BOOLEAN
      <4>1. Head(agenda).hook \in BOOLEAN
        BY <3>2, Zenon DEF Steps
      <4> QED
        BY <2>1, <4>1
    <3>5. lifecycle' \in [Objects -> Phases]
      BY <2>1, <3>1, <3>3
    <3> QED
      BY <1>1, <2>1, <3>2, <3>4, <3>5 DEF TypeOK, LifecycleTypeOK
  <2>3. TypeOK'
    BY <1>1, <2>1, <2>2 DEF TypeOK, SpawnTypeOK, spawnVars, registries
  <2> QED
    BY <2>1, <2>3, QuietStep DEF registries
<1> QED
  BY <1>2, <1>3, <1>4, <1>5, <1>6, <1>7

-----------------------------------------------------------------------------
(* The stages of a call that change no request and register nobody.        *)

LEMMA CallStepTyped ==
    ASSUME TypeOK,
           UNCHANGED <<spawnVars, object, lifecycle, components>>,
           UNCHANGED <<registered, subsystems, pendingDestroy, assigned, collecting>>,
           UNCHANGED <<overbooked, overwritten>>,
           agenda' \in Seq(Steps), inHook' \in BOOLEAN, worldState' \in Phases,
           pendingSpawn' = pendingSpawn \/ pendingSpawn' = <<>>, call' \in Calls
    PROVE  TypeOK'
<1>1. pendingSpawn' \in Seq(ManualActors) /\ Len(pendingSpawn') <= Capacity
  <2>1. pendingSpawn \in Seq(ManualActors) /\ Len(pendingSpawn) <= Capacity /\ Capacity \in Nat
    BY WorldAssumption DEF TypeOK, WorldAssumption
  <2>2. CASE pendingSpawn' = <<>>
    BY <2>1, <2>2
  <2> QED
    BY <2>1, <2>2
<1> QED
  BY <1>1 DEF TypeOK, SpawnTypeOK, LifecycleTypeOK, spawnVars

LEMMA StageKeeps ==
    ASSUME WorldInvariant, TypeOK', CallSound',
           UNCHANGED <<spawnVars, object, registered, assigned, overbooked, overwritten>>,
           pendingSpawn' = pendingSpawn \/ pendingSpawn' = <<>>,
           worldState' = "Constructed" => worldState = "Constructed",
           {call.stage, call'.stage} \cap {"Factory", "Published"} = {},
           call'.stage \in {"EndDoomed", "BeginSpawns"} =>
              call.stage \in {"EndDoomed", "BeginSpawns"},
           FactoriesLeft' \subseteq FactoriesLeft, PublishesLeft' \subseteq PublishesLeft,
           SpawnsLeft' \subseteq SpawnsLeft, SpawnsToCome' <= SpawnsToCome
    PROVE  /\ WorldInvariant'
           /\ \/ GivenUp'
              \/ ~GivenUp /\ FactoriesLeft' = FactoriesLeft /\ PublishesLeft' = PublishesLeft
              => (NothingLost => NothingLost')
<1>1. /\ UNCHANGED <<spawnSlots, factoryQueue, publishQueue, sealedFactories, sealedPublishes>>
  BY DEF spawnVars
<1>2. /\ SlotSound' /\ QueueSound' /\ SealedSound' /\ RegisteredSound' /\ SpawnedSound'
      /\ RoomKept'
  BY CallMoves DEF Resolves, WorldInvariant
<1>3. RequestSound'
  BY DEF RequestSound
<1>4. ASSUME ~GivenUp, ~GivenUp', NothingLost,
             FactoriesLeft' = FactoriesLeft, PublishesLeft' = PublishesLeft
      PROVE  NothingLost'
  BY <1>1, <1>4 DEF NothingLost, IsFound, Publishing, RequestIn, Contains
<1>5. GivenUp' => NothingLost'
  BY DEF NothingLost
<1> QED
  BY <1>2, <1>3, <1>4, <1>5 DEF WorldInvariant

\* Stages at which nothing sealed is left, and none but the next call seals more.
LEMMA NothingLeft ==
    /\ call.stage \in {"Return", "RollbackActors", "FailWorld", "Failed"} =>
         /\ FactoriesLeft = {} /\ PublishesLeft = {}
    /\ call.stage \in {"Subsystems", "Actors", "BeginDeferred"} => FactoriesLeft = {}
    /\ call.stage \in {"Subsystems", "Actors"} => PublishesLeft = DOMAIN sealedPublishes
    /\ call.stage # "BeginSpawns" =>
         SpawnsLeft = DOMAIN pendingSpawn /\ SpawnsToCome = Len(pendingSpawn)
  BY DEF FactoriesLeft, PublishesLeft, SpawnsLeft, SpawnsToCome

LEMMA NothingLeftNext ==
   (/\ call.stage \in {"Return", "RollbackActors", "FailWorld", "Failed"} =>
         /\ FactoriesLeft = {} /\ PublishesLeft = {}
    /\ call.stage \in {"Subsystems", "Actors", "BeginDeferred"} => FactoriesLeft = {}
    /\ call.stage \in {"Subsystems", "Actors"} => PublishesLeft = DOMAIN sealedPublishes
    /\ call.stage # "BeginSpawns" =>
         SpawnsLeft = DOMAIN pendingSpawn /\ SpawnsToCome = Len(pendingSpawn))'
  BY NothingLeft, PTL

LEMMA LengthsAre ==
    ASSUME TypeOK
    PROVE  /\ Len(pendingSpawn) \in Nat /\ Len(registered) \in Nat /\ Len(pendingDestroy) \in Nat
           /\ DOMAIN pendingSpawn = 1..Len(pendingSpawn)
           /\ DOMAIN registered = 1..Len(registered)
           /\ DOMAIN sealedFactories = 1..Len(sealedFactories)
           /\ DOMAIN sealedPublishes = 1..Len(sealedPublishes)
           /\ DOMAIN factoryQueue = 1..Len(factoryQueue)
           /\ Len(sealedFactories) \in Nat /\ Len(sealedPublishes) \in Nat
           /\ Len(factoryQueue) \in Nat
           /\ call.at \in Nat /\ Capacity \in Nat
  BY QueuesAre, WorldAssumption, CallsAre DEF TypeOK, WorldAssumption

\* A dispatch that is the whole of a step of the call.
LEMMA DispatchTyped ==
    ASSUME TypeOK, NEW moves \in Seq(Steps), Dispatch(moves)
    PROVE  agenda' \in Seq(Steps) /\ inHook' \in BOOLEAN
           /\ UNCHANGED <<lifecycle, object, components>>
  BY DEF Dispatch, TypeOK, LifecycleTypeOK

LEMMA MovesTyped ==
    ASSUME TypeOK
    PROVE  /\ [a \in Actors |-> BeginSteps(a)] \in [Actors -> Seq(Steps)]
           /\ [a \in Actors |-> AdvanceSteps(a)] \in [Actors -> Seq(Steps)]
           /\ EndActors(registered) \o DeinitializeSubsystems \in Seq(Steps)
           /\ DeinitializeSubsystems \in Seq(Steps)
<1>1. LifecycleTypeOK /\ registered \in Seq(Actors) /\ subsystems \in Seq(Subsystems)
  BY DEF TypeOK
<1>2. EndActors(registered) \in Seq(Steps) /\ DeinitializeSubsystems \in Seq(Steps)
  BY <1>1, EndActorsTyped, DeinitializeTyped
<1> QED
  BY <1>1, <1>2, BeginStepsTyped, AdvanceStepsTyped, Concatenated

LEMMA AdvanceEntered ==
    ASSUME Advance
    PROVE  /\ call' \in Calls /\ call'.op = "Advance" /\ call'.stage = "Return" /\ call'.at = 1
           /\ call'.request = NoRequest
<1>1. PICK error \in Errors : error = CannotAdvance
  BY Zenon DEF Errors, CannotAdvance
<1>2. call' = [NoCall EXCEPT !.op = "Advance", !.error = error]
  BY <1>1, Zenon DEF Advance
<1>3. call' = [op |-> "Advance", stage |-> "Return", at |-> 1, error |-> error,
               request |-> NoRequest]
  BY <1>2 DEF NoCall
<1> QED
  BY <1>3, CallMade DEF Ops, Stages, Requests

LEMMA AdvanceOrEndKeeps ==
    ASSUME WorldInvariant, Advance \/ EndPlay
    PROVE  WorldInvariant' /\ (NothingLost => NothingLost')
<1>1. TypeOK /\ Idle /\ worldState = "Playing"
  BY DEF WorldInvariant, Advance, EndPlay
<1>2. /\ call' \in Calls /\ call'.stage = "Return" /\ call'.op # "None" /\ call'.at = 1
      /\ agenda' \in Seq(Steps) /\ inHook' \in BOOLEAN
      /\ UNCHANGED <<lifecycle, object, components>>
      /\ UNCHANGED <<spawnVars, registries, collecting>>
      /\ worldState' \in {"Playing", "Ended"}
  <2>1. CASE Advance
    <3>1. PICK moves \in Seq(Steps) : Dispatch(moves)
      BY <1>1, <2>1, MovesTyped, DispatchInOrderTyped DEF Advance, TypeOK
    <3> QED
      BY <1>1, <2>1, <3>1, DispatchTyped, AdvanceEntered DEF Advance
  <2>2. CASE EndPlay
    <3>1. PICK moves \in Seq(Steps) : Dispatch(moves)
      BY <1>1, <2>2, MovesTyped DEF EndPlay, TypeOK
    <3> QED
      BY <1>1, <2>2, <3>1, DispatchTyped, Entered DEF EndPlay, Ops, Stages
  <2> QED
    BY <2>1, <2>2
<1>3. TypeOK'
  BY <1>1, <1>2, CallStepTyped DEF registries, Phases
<1>4. CallSound'
  BY <1>2, NoCallIs DEF CallSound
<1>5. /\ FactoriesLeft' = FactoriesLeft /\ PublishesLeft' = PublishesLeft
      /\ SpawnsLeft' = SpawnsLeft /\ SpawnsToCome' = SpawnsToCome /\ SpawnsToCome \in Nat
      /\ call.stage = "Return"
  BY <1>1, <1>2, IdleIs, NothingLeftNext, LengthsAre DEF registries
<1>6. ~GivenUp
  BY <1>1, <1>5 DEF GivenUp
<1> QED
  BY <1>1, <1>2, <1>3, <1>4, <1>5, <1>6, StageKeeps DEF registries

LEMMA EndOfCallKeeps ==
    ASSUME WorldInvariant, CallReturns \/ FailAtLast
    PROVE  WorldInvariant' /\ (NothingLost => NothingLost')
<1>1. TypeOK
  BY DEF WorldInvariant
<1>2. /\ call' = NoCall /\ call.stage \in {"Return", "Failed"}
      /\ UNCHANGED <<spawnVars, lifecycleVars, registries, collecting>>
      /\ worldState' = worldState \/ (worldState' = "Failed" /\ call.stage = "Failed")
      /\ call.stage = "Failed" => worldState' = "Failed"
  BY DEF CallReturns, FailAtLast, AtStage, Return
<1>3. TypeOK'
  BY <1>1, <1>2, NoCallIs, CallStepTyped
     DEF registries, Phases, lifecycleVars, TypeOK, LifecycleTypeOK
<1>4. CallSound'
  BY <1>2, NoCallIs DEF CallSound
<1>5. call'.stage = "Return"
  BY <1>2, NoCallIs
<1>6. /\ FactoriesLeft' = FactoriesLeft /\ PublishesLeft' = PublishesLeft
      /\ SpawnsLeft' = SpawnsLeft /\ SpawnsToCome' = SpawnsToCome /\ SpawnsToCome \in Nat
  BY <1>1, <1>2, <1>5, NothingLeft, NothingLeftNext, LengthsAre DEF registries
<1>7. GivenUp => GivenUp'
  BY <1>2 DEF GivenUp
<1> QED
  BY <1>1, <1>2, <1>3, <1>4, <1>5, <1>6, <1>7, StageKeeps DEF registries, lifecycleVars

\* The stages in which all objects of a kind begin, or what has begun is undone.
LEMMA BeginningKeeps ==
    ASSUME WorldInvariant, InitializeSubsystems \/ BeginActors \/ RollbackActors \/ FailWorld
    PROVE  WorldInvariant' /\ (NothingLost => NothingLost')
<1>1. TypeOK
  BY DEF WorldInvariant
<1>2. /\ call' \in Calls /\ call'.op = call.op /\ call.op # "None"
      /\ call'.stage \in {"Actors", "Failed", "BeginDeferred", "RollbackActors", "FailWorld",
                          "Return"}
      /\ call'.stage = "RollbackActors" => call'.at <= Len(registered)
      /\ call'.stage = "BeginDeferred" => call'.at = 1
      /\ call'.stage = "Return" => worldState' = "Failed"
      /\ agenda' \in Seq(Steps) /\ inHook' \in BOOLEAN
      /\ UNCHANGED <<lifecycle, object, components>>
      /\ UNCHANGED <<spawnVars, registries, collecting>>
      /\ worldState' = worldState \/ worldState' = "Failed"
      /\ \/ call.stage = "Subsystems" /\ call'.stage \in {"Actors", "Failed"}
         \/ call.stage = "Actors" /\ call'.stage \in {"BeginDeferred", "RollbackActors"}
         \/ call.stage = "RollbackActors" /\ call'.stage = "FailWorld"
         \/ call.stage = "FailWorld" /\ call'.stage = "Return"
  <2>0. /\ call \in Calls /\ registered \in Seq(Actors) /\ subsystems \in Seq(Subsystems)
        /\ LifecycleTypeOK
    BY <1>1 DEF TypeOK
  <2>1. CASE InitializeSubsystems
    <3> DEFINE ready == Prefix(subsystems, {s \in Subsystems : Begins(s)})
    <3>1. ready \in Seq(Objects)
      BY <2>0, PrefixIs, OfObjects, ObjectKinds
    <3>2. ready \in Seq(Objects) /\ Reverse(ready) \in Seq(Objects)
      BY <3>1, Reversed
    <3> HIDE DEF ready
    <3>3. /\ Each(ready, "Playing") \in Seq(Steps) /\ RollbackSteps(ready) \in Seq(Steps)
      BY <3>2, EachTyped, PhasesAre DEF RollbackSteps
    <3>4. Each(ready, "Playing") \o RollbackSteps(ready) \in Seq(Steps)
      BY <3>3, Concatenated
    <3>5. PICK moves \in Seq(Steps) : Dispatch(moves) /\ (Stage("Actors") \/ Stage("Failed"))
      BY <2>1, <3>3, <3>4 DEF InitializeSubsystems, ready
    <3> QED
      BY <1>1, <2>0, <2>1, <3>5, DispatchTyped, Staged
         DEF InitializeSubsystems, AtStage, Stages
  <2>2. CASE BeginActors
    <3> DEFINE begun == Prefix(registered, ActorsThatBegin)
    <3>1. Len(begun) \in Nat /\ Len(begun) <= Len(registered)
      BY <2>0, PrefixIs
    <3> HIDE DEF begun
    <3>2. PICK moves \in Seq(Steps) : Dispatch(moves)
      BY <1>1, <2>0, <2>2, MovesTyped, DispatchInOrderTyped DEF BeginActors
    <3>3. CASE Stage("BeginDeferred")
      BY <1>1, <2>0, <2>2, <3>2, <3>3, DispatchTyped, Staged DEF BeginActors, AtStage, Stages
    <3>4. CASE call' = [call EXCEPT !.stage = "RollbackActors", !.at = Len(begun)]
      <4>1. call = [op |-> call.op, stage |-> call.stage, at |-> call.at, error |-> call.error,
                    request |-> call.request]
        BY <2>0 DEF Calls
      <4>2. call' = [op |-> call.op, stage |-> "RollbackActors", at |-> Len(begun),
                     error |-> call.error, request |-> call.request]
        BY <3>4, <4>1
      <4>3. /\ call' \in Calls /\ call'.op = call.op /\ call'.stage = "RollbackActors"
            /\ call'.at = Len(begun)
        BY <2>0, <3>1, <4>2, CallMade, CallsAre DEF Stages
      <4> QED
        BY <1>1, <2>2, <3>1, <3>2, <4>3, DispatchTyped DEF BeginActors, AtStage
    <3> QED
      BY <2>2, <3>3, <3>4 DEF BeginActors, begun
  <2>3. CASE RollbackActors
    <3>1. call.at \in Nat /\ call.at <= Len(registered)
      BY <2>0, <2>3, CallsAre DEF WorldInvariant, CallSound, RollbackActors, AtStage
    <3>2. EndActors(SubSeq(registered, 1, call.at)) \in Seq(Steps)
      BY <2>0, <3>1, FirstPart, EndActorsTyped
    <3>3. PICK moves \in Seq(Steps) : Dispatch(moves)
      BY <2>3, <3>2 DEF RollbackActors
    <3> QED
      BY <1>1, <2>0, <2>3, <3>3, DispatchTyped, Staged DEF RollbackActors, AtStage, Stages
  <2>4. CASE FailWorld
    <3>1. PICK moves \in Seq(Steps) : Dispatch(moves)
      BY <1>1, <2>4, MovesTyped DEF FailWorld
    <3> QED
      BY <1>1, <2>0, <2>4, <3>1, DispatchTyped, Staged DEF FailWorld, AtStage, Stages
  <2> QED
    BY <2>1, <2>2, <2>3, <2>4
<1>3. TypeOK'
  BY <1>1, <1>2, PhasesAre, CallStepTyped DEF TypeOK, registries
<1>4. CallSound'
  BY <1>2 DEF CallSound, registries
<1>5. /\ FactoriesLeft' = FactoriesLeft /\ SpawnsLeft' = SpawnsLeft
      /\ SpawnsToCome' = SpawnsToCome /\ SpawnsToCome \in Nat
  BY <1>1, <1>2, NothingLeft, NothingLeftNext, LengthsAre DEF registries
<1>6. /\ PublishesLeft' \subseteq PublishesLeft
      /\ call'.stage \in {"Actors", "BeginDeferred"} => PublishesLeft' = PublishesLeft
  <2>1. CASE call'.stage = "BeginDeferred"
    BY <1>1, <1>2, <2>1, NothingLeft, LengthsAre DEF spawnVars, PublishesLeft
  <2>2. CASE call'.stage = "Actors"
    BY <1>2, <2>2, NothingLeft, NothingLeftNext DEF spawnVars
  <2>3. CASE call'.stage \notin {"Actors", "BeginDeferred"}
    BY <1>2, <2>3, NothingLeftNext
  <2> QED
    BY <2>1, <2>2, <2>3
<1>7. /\ GivenUp => GivenUp'
      /\ GivenUp' \/ call'.stage \in {"Actors", "BeginDeferred"}
  BY <1>2 DEF GivenUp
<1>8. {call.stage, call'.stage} \cap {"Factory", "Published"} = {}
  BY <1>2
<1> QED
  BY <1>1, <1>2, <1>3, <1>4, <1>5, <1>6, <1>7, <1>8, StageKeeps DEF registries

-----------------------------------------------------------------------------
(* The barrier: sealing, and a seal that is refused.                       *)

LEMMA NextAt ==
    ASSUME call \in Calls, NEW stage \in Stages, NEW at \in Nat, NEW request \in Requests,
           call' = [call EXCEPT !.stage = stage, !.at = at, !.request = request]
    PROVE  /\ call' \in Calls /\ call'.op = call.op /\ call'.stage = stage
           /\ call'.at = at /\ call'.request = request
<1>1. call' = [op |-> call.op, stage |-> stage, at |-> at, error |-> call.error,
               request |-> request]
  BY DEF Calls
<1>2. call.op \in Ops /\ call.error \in Errors
  BY CallsAre
<1> QED
  BY <1>1, <1>2, CallMade

LEMMA WalkOn ==
    ASSUME call \in Calls, NEW e, call' = [call EXCEPT !.at = @ + 1, !.error = @ \/ e]
    PROVE  /\ call' \in Calls /\ call'.op = call.op /\ call'.stage = call.stage
           /\ call'.at = call.at + 1 /\ call'.request = call.request
<1>1. call = [op |-> call.op, stage |-> call.stage, at |-> call.at, error |-> call.error,
              request |-> call.request]
  BY DEF Calls
<1>2. /\ call.error \in Errors /\ call.op \in Ops /\ call.stage \in Stages
      /\ call.request \in Requests /\ call.at + 1 \in Nat
  BY CallsAre
<1>3. PICK error \in Errors : error = (call.error \/ e)
  BY <1>2, Zenon DEF Errors
<1>4. call' = [op |-> call.op, stage |-> call.stage, at |-> call.at + 1,
               error |-> (call.error \/ e), request |-> call.request]
  BY <1>1
<1>5. call' = [op |-> call.op, stage |-> call.stage, at |-> call.at + 1, error |-> error,
               request |-> call.request]
  BY <1>3, <1>4, Zenon
<1> QED
  BY <1>2, <1>5, CallMade

\* With nothing queued, sealed or not, the queues are empty.
LEMMA NothingQueued ==
    ASSUME WorldInvariant, ~HasPendingBarrierWork
    PROVE  factoryQueue = <<>> /\ PendingSlots = {}
<1>1. TypeOK /\ QueueSound /\ PendingCount = 0
  BY DEF WorldInvariant, HasPendingBarrierWork
<1>2. PendingSlots = {}
  BY <1>1, PendingAre, FS_EmptySet DEF PendingCount
<1>3. \A i \in DOMAIN factoryQueue : FALSE
  BY <1>1, <1>2, StatesAre DEF QueueSound, PendingSlots, TypeOK
<1>4. factoryQueue \in Seq(SpawnHandles) /\ DOMAIN factoryQueue = {}
  BY <1>1, <1>3, QueuesAre DEF TypeOK
<1> QED
  BY <1>2, <1>4

\* A barrier that is refused, or has nothing to do, leaves the queues as they were.
LEMMA RefusedIs ==
    ASSUME WorldInvariant, SealAndRestore \/ (SealBarrier /\ ~HasPendingBarrierWork)
    PROVE  /\ UNCHANGED <<spawnSlots, factoryQueue, publishQueue>>
           /\ sealedFactories' = <<>> /\ sealedPublishes' = <<>>
<1>1. TypeOK /\ QueueSound /\ publishQueue = <<>>
  BY DEF WorldInvariant, QueueSound
<1>2. CASE SealAndRestore
  <2> DEFINE waiting == {h \in SpawnHandles : StateOf(h) = "Queued"}
             made == {h \in SpawnHandles : StateOf(h) = "ConstructedPendingPublish"}
  <2>1. factoryQueue \in Seq(SpawnHandles) /\ publishQueue \in Seq(SpawnHandles)
    BY <1>1, QueuesAre DEF TypeOK
  <2>2. /\ UNCHANGED spawnSlots /\ sealedFactories' = <<>> /\ sealedPublishes' = <<>>
        /\ factoryQueue' = Kept(factoryQueue, waiting)
        /\ publishQueue' = Kept(publishQueue, made)
    BY <1>2 DEF SealAndRestore
  <2>3. \A i \in 1..Len(factoryQueue) : factoryQueue[i] \in waiting
    BY <1>1, <2>1 DEF QueueSound, Waits
  <2>4. \A i \in 1..Len(publishQueue) : publishQueue[i] \in made
    BY <1>1
  <2> HIDE DEF waiting, made
  <2>5. factoryQueue' = factoryQueue /\ publishQueue' = publishQueue
    BY <2>1, <2>2, <2>3, <2>4, KeptAll
  <2> QED
    BY <2>2, <2>5
<1>3. CASE SealBarrier /\ ~HasPendingBarrierWork
  BY <1>1, <1>3, NothingQueued DEF SealBarrier
<1> QED
  BY <1>2, <1>3

LEMMA EmptySealedTyped ==
    ASSUME SpawnTypeOK, UNCHANGED <<spawnSlots, factoryQueue, publishQueue>>,
           sealedFactories' = <<>>, sealedPublishes' = <<>>
    PROVE  SpawnTypeOK'
<1>1. <<>> \in Seq(SpawnHandles) /\ Len(<<>>) <= MaxRequests
  BY SpawnAssumption DEF SpawnAssumption
<1> QED
  BY <1>1, QueuesAre DEF SpawnTypeOK

\* Requests keep their states where the slots are left alone.
LEMMA SlotsUnmoved ==
    ASSUME UNCHANGED spawnSlots
    PROVE  /\ PendingSlots' = PendingSlots /\ PendingCount' = PendingCount
           /\ \A h : Waits(h)' = Waits(h) /\ Constructed(h)' = Constructed(h)
           /\ \A i : RequestIn(i)' = RequestIn(i)
  BY DEF PendingSlots, PendingCount, Waits, Constructed, StateOf, SlotMatches, RequestIn

(***************************************************************************)
(* A step that empties the sealed batches and leaves the other requests,   *)
(* the registry and the spawns alone: only what was sealed can be lost.    *)
(***************************************************************************)
LEMMA UnsealedKeeps ==
    ASSUME WorldInvariant, UNCHANGED <<spawnSlots, factoryQueue, publishQueue>>,
           sealedFactories' = <<>>, sealedPublishes' = <<>>,
           UNCHANGED <<lifecycleVars, worldState, collecting>>,
           UNCHANGED <<registered, subsystems, pendingSpawn, pendingDestroy, assigned, overbooked>>,
           overwritten' \subseteq SpawnHandles, overwritten \subseteq overwritten',
           call' \in Calls, CallSound',
           \/ call' = call /\ LeftSealed \subseteq overwritten'
           \/ call.stage = "Return" /\ call'.stage = "Return"
    PROVE  WorldInvariant' /\ (NothingLost => NothingLost')
<1>1. TypeOK /\ SpawnTypeOK
  BY DEF WorldInvariant, TypeOK
<1>2. TypeOK'
  BY <1>1, EmptySealedTyped DEF TypeOK, LifecycleTypeOK, lifecycleVars
<1>3. DOMAIN sealedFactories' = {} /\ DOMAIN sealedPublishes' = {}
  OBVIOUS
<1>4. FactoriesLeft' = {} /\ PublishesLeft' = {}
  BY <1>3 DEF FactoriesLeft, PublishesLeft
<1>5. /\ SlotSound' /\ QueueSound' /\ SealedSound'
  BY <1>4, SlotsUnmoved
     DEF WorldInvariant, SlotSound, QueueSound, SealedSound, Differ, lifecycleVars
<1>6. RequestSound'
  BY <1>4, SlotsUnmoved DEF WorldInvariant, RequestSound, Contains
<1>7. RegisteredSound'
  BY DEF SpawnsLeft, WorldInvariant, RegisteredSound, Differ, lifecycleVars
<1>8. SpawnedSound'
  BY SlotsUnmoved DEF Publishing, WorldInvariant, SpawnedSound, Contains
<1>9. RoomKept'
  BY SlotsUnmoved
     DEF WorldInvariant, RoomKept, SpawnsToCome, RequestsToCome
<1>10. ASSUME NothingLost PROVE NothingLost'
  <2> SUFFICES ASSUME ~GivenUp', NEW i \in SpawnSlots PROVE IsFound(i)'
    BY DEF NothingLost
  <2>1. IsFound(i)
    BY <1>10 DEF GivenUp, NothingLost
  <2>2. RequestIn(i)' = RequestIn(i) /\ UNCHANGED <<spawnSlots, factoryQueue>>
    BY SlotsUnmoved
  <2>3. CASE call.stage = "Return" /\ call'.stage = "Return"
    <3>1. FactoriesLeft = {} /\ PublishesLeft = {}
      BY <2>3, NothingLeft
    <3> QED
      BY <2>1, <2>2, <2>3, <3>1 DEF IsFound, Publishing, Contains
  <2>4. CASE call' = call /\ LeftSealed \subseteq overwritten'
    <3>1. ASSUME NEW j \in FactoriesLeft, sealedFactories[j] = RequestIn(i)
          PROVE  RequestIn(i) \in overwritten'
      <4>1. Waits(RequestIn(i)) /\ j \in DOMAIN sealedFactories
        BY <3>1 DEF WorldInvariant, SealedSound, FactoriesLeft
      <4>2. ~IsInHands(RequestIn(i))
        BY <3>1, <4>1 DEF IsInHands, FactoriesLeft, WorldInvariant, RequestSound, Waits,
           Constructed
      <4>3. RequestIn(i) \in LeftSealed
        BY <3>1, <4>1, <4>2 DEF LeftSealed, ToSet, Waits
      <4> QED
        BY <2>4, <4>3
    <3>2. ASSUME NEW j \in PublishesLeft, sealedPublishes[j] = RequestIn(i)
          PROVE  RequestIn(i) \in overwritten'
      <4>1. Constructed(RequestIn(i)) /\ j \in DOMAIN sealedPublishes
        BY <3>2 DEF WorldInvariant, SealedSound, PublishesLeft
      <4>2. ~IsInHands(RequestIn(i))
        BY <3>2, <4>1 DEF IsInHands, PublishesLeft, WorldInvariant, RequestSound, Waits,
           Constructed
      <4>3. RequestIn(i) \in LeftSealed
        BY <3>2, <4>1, <4>2 DEF LeftSealed, ToSet, Constructed
      <4> QED
        BY <2>4, <4>3
    <3> QED
      BY <2>1, <2>2, <2>4, <3>1, <3>2 DEF IsFound, Publishing, Contains
  <2> QED
    BY <2>3, <2>4
<1> QED
  BY <1>2, <1>5, <1>6, <1>7, <1>8, <1>9, <1>10 DEF WorldInvariant

LEMMA RefusedBarrierKeeps ==
    ASSUME WorldInvariant, RefusedBarrier
    PROVE  WorldInvariant' /\ (NothingLost => NothingLost')
<1>1. /\ SealAndRestore \/ (SealBarrier /\ ~HasPendingBarrierWork)
      /\ overwritten' = overwritten \cup LeftSealed
      /\ UNCHANGED <<registered, subsystems, pendingSpawn, pendingDestroy, assigned, overbooked>>
      /\ UNCHANGED <<lifecycleVars, worldState, collecting, call>>
  BY DEF RefusedBarrier
<1>2. call' \in Calls /\ CallSound'
  BY <1>1 DEF WorldInvariant, TypeOK, CallSound
<1>3. overwritten' \subseteq SpawnHandles
  <2>1. ToSet(sealedFactories) \subseteq SpawnHandles /\ ToSet(sealedPublishes) \subseteq SpawnHandles
    BY QueuesAre DEF WorldInvariant, TypeOK, ToSet
  <2> QED
    BY <1>1, <2>1 DEF LeftSealed, WorldInvariant, TypeOK
<1> QED
  BY <1>1, <1>2, <1>3, RefusedIs, UnsealedKeeps

\* A call that begins with a batch to work on.
LEMMA SealKeeps ==
    ASSUME WorldInvariant, call.stage = "Return", SealBarrier,
           UNCHANGED <<lifecycleVars, registries, collecting>>,
           worldState' = worldState \/ (worldState = "Constructed" /\ worldState' = "Playing"),
           NEW op \in Ops \ {"None"}, NEW stage \in {"Construct", "EndDoomed"}, Enter(op, stage)
    PROVE  WorldInvariant' /\ (NothingLost => NothingLost')
<1>1. TypeOK /\ SpawnTypeOK /\ QueueSound
  BY DEF WorldInvariant, TypeOK
<1>2. /\ sealedFactories' = factoryQueue /\ factoryQueue' = <<>>
      /\ sealedPublishes' = <<>> /\ publishQueue' = <<>> /\ UNCHANGED spawnSlots
  BY <1>1 DEF SealBarrier, QueueSound
<1>3. /\ call' \in Calls /\ call'.op # "None" /\ call'.stage \in {"Construct", "EndDoomed"}
      /\ call'.at = 1
  BY Entered DEF Stages
<1>4. TypeOK'
  BY <1>1, <1>2, <1>3, SpawnAssumption, QueuesAre DEF SpawnAssumption, SpawnTypeOK, TypeOK,
     LifecycleTypeOK, lifecycleVars, registries, Phases
<1>5. CallSound'
  BY <1>3 DEF CallSound
<1>6. FactoriesLeft' = DOMAIN factoryQueue /\ PublishesLeft' = {}
  BY <1>1, <1>2, <1>3, LengthsAre DEF FactoriesLeft, PublishesLeft
<1>7. SlotSound' /\ QueueSound'
  BY <1>1, <1>2, SlotsUnmoved DEF WorldInvariant, SlotSound, QueueSound, Differ, lifecycleVars
<1>8. SealedSound'
  BY <1>1, <1>2, <1>6, SlotsUnmoved DEF Contains, SealedSound, QueueSound, Differ
<1>9. RequestSound'
  BY <1>3 DEF RequestSound
<1>10. /\ SpawnsLeft' = SpawnsLeft /\ SpawnsToCome' = SpawnsToCome
       /\ \A i : ~Publishing(i)' /\ ~Publishing(i)
       /\ RequestsToCome' = RequestsToCome
  BY <1>2, <1>3, NothingLeft, NothingLeftNext, SlotsUnmoved DEF registries, Publishing,
     RequestsToCome
<1>11. RegisteredSound' /\ SpawnedSound' /\ RoomKept'
  BY <1>2, <1>10, SlotsUnmoved
     DEF WorldInvariant, RegisteredSound, SpawnedSound, RoomKept, Differ, Contains,
         lifecycleVars, registries
<1>12. ASSUME NothingLost PROVE NothingLost'
  <2> SUFFICES ASSUME ~GivenUp', NEW i \in SpawnSlots PROVE IsFound(i)'
    BY DEF NothingLost
  <2>1. IsFound(i)
    BY <1>12 DEF NothingLost, GivenUp
  <2>2. CASE RequestIn(i) \in overwritten
    BY <2>2, SlotsUnmoved, <1>2 DEF IsFound, registries
  <2>3. CASE RequestIn(i) \notin overwritten
   <3>1. /\ spawnSlots[i].state = "Queued" => Contains(factoryQueue, RequestIn(i))
        /\ spawnSlots[i].state # "ConstructedPendingPublish"
    BY <1>10, <2>1, <2>3, NothingLeft DEF IsFound
   <3>2. ASSUME spawnSlots[i].state = "Queued"
        PROVE  \E j \in FactoriesLeft' : sealedFactories'[j] = RequestIn(i)'
    <4>1. PICK j \in DOMAIN factoryQueue : factoryQueue[j] = RequestIn(i)
      BY <1>1, <3>1, <3>2, LengthsAre DEF Contains
    <4> QED
      BY <1>2, <1>6, <4>1, SlotsUnmoved
   <3> QED
    BY <1>2, <3>1, <3>2 DEF IsFound
  <2> QED
    BY <2>2, <2>3
<1> QED
  BY <1>4, <1>5, <1>7, <1>8, <1>9, <1>11, <1>12 DEF WorldInvariant

LEMMA BeginPlayKeeps ==
    ASSUME WorldInvariant, BeginPlay
    PROVE  WorldInvariant' /\ (NothingLost => NothingLost')
  BY SealKeeps, IdleIs DEF BeginPlay, Ops

LEMMA BarrierBegins ==
    ASSUME WorldInvariant, ApplyPending \/ ApplyBarrierAfterAdvance
    PROVE  /\ call.stage = "Return" /\ call.op \in {"None", "Advance"} /\ Quiet /\ BeginBarrier
           /\ UNCHANGED <<spawnSlots, lifecycleVars, worldState, registries, collecting>>
  BY IdleIs DEF ApplyPending, ApplyBarrierAfterAdvance, AtStage, Idle, BeginBarrier, SealBarrier

LEMMA ApplyPendingKeeps ==
    ASSUME WorldInvariant, ApplyPending \/ ApplyBarrierAfterAdvance
    PROVE  WorldInvariant' /\ (NothingLost => NothingLost')
<1>1. call.stage = "Return" /\ BeginBarrier
  BY BarrierBegins
<1>2. UNCHANGED <<lifecycleVars, worldState, registries, collecting>> /\ SealBarrier
  BY <1>1 DEF BeginBarrier
<1>3. CASE HasPendingBarrierWork
  BY <1>1, <1>2, <1>3, SealKeeps DEF BeginBarrier, Ops
<1>4. CASE ~HasPendingBarrierWork
  <2>1. /\ UNCHANGED <<spawnSlots, factoryQueue, publishQueue>>
        /\ sealedFactories' = <<>> /\ sealedPublishes' = <<>>
    BY <1>2, <1>4, RefusedIs
  <2>2. /\ call' \in Calls /\ call'.op # "None" /\ call'.stage = "Return"
    BY <1>1, <1>4, Entered DEF BeginBarrier, Ops, Stages
  <2>3. CallSound'
    BY <2>2 DEF CallSound
  <2>4. overwritten' \subseteq SpawnHandles /\ overwritten \subseteq overwritten'
    BY <1>2 DEF registries, WorldInvariant, TypeOK
  <2> QED
    BY <1>1, <1>2, <2>1, <2>2, <2>3, <2>4, UnsealedKeeps DEF registries
<1> QED
  BY <1>3, <1>4

LEMMA EnterFactoryKeeps ==
    ASSUME WorldInvariant, EnterFactory
    PROVE  WorldInvariant' /\ (NothingLost => NothingLost')
<1>1. /\ call.op # "None" /\ call.stage = "Construct" /\ call.at <= Len(sealedFactories)
      /\ call' = [call EXCEPT !.stage = "Factory", !.request = sealedFactories[call.at]]
      /\ inHook' = TRUE
      /\ UNCHANGED <<lifecycle, object, components, agenda>>
      /\ UNCHANGED <<spawnVars, worldState, registries, collecting>>
  BY DEF EnterFactory, AtStage
<1>2. /\ TypeOK /\ call.at \in DOMAIN sealedFactories /\ sealedFactories[call.at] \in SpawnHandles
  BY <1>1, LengthsAre, QueuesAre DEF WorldInvariant, CallSound, TypeOK
<1>3. /\ call' \in Calls /\ call'.op # "None" /\ call'.stage = "Factory" /\ call'.at = call.at
      /\ call'.request = sealedFactories[call.at]
  BY <1>1, <1>2, CallMade, CallsAre DEF TypeOK, Calls, Stages, Requests
<1>4. TypeOK'
  BY <1>1, <1>2, <1>3 DEF TypeOK, SpawnTypeOK, LifecycleTypeOK, spawnVars, registries
<1>5. CallSound'
  BY <1>1, <1>3 DEF CallSound, WorldInvariant
<1>6. /\ FactoriesLeft' = FactoriesLeft \ {call.at} /\ call.at \in FactoriesLeft
      /\ PublishesLeft' = PublishesLeft
      /\ SpawnsLeft' = SpawnsLeft /\ SpawnsToCome' = SpawnsToCome
      /\ \A i : ~Publishing(i)' /\ ~Publishing(i)
  BY <1>1, <1>2, <1>3, LengthsAre, NothingLeft, NothingLeftNext DEF FactoriesLeft,
     PublishesLeft, Publishing, spawnVars, registries
<1>7. /\ SlotSound' /\ QueueSound' /\ SealedSound' /\ RegisteredSound' /\ SpawnedSound'
      /\ RoomKept'
  BY <1>1, <1>2, <1>3, <1>4, <1>6, NothingLeft, LengthsAre, CallMoves DEF WorldInvariant,
     registries, Resolves
<1>8. RequestSound'
  BY <1>1, <1>3, <1>6, SlotsUnmoved DEF WorldInvariant, SealedSound, Differ, RequestSound,
     Contains, spawnVars
<1>9. ASSUME NothingLost PROVE NothingLost'
  <2> SUFFICES ASSUME ~GivenUp', NEW i \in SpawnSlots PROVE IsFound(i)'
    BY DEF NothingLost
  <2>1. IsFound(i)
    BY <1>1, <1>3, <1>9 DEF NothingLost, GivenUp
  <2>2. /\ UNCHANGED <<spawnSlots, factoryQueue, sealedFactories, sealedPublishes, overwritten>>
        /\ RequestIn(i)' = RequestIn(i)
    BY <1>1, SlotsUnmoved DEF spawnVars, registries
  <2>3. ASSUME NEW j \in FactoriesLeft, sealedFactories[j] = RequestIn(i), j \notin FactoriesLeft'
        PROVE  call'.stage = "Factory" /\ call'.request = RequestIn(i)
    BY <1>3, <1>6, <2>3
  <2> QED
    BY <1>1, <1>6, <2>1, <2>2, <2>3 DEF IsFound, Contains
<1> QED
  BY <1>4, <1>5, <1>7, <1>8, <1>9 DEF WorldInvariant

-----------------------------------------------------------------------------
(* The walks of the barrier over what it has sealed.                       *)

LEMMA EndConstructKeeps ==
    ASSUME WorldInvariant, EndConstruct
    PROVE  WorldInvariant' /\ (NothingLost => NothingLost')
<1>1. /\ call.op # "None" /\ call.stage = "Construct" /\ call.at > Len(sealedFactories)
      /\ Stage("Subsystems") \/ Stage("BeginDeferred")
      /\ UNCHANGED <<spawnVars, lifecycleVars, worldState, registries, collecting>>
      /\ TypeOK
  BY DEF EndConstruct, AtStage, WorldInvariant
<1>2. /\ call' \in Calls /\ call'.op # "None" /\ call'.stage \in {"Subsystems", "BeginDeferred"}
      /\ call'.at = 1
  BY <1>1, Staged DEF Stages, TypeOK
<1>3. TypeOK'
  BY <1>1, <1>2, CallStepTyped DEF TypeOK, LifecycleTypeOK, lifecycleVars, registries
<1>4. CallSound'
  BY <1>2 DEF CallSound
<1>5. FactoriesLeft = {} /\ FactoriesLeft' = {}
  BY <1>1, <1>2, LengthsAre, NothingLeftNext DEF FactoriesLeft
<1>6. PublishesLeft = DOMAIN sealedPublishes /\ PublishesLeft' = DOMAIN sealedPublishes
  BY <1>1, <1>2, LengthsAre DEF spawnVars, PublishesLeft
<1>7. SpawnsLeft' = SpawnsLeft /\ SpawnsToCome' = SpawnsToCome /\ SpawnsToCome \in Nat
  BY <1>1, <1>2, NothingLeft, NothingLeftNext, LengthsAre DEF registries
<1>8. ~GivenUp \/ GivenUp'
  BY <1>1 DEF GivenUp
<1> QED
  BY <1>1, <1>2, <1>3, <1>4, <1>5, <1>6, <1>7, <1>8, StageKeeps DEF registries, lifecycleVars

LEMMA EndNextDoomedKeeps ==
    ASSUME WorldInvariant, EndNextDoomed
    PROVE  WorldInvariant' /\ (NothingLost => NothingLost')
<1>1. /\ call.op # "None" /\ call.stage = "EndDoomed" /\ call.at <= Len(pendingDestroy)
      /\ UNCHANGED <<spawnVars, worldState, registries, collecting>>
      /\ TypeOK /\ call.at # 0
  BY DEF EndNextDoomed, AtStage, WorldInvariant, CallSound
<1>2. call.at \in Nat /\ pendingDestroy[call.at] \in Actors
  BY <1>1, LengthsAre DEF TypeOK
<1>3. PICK moves \in Seq(Steps) : Dispatch(moves)
  BY <1>1, <1>2, EndStepsTyped, NoSteps DEF TypeOK, EndNextDoomed
<1>4. /\ agenda' \in Seq(Steps) /\ inHook' \in BOOLEAN
      /\ UNCHANGED <<lifecycle, object, components>>
  BY <1>1, <1>3, DispatchTyped
<1>5. /\ call' \in Calls /\ call'.op # "None" /\ call'.stage = "EndDoomed" /\ call'.at # 0
  <2>1. PICK e : e = (Resolves(pendingDestroy[call.at]) /\ EndFails(pendingDestroy[call.at]))
    OBVIOUS
  <2>2. call' = [call EXCEPT !.at = @ + 1, !.error = @ \/ e]
    BY <2>1 DEF EndNextDoomed
  <2>3. call \in Calls
    BY <1>1 DEF TypeOK
  <2>4. /\ call' \in Calls /\ call'.op = call.op /\ call'.stage = call.stage
        /\ call'.at = call.at + 1
    BY <2>2, <2>3, WalkOn
  <2> QED
    BY <1>1, <1>2, <2>4
<1>6. TypeOK'
  BY <1>1, <1>4, <1>5, CallStepTyped DEF TypeOK, registries
<1>7. CallSound'
  BY <1>5 DEF CallSound
<1>8. /\ FactoriesLeft' = FactoriesLeft /\ PublishesLeft' = PublishesLeft
      /\ SpawnsLeft' = SpawnsLeft /\ SpawnsToCome' = SpawnsToCome /\ SpawnsToCome \in Nat
  BY <1>1, <1>5, NothingLeft, NothingLeftNext, LengthsAre
     DEF FactoriesLeft, PublishesLeft, spawnVars, registries
<1>9. ~GivenUp \/ GivenUp'
  BY <1>1 DEF GivenUp
<1> QED
  BY <1>1, <1>4, <1>5, <1>6, <1>7, <1>8, <1>9, StageKeeps DEF registries

LEMMA EndSpawnsKeeps ==
    ASSUME WorldInvariant, EndSpawns
    PROVE  WorldInvariant' /\ (NothingLost => NothingLost')
<1>1. /\ call.op # "None" /\ call.stage = "BeginSpawns" /\ call.at > Len(pendingSpawn)
      /\ pendingSpawn' = <<>>
      /\ UNCHANGED <<spawnVars, lifecycleVars, worldState, registered, subsystems,
                     pendingDestroy, assigned, overbooked, overwritten, collecting>>
      /\ TypeOK /\ call.at <= Len(pendingSpawn) + 1
  BY DEF EndSpawns, AtStage, WorldInvariant, CallSound
<1>2. /\ call' \in Calls /\ call'.op # "None" /\ call'.stage = "Construct" /\ call'.at = 1
  BY <1>1, Staged DEF EndSpawns, Stage, Stages, TypeOK
<1>3. TypeOK'
  BY <1>1, <1>2, CallStepTyped DEF TypeOK, LifecycleTypeOK, lifecycleVars
<1>4. CallSound'
  BY <1>2 DEF CallSound
<1>5. FactoriesLeft' = FactoriesLeft /\ PublishesLeft' = PublishesLeft
  BY <1>1, <1>2, LengthsAre DEF FactoriesLeft, PublishesLeft, spawnVars
<1>6. SpawnsLeft' = {} /\ SpawnsToCome' = 0 /\ SpawnsToCome = 0
  BY <1>1, <1>2, LengthsAre DEF SpawnsLeft, SpawnsToCome
<1>7. ~GivenUp \/ GivenUp'
  BY <1>1 DEF GivenUp
<1> QED
  BY <1>1, <1>2, <1>3, <1>4, <1>5, <1>6, <1>7, StageKeeps DEF lifecycleVars

LEMMA EndDeferredKeeps ==
    ASSUME WorldInvariant, EndDeferred
    PROVE  WorldInvariant' /\ (NothingLost => NothingLost')
<1>1. /\ call.op # "None" /\ call.stage = "BeginDeferred" /\ call.at > Len(sealedPublishes)
      /\ UNCHANGED <<spawnVars, worldState, registries, collecting>>
      /\ TypeOK
  BY DEF EndDeferred, AtStage, WorldInvariant
<1>2. /\ call' \in Calls /\ call'.stage \in {"Return", "Failed"}
      /\ call'.op # "None" \/ call' = NoCall
      /\ agenda' \in Seq(Steps) /\ inHook' \in BOOLEAN
      /\ UNCHANGED <<lifecycle, object, components>>
  <2>1. CASE Dispatch(EndActors(registered) \o DeinitializeSubsystems) /\ Stage("Failed")
    BY <1>1, <2>1, MovesTyped, DispatchTyped, Staged DEF Stages, TypeOK
  <2>2. CASE Return /\ UNCHANGED lifecycleVars
    BY <1>1, <2>2, NoCallIs DEF Return, lifecycleVars, TypeOK, LifecycleTypeOK
  <2> QED
    BY <2>1, <2>2 DEF EndDeferred
<1>3. TypeOK'
  BY <1>1, <1>2, CallStepTyped DEF TypeOK, registries
<1>4. CallSound'
  BY <1>2, NoCallIs DEF CallSound
<1>5. /\ FactoriesLeft = {} /\ FactoriesLeft' = {} /\ PublishesLeft = {} /\ PublishesLeft' = {}
  BY <1>1, <1>2, LengthsAre, NothingLeft, NothingLeftNext DEF PublishesLeft
<1>6. SpawnsLeft' = SpawnsLeft /\ SpawnsToCome' = SpawnsToCome /\ SpawnsToCome \in Nat
  BY <1>1, <1>2, NothingLeft, NothingLeftNext, LengthsAre DEF registries
<1>7. ~GivenUp \/ GivenUp'
  BY <1>1 DEF GivenUp
<1> QED
  BY <1>1, <1>2, <1>3, <1>4, <1>5, <1>6, <1>7, StageKeeps DEF registries

\* The actor of a constructed request is there, so the walk passes over nothing.
LEMMA PublishResolves ==
    ASSUME WorldInvariant, call.stage = "BeginDeferred", call.at <= Len(sealedPublishes)
    PROVE  LET h == sealedPublishes[call.at]
           IN  /\ call.at \in PublishesLeft /\ h \in SpawnHandles /\ Constructed(h)
               /\ h.index \in SpawnSlots /\ h = RequestIn(h.index)
               /\ spawnSlots[h.index].state = "ConstructedPendingPublish"
               /\ GetConstructedActor(h) = spawnSlots[h.index].actor
               /\ GetConstructedActor(h) \in TypedActors /\ GetConstructedActor(h) # NoActor
               /\ Resolves(GetConstructedActor(h))
<1> DEFINE h == sealedPublishes[call.at]
<1>1. TypeOK /\ call.at # 0
  BY DEF WorldInvariant, CallSound
<1>2. call.at \in PublishesLeft
  BY <1>1, LengthsAre DEF PublishesLeft
<1>3. Constructed(h) /\ Resolves(GetConstructedActor(h))
  BY <1>2 DEF WorldInvariant, SealedSound
<1>4. /\ h \in SpawnHandles /\ h.index \in SpawnSlots /\ h = RequestIn(h.index)
      /\ spawnSlots[h.index].state = "ConstructedPendingPublish"
  BY <1>1, <1>3, StatesAre DEF TypeOK
<1>5. GetConstructedActor(h) = spawnSlots[h.index].actor
  BY <1>3 DEF GetConstructedActor, Constructed
<1>6. spawnSlots[h.index].actor \in TypedActors /\ spawnSlots[h.index].actor # NoActor
  BY <1>1, <1>4, SlotsAre, SpawnAssumption DEF WorldInvariant, SlotSound, TypeOK, SpawnAssumption
<1> QED
  BY <1>2, <1>3, <1>4, <1>5, <1>6

\* An actor that joins the registry.
LEMMA JoinDoes ==
    ASSUME TypeOK, RegisteredSound, NEW a \in Actors, a \notin assigned, Resolves(a),
           assigned' = assigned \cup {a}, registered' = Append(registered, a)
    PROVE  /\ assigned' \subseteq Actors
           /\ registered' \in Seq(Actors) /\ Len(registered)' = Len(registered) + 1
           /\ \A i \in DOMAIN registered' : registered'[i] \in assigned'
           /\ Differ(registered, DOMAIN registered)'
           /\ \A b : Contains(registered, b)' <=> (Contains(registered, b) \/ b = a)
           /\ \A b \in assigned' : object[b] # "Unborn"
<1>1. /\ assigned' = assigned \cup {a} /\ registered' = Append(registered, a)
      /\ registered \in Seq(Actors) /\ assigned \subseteq Actors
  BY DEF TypeOK
<1>2. /\ registered' \in Seq(Actors) /\ Len(registered') = Len(registered) + 1
      /\ Len(registered) \in Nat
      /\ DOMAIN registered' = 1..(Len(registered) + 1) /\ DOMAIN registered = 1..Len(registered)
      /\ registered'[Len(registered) + 1] = a
      /\ \A i \in 1..Len(registered) : registered'[i] = registered[i]
  BY <1>1
<1>3. \A i \in 1..Len(registered) : registered[i] \in assigned /\ registered[i] # a
  BY <1>2 DEF RegisteredSound
<1>4. \A i \in DOMAIN registered' : registered'[i] \in assigned'
  <2> TAKE i \in DOMAIN registered'
  <2>1. i \in 1..Len(registered) \/ i = Len(registered) + 1
    BY <1>2
  <2> QED
    BY <1>1, <1>2, <1>3, <2>1
<1>5. Differ(registered, DOMAIN registered)'
  <2> SUFFICES ASSUME NEW i \in DOMAIN registered', NEW j \in DOMAIN registered',
                      registered'[i] = registered'[j]
               PROVE  i = j
    BY DEF Differ
  <2>1. /\ i \in 1..Len(registered) \/ i = Len(registered) + 1
        /\ j \in 1..Len(registered) \/ j = Len(registered) + 1
    BY <1>2
  <2>2. \A k, l \in 1..Len(registered) : registered[k] = registered[l] => k = l
    BY <1>2 DEF RegisteredSound, Differ
  <2> QED
    BY <1>2, <1>3, <2>1, <2>2
<1>6. ASSUME NEW b
      PROVE  Contains(registered, b)' <=> (Contains(registered, b) \/ b = a)
  BY <1>2 DEF Contains
<1>7. \A b \in assigned' : object[b] # "Unborn"
  BY <1>1 DEF RegisteredSound, Resolves
<1> QED
  BY <1>1, <1>2, <1>4, <1>5, <1>6, <1>7

LEMMA PublishDoes ==
    ASSUME TypeOK, RegisteredSound, NEW a \in Actors, a \notin assigned, Resolves(a), Publish(a)
    PROVE  /\ assigned' = assigned \cup {a} /\ assigned' \subseteq Actors
           /\ registered' \in Seq(Actors) /\ Len(registered)' = Len(registered) + 1
           /\ \A i \in DOMAIN registered' : registered'[i] \in assigned'
           /\ Differ(registered, DOMAIN registered)'
           /\ \A b : Contains(registered, b)' <=> (Contains(registered, b) \/ b = a)
           /\ \A b \in assigned' : object[b] # "Unborn"
           /\ agenda' \in Seq(Steps) /\ inHook' \in BOOLEAN
           /\ UNCHANGED <<lifecycle, object, components>>
<1>1. /\ assigned' = assigned \cup {a} /\ registered' = Append(registered, a)
      /\ Dispatch(BeginSteps(a))
  BY DEF Publish
<1>2. agenda' \in Seq(Steps) /\ inHook' \in BOOLEAN /\ UNCHANGED <<lifecycle, object, components>>
  BY <1>1, BeginStepsTyped, DispatchTyped DEF TypeOK
<1> QED
  BY <1>1, <1>2, JoinDoes

LEMMA BeginNextSpawnKeeps ==
    ASSUME WorldInvariant, BeginNextSpawn
    PROVE  WorldInvariant' /\ (NothingLost => NothingLost')
<1> DEFINE a == pendingSpawn[call.at]
<1>1. /\ call.op # "None" /\ call.stage = "BeginSpawns" /\ call.at <= Len(pendingSpawn)
      /\ UNCHANGED <<spawnVars, worldState, subsystems, pendingSpawn, pendingDestroy>>
      /\ UNCHANGED <<overbooked, overwritten, collecting>>
      /\ TypeOK /\ call.at # 0
      /\ IF Resolves(a) THEN Publish(a) ELSE UNCHANGED <<lifecycleVars, registered, assigned>>
  BY DEF BeginNextSpawn, AtStage, WorldInvariant, CallSound
<1>2. /\ call.at \in Nat /\ call.at \in DOMAIN pendingSpawn /\ a \in ManualActors
      /\ Len(pendingSpawn) \in Nat /\ DOMAIN pendingSpawn \subseteq Nat
  BY <1>1, LengthsAre DEF TypeOK
<1>3. /\ call' \in Calls /\ call'.op = call.op /\ call'.stage = call.stage
      /\ call'.at = call.at + 1
  <2>1. PICK e : e = (Resolves(a) /\ BeginFails(a))
    OBVIOUS
  <2>2. call' = [call EXCEPT !.at = @ + 1, !.error = @ \/ e]
    BY <2>1 DEF BeginNextSpawn
  <2>3. call \in Calls
    BY <1>1 DEF TypeOK
  <2> QED
    BY <2>2, <2>3, WalkOn
<1> HIDE DEF a
<1>4. /\ FactoriesLeft' = FactoriesLeft /\ PublishesLeft' = PublishesLeft
      /\ SpawnsLeft' = SpawnsLeft \ {call.at} /\ call.at \in SpawnsLeft
      /\ SpawnsToCome' = SpawnsToCome - 1 /\ SpawnsToCome \in Int
      /\ \A i : ~Publishing(i) /\ ~Publishing(i)'
  BY <1>1, <1>2, <1>3
     DEF FactoriesLeft, PublishesLeft, SpawnsLeft, SpawnsToCome, Publishing, spawnVars
<1>5. CallSound'
  BY <1>1, <1>2, <1>3 DEF CallSound
<1>6. CASE ~Resolves(a)
  <2>1. UNCHANGED <<lifecycleVars, registered, assigned>>
    BY <1>1, <1>6
  <2>2. TypeOK'
    BY <1>1, <1>3, <2>1, CallStepTyped DEF TypeOK, LifecycleTypeOK, lifecycleVars
  <2>3. ~GivenUp \/ GivenUp'
    BY <1>1 DEF GivenUp
  <2>4. SpawnsToCome' <= SpawnsToCome
    BY <1>4
  <2> QED
    BY <1>1, <1>3, <1>4, <1>5, <2>1, <2>2, <2>3, <2>4, StageKeeps DEF lifecycleVars
<1>7. CASE Resolves(a)
  <2>1. a \notin assigned /\ a \in Actors /\ RegisteredSound
    BY <1>2, <1>4, ObjectKinds DEF WorldInvariant, RegisteredSound, a
  <2>2. /\ assigned' = assigned \cup {a} /\ assigned' \subseteq Actors
        /\ registered' \in Seq(Actors) /\ Len(registered)' = Len(registered) + 1
        /\ \A i \in DOMAIN registered' : registered'[i] \in assigned'
        /\ Differ(registered, DOMAIN registered)'
        /\ \A b : Contains(registered, b)' <=> (Contains(registered, b) \/ b = a)
        /\ \A b \in assigned' : object[b] # "Unborn"
        /\ agenda' \in Seq(Steps) /\ inHook' \in BOOLEAN
        /\ UNCHANGED <<lifecycle, object, components>>
    BY <1>1, <1>7, <2>1, PublishDoes
  <2>3. TypeOK'
    BY <1>1, <1>3, <2>2 DEF TypeOK, SpawnTypeOK, LifecycleTypeOK, spawnVars
  <2>4. /\ UNCHANGED <<spawnSlots, factoryQueue, publishQueue, sealedFactories, sealedPublishes>>
        /\ UNCHANGED <<object, pendingSpawn, worldState>>
    BY <1>1, <2>2 DEF spawnVars
  <2>5. SlotSound' /\ QueueSound' /\ SealedSound'
    BY <1>1, <1>3, <1>4, <2>4, SlotsUnmoved
       DEF WorldInvariant, SlotSound, QueueSound, SealedSound, Differ, Contains, Resolves,
           GetConstructedActor, StateOf, SlotMatches
  <2>6. RequestSound'
    BY <1>1, <1>3 DEF RequestSound
  <2>7. RegisteredSound'
    <3>1. \A i \in SpawnsLeft' : pendingSpawn[i] \notin assigned'
      BY <1>4, <2>1, <2>2 DEF RegisteredSound, Differ, SpawnsLeft, a
    <3> QED
      BY <2>1, <2>2, <2>4, <3>1 DEF RegisteredSound, Differ
  <2>8. SpawnedSound'
    <3>1. a \notin TypedActors
      BY <1>2, ObjectKinds
    <3>2. \A i \in SpawnSlots : spawnSlots[i].state = "ConstructedPendingPublish" =>
            (spawnSlots[i].actor \in assigned' <=> spawnSlots[i].actor \in assigned)
      BY <1>1, <2>2, <3>1, SlotsAre DEF WorldInvariant, SlotSound, TypeOK
    <3>3. \A b : Contains(registered, b) => Contains(registered, b)'
      BY <2>2
    <3>4. \A b \in TypedActors : Contains(registered, b)' => Contains(registered, b)
      BY <2>2, <3>1
    <3>5. SpawnedSound
      BY DEF WorldInvariant
    <3> QED
      BY <1>4, <2>4, <3>2, <3>3, <3>4, <3>5 DEF SpawnedSound
  <2>9. RoomKept'
    BY <1>1, <1>3, <1>4, <2>2, <2>4, SlotsUnmoved, PendingAre, LengthsAre DEF RequestsToCome,
       RoomKept, WorldInvariant
  <2>10. NothingLost => NothingLost'
    BY <1>1, <1>3, <1>4, <2>4, SlotsUnmoved DEF NothingLost, IsFound, GivenUp, Contains
  <2> QED
    BY <1>5, <2>3, <2>5, <2>6, <2>7, <2>8, <2>9, <2>10 DEF WorldInvariant
<1> QED
  BY <1>6, <1>7


LEMMA BeginNextDeferredDoes ==
    ASSUME WorldInvariant, BeginNextDeferred
    PROVE  LET h == sealedPublishes[call.at]
               a == GetConstructedActor(h)
           IN  /\ call.stage = "BeginDeferred" /\ call.op # "None" /\ call.at # 0
               /\ call.at \in PublishesLeft /\ h \in SpawnHandles /\ Constructed(h)
               /\ h.index \in SpawnSlots /\ h = RequestIn(h.index)
               /\ spawnSlots[h.index].state = "ConstructedPendingPublish"
               /\ spawnSlots[h.index].actor = a
               /\ a \in TypedActors /\ a # NoActor /\ Resolves(a) /\ a \notin assigned
               /\ Publish(a)
               /\ call' \in Calls /\ call'.op = call.op /\ call'.stage = "Published"
               /\ call'.at = call.at /\ call'.request = h
               /\ UNCHANGED <<spawnVars, worldState, subsystems, pendingSpawn, pendingDestroy,
                              overbooked, overwritten, collecting>>
<1> DEFINE h == sealedPublishes[call.at]
           a == GetConstructedActor(h)
<1>1. /\ call.stage = "BeginDeferred" /\ call.op # "None" /\ call.at <= Len(sealedPublishes)
      /\ UNCHANGED <<spawnVars, worldState, subsystems, pendingSpawn, pendingDestroy>>
      /\ UNCHANGED <<overbooked, overwritten, collecting>>
      /\ TypeOK /\ call.at # 0
  BY DEF BeginNextDeferred, AtStage, WorldInvariant, CallSound
<1>2. /\ call.at \in PublishesLeft /\ h \in SpawnHandles /\ Constructed(h)
      /\ h.index \in SpawnSlots /\ h = RequestIn(h.index)
      /\ spawnSlots[h.index].state = "ConstructedPendingPublish"
      /\ a = spawnSlots[h.index].actor
      /\ a \in TypedActors /\ a # NoActor /\ Resolves(a)
  BY <1>1, PublishResolves
<1>3. a \notin assigned
  BY <1>1, <1>2 DEF WorldInvariant, SpawnedSound, Publishing
<1>4. Publish(a)
  BY <1>2 DEF BeginNextDeferred
<1>5. PICK e : e = BeginFails(a)
  OBVIOUS
<1>6. call' = [call EXCEPT !.stage = "Published", !.request = h, !.error = @ \/ e]
  BY <1>2, <1>5 DEF BeginNextDeferred
<1> HIDE DEF h, a
<1>7. call = [op |-> call.op, stage |-> call.stage, at |-> call.at, error |-> call.error,
              request |-> call.request]
  BY <1>1 DEF TypeOK, Calls
<1>8. call' = [op |-> call.op, stage |-> "Published", at |-> call.at,
               error |-> (call.error \/ e), request |-> h]
  BY <1>6, <1>7
<1>9. call.op \in Ops /\ call.at \in Nat /\ call.error \in Errors
  BY <1>1, CallsAre DEF TypeOK
<1>10. PICK error \in Errors : error = (call.error \/ e)
  BY <1>9, Zenon DEF Errors
<1>11. call' = [op |-> call.op, stage |-> "Published", at |-> call.at, error |-> error,
                request |-> h]
  BY <1>8, <1>10, Zenon
<1>12. /\ call' \in Calls /\ call'.op = call.op /\ call'.stage = "Published"
       /\ call'.at = call.at /\ call'.request = h
  BY <1>2, <1>9, <1>11, CallMade DEF Stages, Requests
<1> QED
  BY <1>1, <1>2, <1>3, <1>4, <1>12 DEF h, a

LEMMA BeginNextDeferredKeeps ==
    ASSUME WorldInvariant, BeginNextDeferred
    PROVE  WorldInvariant' /\ (NothingLost => NothingLost')
<1> DEFINE h == sealedPublishes[call.at]
           a == GetConstructedActor(h)
<1>1. /\ call.stage = "BeginDeferred" /\ call.op # "None" /\ call.at # 0
      /\ call.at \in PublishesLeft /\ h \in SpawnHandles /\ Constructed(h)
      /\ h.index \in SpawnSlots /\ h = RequestIn(h.index)
      /\ spawnSlots[h.index].state = "ConstructedPendingPublish"
      /\ spawnSlots[h.index].actor = a
      /\ a \in TypedActors /\ a # NoActor /\ Resolves(a) /\ a \notin assigned
      /\ Publish(a)
      /\ call' \in Calls /\ call'.op = call.op /\ call'.stage = "Published"
      /\ call'.at = call.at /\ call'.request = h
      /\ UNCHANGED <<spawnVars, worldState, subsystems, pendingSpawn, pendingDestroy>>
      /\ UNCHANGED <<overbooked, overwritten, collecting>>
  BY BeginNextDeferredDoes
<1>2. TypeOK /\ SlotSound /\ RegisteredSound /\ SpawnedSound /\ SealedSound /\ a \in Actors
      /\ QueueSound
  BY <1>1, ObjectKinds DEF WorldInvariant
<1>3. \A i \in PublishesLeft \ {call.at} : sealedPublishes[i] # h
  BY <1>1, <1>2 DEF SealedSound, Differ
<1> HIDE DEF h, a
<1>4. /\ FactoriesLeft = {} /\ FactoriesLeft' = {}
      /\ PublishesLeft' = PublishesLeft \ {call.at}
      /\ SpawnsLeft' = SpawnsLeft /\ SpawnsToCome' = SpawnsToCome
      /\ SpawnsLeft = DOMAIN pendingSpawn
  <2>1. FactoriesLeft = {} /\ FactoriesLeft' = {}
    BY <1>1 DEF FactoriesLeft
  <2>2. DOMAIN sealedPublishes' = DOMAIN sealedPublishes /\ DOMAIN sealedPublishes \subseteq Nat
        /\ call.at \in Nat
    BY <1>1, <1>2, LengthsAre DEF spawnVars
  <2>3. PublishesLeft = {i \in DOMAIN sealedPublishes : i >= call.at}
        /\ PublishesLeft' = {i \in DOMAIN sealedPublishes' : i > call.at}
    BY <1>1 DEF PublishesLeft
  <2>4. PublishesLeft' = PublishesLeft \ {call.at}
    BY <2>2, <2>3
  <2> QED
    BY <1>1, <2>1, <2>4, NothingLeft, NothingLeftNext
<1>5. /\ assigned' = assigned \cup {a} /\ assigned' \subseteq Actors
      /\ registered' \in Seq(Actors) /\ Len(registered)' = Len(registered) + 1
      /\ \A i \in DOMAIN registered' : registered'[i] \in assigned'
      /\ Differ(registered, DOMAIN registered)'
      /\ \A b : Contains(registered, b)' <=> (Contains(registered, b) \/ b = a)
      /\ \A b \in assigned' : object[b] # "Unborn"
      /\ agenda' \in Seq(Steps) /\ inHook' \in BOOLEAN
      /\ UNCHANGED <<lifecycle, object, components>>
  BY <1>1, <1>2, PublishDoes
<1>6. TypeOK'
  BY <1>1, <1>2, <1>5 DEF TypeOK, SpawnTypeOK, LifecycleTypeOK, spawnVars
<1>7. CallSound'
  BY <1>1 DEF CallSound
<1>8. /\ UNCHANGED <<spawnSlots, factoryQueue, publishQueue, sealedFactories, sealedPublishes>>
      /\ UNCHANGED <<object, pendingSpawn, worldState>>
  BY <1>1, <1>5 DEF spawnVars
<1>9. SlotSound' /\ QueueSound'
  BY <1>2, <1>8, SlotsUnmoved DEF SlotSound, QueueSound, Differ
<1>10. SealedSound'
  <2>1. \A g : GetConstructedActor(g)' = GetConstructedActor(g)
    BY <1>8 DEF GetConstructedActor, StateOf, SlotMatches
  <2>2. \A x : Resolves(x)' = Resolves(x)
    BY <1>8 DEF Resolves
  <2>3. \A i \in PublishesLeft' : Constructed(sealedPublishes[i])'
                                  /\ Resolves(GetConstructedActor(sealedPublishes[i]))'
    BY <1>2, <1>4, <1>8, <2>1, <2>2, SlotsUnmoved DEF SealedSound, Resolves
  <2>4. Differ(sealedPublishes, PublishesLeft)'
    BY <1>2, <1>4, <1>8 DEF SealedSound, Differ
  <2>5. Differ(sealedFactories, FactoriesLeft)'
    BY <1>4 DEF Differ
  <2> QED
    BY <1>1, <1>4, <1>8, <2>3, <2>4, <2>5 DEF SealedSound
<1>11. RequestSound'
  BY <1>1, <1>3, <1>4, <1>8, SlotsUnmoved DEF h, RequestSound
<1>12. RegisteredSound'
  BY <1>1, <1>2, <1>4, <1>5, <1>8, ObjectKinds, LengthsAre DEF TypeOK, RegisteredSound, Differ
<1>13. \A i \in SpawnSlots : Publishing(i)' <=> i = h.index
  BY <1>1, <1>8 DEF RequestIn, Publishing
<1>14. \A i : ~Publishing(i)
  BY <1>1 DEF Publishing
<1>15. SpawnedSound'
  <2>1. ASSUME NEW i \in SpawnSlots, spawnSlots[i].state = "Spawned" \/ Publishing(i)'
        PROVE  Contains(registered', spawnSlots[i].actor)
    <3>1. CASE spawnSlots[i].state = "Spawned"
      BY <1>2, <1>5, <3>1 DEF SpawnedSound
    <3>2. CASE Publishing(i)'
      BY <1>1, <1>5, <1>13, <3>2
    <3> QED
      BY <2>1, <3>1, <3>2
  <2>2. ASSUME NEW i \in SpawnSlots, spawnSlots[i].state = "ConstructedPendingPublish"
        PROVE  spawnSlots[i].actor \in assigned' <=> Publishing(i)'
    <3>1. CASE i = h.index
      BY <1>1, <1>5, <1>13, <3>1
    <3>2. CASE i # h.index
      BY <1>1, <1>2, <1>5, <1>13, <1>14, <2>2, <3>2 DEF SpawnedSound, SlotSound
    <3> QED
      BY <3>1, <3>2
  <2>3. \A b \in TypedActors : Contains(registered, b)' =>
            \E i \in SpawnSlots : spawnSlots[i].actor = b
    BY <1>1, <1>2, <1>5 DEF SpawnedSound
  <2> QED
    BY <1>8, <2>1, <2>2, <2>3 DEF SpawnedSound
<1>16. RoomKept'
  <2>1. PendingCount' = PendingCount /\ PendingCount \in Nat
    BY <1>8, SlotsUnmoved, PendingAre
  <2>2. RequestsToCome = PendingCount /\ RequestsToCome' = PendingCount - 1
    BY <1>1, <2>1 DEF RequestsToCome
  <2>3. Len(registered) \in Nat /\ Capacity \in Nat /\ SpawnsToCome \in Nat
    BY <1>1, <1>2, LengthsAre, NothingLeft
  <2>4. overbooked \/ Len(registered) + SpawnsToCome + RequestsToCome <= Capacity
    BY DEF WorldInvariant, RoomKept
  <2> QED
    BY <1>1, <1>4, <1>5, <2>1, <2>2, <2>3, <2>4 DEF RoomKept
<1>17. ASSUME NothingLost PROVE NothingLost'
  <2> SUFFICES ASSUME ~GivenUp', NEW i \in SpawnSlots PROVE IsFound(i)'
    BY DEF NothingLost
  <2>1. IsFound(i)
    BY <1>1, <1>8, <1>17 DEF NothingLost, GivenUp
  <2>2. RequestIn(i)' = RequestIn(i)
    BY <1>8, SlotsUnmoved
  <2>3. ASSUME NEW j \in PublishesLeft, sealedPublishes[j] = RequestIn(i), j \notin PublishesLeft'
        PROVE  Publishing(i)'
    BY <1>1, <1>4, <2>2, <2>3 DEF h, Publishing
  <2> QED
    BY <1>1, <1>4, <1>8, <1>14, <2>1, <2>2, <2>3 DEF IsFound, Contains
<1> QED
  BY <1>6, <1>7, <1>9, <1>10, <1>11, <1>12, <1>15, <1>16, <1>17 DEF WorldInvariant

LEMMA CompleteDeferredKeeps ==
    ASSUME WorldInvariant, CompleteDeferred
    PROVE  WorldInvariant' /\ (NothingLost => NothingLost')
<1>1. /\ call.op # "None" /\ call.stage = "Published" /\ CompletePublish(call.request)
      /\ call' = [call EXCEPT !.stage = "BeginDeferred", !.at = @ + 1, !.request = NoRequest]
      /\ UNCHANGED <<lifecycleVars, worldState, registries, collecting>>
      /\ TypeOK /\ SlotSound /\ QueueSound /\ SealedSound /\ RequestSound /\ RegisteredSound
      /\ SpawnedSound /\ SpawnTypeOK /\ call \in Calls
  BY DEF CompleteDeferred, AtStage, WorldInvariant, TypeOK
<1>2. PICK h : h = call.request
  OBVIOUS
<1>3. PICK s : s = h.index
  OBVIOUS
<1>4. /\ Constructed(h) /\ h \in SpawnHandles /\ s \in SpawnSlots /\ h = RequestIn(s)
      /\ spawnSlots[s].state = "ConstructedPendingPublish"
      /\ \A i \in PublishesLeft : sealedPublishes[i] # h
  BY <1>1, <1>2, <1>3, StatesAre DEF RequestSound
<1>5. /\ spawnSlots' = [spawnSlots EXCEPT ![s].state = "Spawned"]
      /\ UNCHANGED <<factoryQueue, publishQueue, sealedFactories, sealedPublishes>>
  BY <1>1, <1>2, <1>3, <1>4 DEF CompletePublish, Constructed
<1>6. /\ spawnSlots[s] \in FSlot
      /\ spawnSlots'[s] = [spawnSlots[s] EXCEPT !.state = "Spawned"]
      /\ spawnSlots' \in [SpawnSlots -> FSlot]
      /\ spawnSlots'[s].state = "Spawned" /\ spawnSlots'[s].actor = spawnSlots[s].actor
      /\ spawnSlots'[s].generation = spawnSlots[s].generation
      /\ \A i \in SpawnSlots : i # s => spawnSlots'[i] = spawnSlots[i]
  BY <1>1, <1>4, <1>5 DEF SpawnTypeOK, FSlot, SpawnStates
<1>7. /\ call' \in Calls /\ call'.op = call.op /\ call'.stage = "BeginDeferred"
      /\ call'.at = call.at + 1 /\ call'.request = NoRequest /\ call.at \in Nat
  <2>1. call.at \in Nat /\ call.at + 1 \in Nat
    BY <1>1, CallsAre
  <2>2. call' = [call EXCEPT !.stage = "BeginDeferred", !.at = call.at + 1, !.request = NoRequest]
    BY <1>1 DEF Calls
  <2>3. "BeginDeferred" \in Stages /\ NoRequest \in Requests
    BY DEF Stages, Requests
  <2>4. call \in Calls
    BY <1>1
  <2>5. /\ call' \in Calls /\ call'.op = call.op /\ call'.stage = "BeginDeferred"
        /\ call'.at = call.at + 1 /\ call'.request = NoRequest
    BY <2>1, <2>2, <2>3, <2>4, NextAt
  <2> QED
    BY <2>1, <2>5
<1>8. TypeOK'
  BY <1>1, <1>5, <1>6, <1>7 DEF SpawnTypeOK, TypeOK, LifecycleTypeOK, lifecycleVars, registries
<1>9. CallSound'
  BY <1>1, <1>7 DEF CallSound
<1>10. PendingSlots' = PendingSlots \ {s} /\ s \in PendingSlots
  BY <1>4, <1>6 DEF PendingSlots
<1>11. PendingCount' = PendingCount - 1
  BY <1>10, PendingRemoved
<1>12. /\ FactoriesLeft = {} /\ FactoriesLeft' = {} /\ PublishesLeft' = PublishesLeft
       /\ SpawnsLeft' = SpawnsLeft /\ SpawnsToCome' = SpawnsToCome
  <2>1. FactoriesLeft = {} /\ FactoriesLeft' = {}
    BY <1>1, <1>7 DEF FactoriesLeft
  <2>2. DOMAIN sealedPublishes \subseteq Nat
    BY <1>1, LengthsAre
  <2>3. PublishesLeft' = PublishesLeft
    BY <1>1, <1>5, <1>7, <2>2 DEF PublishesLeft
  <2> QED
    BY <1>1, <1>7, <2>1, <2>3, NothingLeft, NothingLeftNext DEF registries
<1>13. /\ \A g : Waits(g) => g.index # s
       /\ \A i \in PublishesLeft : sealedPublishes[i].index # s
  <2>1. \A g : Waits(g) => g.index # s
    BY <1>1, <1>4, StatesAre
  <2>2. ASSUME NEW i \in PublishesLeft PROVE sealedPublishes[i].index # s
    BY <1>1, <1>4, StatesAre DEF SealedSound
  <2> QED
    BY <2>1, <2>2
<1>14. /\ \A g : Waits(g) => Waits(g)'
       /\ \A g : Constructed(g) /\ g.index # s =>
             Constructed(g)' /\ GetConstructedActor(g)' = GetConstructedActor(g)
  BY <1>1, <1>6, <1>13, OthersKeep DEF PendingSlots
<1>15. SlotSound'
  <2>1. \A i \in SpawnSlots : /\ spawnSlots'[i].actor = spawnSlots[i].actor
                              /\ spawnSlots'[i].generation = spawnSlots[i].generation
                              /\ i # s => spawnSlots'[i].state = spawnSlots[i].state
    BY <1>6
  <2>2. object' = object
    BY <1>1 DEF lifecycleVars
  <2> QED
    <3>1. \A i \in SpawnSlots : i \in PendingSlots' => spawnSlots'[i].generation # 0
      BY <1>1, <1>10, <2>1 DEF SlotSound
    <3>2. \A i \in SpawnSlots : spawnSlots'[i].actor # NoActor <=>
              spawnSlots'[i].state \in {"ConstructedPendingPublish", "Spawned"}
      BY <1>1, <1>4, <1>6, <2>1 DEF SlotSound
    <3>3. /\ \A i \in SpawnSlots : spawnSlots'[i].actor # NoActor =>
                object'[spawnSlots'[i].actor] # "Unborn"
          /\ \A i, j \in SpawnSlots : spawnSlots'[i].actor = spawnSlots'[j].actor =>
                i = j \/ spawnSlots'[i].actor = NoActor
      BY <1>1, <2>1, <2>2 DEF SlotSound
    <3> QED
      BY <3>1, <3>2, <3>3 DEF SlotSound
<1>16. QueueSound'
  BY <1>1, <1>5, <1>14 DEF QueueSound, Differ
<1>17. SealedSound'
  <2>1. \A x : Resolves(x)' = Resolves(x)
    BY <1>1 DEF Resolves, lifecycleVars
  <2>2. ASSUME NEW i \in PublishesLeft
        PROVE  /\ Constructed(sealedPublishes[i])'
               /\ Resolves(GetConstructedActor(sealedPublishes[i]))'
    <3>1. PICK g : g = sealedPublishes[i]
      OBVIOUS
    <3>2. Constructed(g) /\ g.index # s /\ Resolves(GetConstructedActor(g))
      BY <1>1, <1>13, <3>1 DEF SealedSound
    <3>3. Constructed(g)' /\ GetConstructedActor(g)' = GetConstructedActor(g)
      BY <1>14, <3>2
    <3>4. sealedPublishes'[i] = g
      BY <1>5, <3>1
    <3>5. Resolves(GetConstructedActor(g))'
      BY <1>1, <3>2, <3>3 DEF Resolves, lifecycleVars
    <3> QED
      BY <3>3, <3>4, <3>5
         DEF Constructed, Resolves, GetConstructedActor, StateOf, SlotMatches
  <2>3. Differ(sealedPublishes, PublishesLeft)' /\ Differ(sealedFactories, FactoriesLeft)'
    BY <1>1, <1>5, <1>12 DEF SealedSound, Differ
  <2> QED
    BY <1>7, <1>12, <2>2, <2>3 DEF SealedSound
<1>18. RequestSound'
  BY <1>7 DEF RequestSound
<1>19. RegisteredSound'
  BY <1>1, <1>12 DEF RegisteredSound, Differ, lifecycleVars, registries
<1>20. \A i \in SpawnSlots : /\ ~Publishing(i)' /\ RequestIn(i)' = RequestIn(i)
                             /\ Publishing(i) <=> i = s
  <2>1. \A i : RequestIn(i).index = i
    BY DEF RequestIn
  <2>2. \A i \in SpawnSlots : Publishing(i) <=> i = s
    BY <1>1, <1>2, <1>4, <2>1 DEF Publishing
  <2> QED
    BY <1>6, <1>7, <2>2 DEF Publishing, RequestIn
<1>21. SpawnedSound'
  <2>1. UNCHANGED <<registered, assigned>>
    BY <1>1 DEF registries
  <2>2. ASSUME NEW i \in SpawnSlots
        PROVE  /\ spawnSlots'[i].state = "Spawned" =>
                    Contains(registered', spawnSlots'[i].actor)
               /\ spawnSlots'[i].state = "ConstructedPendingPublish" =>
                    spawnSlots'[i].actor \notin assigned'
    <3>1. CASE i = s
      BY <1>1, <1>4, <1>6, <1>20, <2>1, <3>1 DEF SpawnedSound
    <3>2. CASE i # s
      BY <1>1, <1>6, <1>20, <2>1, <3>2 DEF SpawnedSound
    <3> QED
      BY <3>1, <3>2
  <2>3. \A b \in TypedActors : Contains(registered', b) =>
            \E i \in SpawnSlots : spawnSlots'[i].actor = b
    <3>1. \A i \in SpawnSlots : spawnSlots'[i].actor = spawnSlots[i].actor
      BY <1>6
    <3> QED
      BY <1>1, <2>1, <3>1 DEF SpawnedSound
  <2> QED
    BY <1>20, <2>2, <2>3 DEF SpawnedSound
<1>22. RoomKept'
  BY <1>1, <1>7, <1>11, <1>12 DEF RequestsToCome, RoomKept, WorldInvariant, registries
<1>23. ASSUME NothingLost PROVE NothingLost'
  <2> SUFFICES ASSUME ~GivenUp', NEW i \in SpawnSlots PROVE IsFound(i)'
    BY DEF NothingLost
  <2>1. IsFound(i)
    BY <1>1, <1>23 DEF NothingLost, GivenUp
  <2>2. CASE i = s
    BY <1>6, <2>2 DEF IsFound
  <2>3. CASE i # s
    BY <1>1, <1>5, <1>6, <1>12, <1>20, <2>1, <2>3 DEF IsFound, Contains, registries
  <2> QED
    BY <2>2, <2>3
<1> QED
  BY <1>8, <1>9, <1>15, <1>16, <1>17, <1>18, <1>19, <1>21, <1>22, <1>23 DEF WorldInvariant

-----------------------------------------------------------------------------
(* Requests that are queued, and those that find no slot.                  *)

\* The slots a search passes over keep all but the state that makes them reusable.
PassesOver(s) ==
    \A j \in SpawnSlots : j # s =>
        /\ spawnSlots'[j].generation = spawnSlots[j].generation
        /\ spawnSlots'[j].actor = spawnSlots[j].actor
        /\ \/ spawnSlots'[j].state = spawnSlots[j].state
           \/ IsSlotReusable(spawnSlots[j]) /\ spawnSlots'[j].state = "Retired"

\* Slot s, if it is one, is reserved and its request queued.
Reserves(s) ==
    IF s \in SpawnSlots
    THEN /\ IsSlotReusable(spawnSlots[s])
         /\ spawnSlots[s].generation + 1 \in 1..MaxSpawnGeneration
         /\ spawnSlots'[s] = [generation |-> spawnSlots[s].generation + 1, state |-> "Queued",
                              actor |-> NoActor]
         /\ factoryQueue' = Append(factoryQueue, RequestIn(s)')
         /\ CanAcceptMoreActors
    ELSE factoryQueue' = factoryQueue

LEMMA RetiredBeforeIs ==
    ASSUME SpawnTypeOK, NEW i
    PROVE  /\ RetiredBefore(i) \in [SpawnSlots -> FSlot]
           /\ \A j \in SpawnSlots :
                /\ RetiredBefore(i)[j].generation = spawnSlots[j].generation
                /\ RetiredBefore(i)[j].actor = spawnSlots[j].actor
                /\ \/ RetiredBefore(i)[j].state = spawnSlots[j].state
                   \/ IsSlotReusable(spawnSlots[j]) /\ RetiredBefore(i)[j].state = "Retired"
<1>1. ASSUME NEW j \in SpawnSlots
      PROVE  /\ RetiredBefore(i)[j] \in FSlot
             /\ RetiredBefore(i)[j].generation = spawnSlots[j].generation
             /\ RetiredBefore(i)[j].actor = spawnSlots[j].actor
             /\ \/ RetiredBefore(i)[j].state = spawnSlots[j].state
                \/ IsSlotReusable(spawnSlots[j]) /\ RetiredBefore(i)[j].state = "Retired"
  <2>1. spawnSlots[j] \in FSlot
    BY DEF SpawnTypeOK
  <2>2. \/ RetiredBefore(i)[j] = spawnSlots[j]
        \/ /\ IsSlotReusable(spawnSlots[j])
           /\ RetiredBefore(i)[j] = [spawnSlots[j] EXCEPT !.state = "Retired"]
    BY DEF RetiredBefore
  <2> HIDE DEF IsSlotReusable
  <2> QED
    BY <2>1, <2>2 DEF FSlot, SpawnStates
<1>2. RetiredBefore(i) = [j \in SpawnSlots |-> RetiredBefore(i)[j]]
  BY DEF RetiredBefore
<1> QED
  BY <1>1, <1>2

LEMMA ReservingKeeps ==
    ASSUME WorldInvariant, NEW s, PassesOver(s), Reserves(s),
           spawnSlots' \in [SpawnSlots -> FSlot],
           UNCHANGED <<publishQueue, sealedFactories, sealedPublishes>>,
           UNCHANGED <<lifecycleVars, worldState, registries, collecting, call>>
    PROVE  WorldInvariant' /\ (NothingLost => NothingLost')
<1>1. /\ TypeOK /\ SlotSound /\ QueueSound /\ SealedSound /\ RequestSound /\ RegisteredSound
      /\ SpawnedSound /\ SpawnTypeOK
      /\ UNCHANGED <<object, registered, assigned, pendingSpawn, overbooked, overwritten>>
  BY DEF WorldInvariant, TypeOK, lifecycleVars, registries
<1>2. /\ FactoriesLeft' = FactoriesLeft /\ PublishesLeft' = PublishesLeft
      /\ SpawnsLeft' = SpawnsLeft /\ SpawnsToCome' = SpawnsToCome
  BY <1>1 DEF FactoriesLeft, PublishesLeft, SpawnsLeft, SpawnsToCome
<1>3. s \notin PendingSlots /\ (s \in SpawnSlots => spawnSlots[s].actor = NoActor)
  BY <1>1 DEF Reserves, PendingSlots, IsSlotReusable, SlotSound
<1>4. \A j \in SpawnSlots : j # s =>
        \A state \in {"Queued", "ConstructedPendingPublish", "Spawned"} :
            spawnSlots'[j].state = state <=> spawnSlots[j].state = state
  BY DEF PassesOver, IsSlotReusable
<1>5. \A j \in PendingSlots : j # s => spawnSlots'[j] = spawnSlots[j]
  <2>1. \A j \in PendingSlots : j # s =>
          /\ spawnSlots'[j].generation = spawnSlots[j].generation
          /\ spawnSlots'[j].actor = spawnSlots[j].actor
          /\ spawnSlots'[j].state = spawnSlots[j].state
    BY <1>4 DEF PassesOver, PendingSlots
  <2>2. \A j \in SpawnSlots : spawnSlots[j] \in FSlot /\ spawnSlots'[j] \in FSlot
    BY <1>1 DEF SpawnTypeOK
  <2> QED
    BY <2>1, <2>2 DEF FSlot, PendingSlots
<1>6. /\ \A h : Waits(h) => Waits(h)' /\ h.index # s
      /\ \A h : Constructed(h) =>
            /\ Constructed(h)' /\ GetConstructedActor(h)' = GetConstructedActor(h)
            /\ h.index # s
  <2>1. \A h : Waits(h) \/ Constructed(h) => h.index \in PendingSlots
    BY <1>1, StatesAre DEF PendingSlots
  <2> QED
    BY <1>1, <1>3, <1>5, <2>1, OthersKeep
<1>7. PICK r : r = RequestIn(s)'
  OBVIOUS
<1>8. /\ r.index = s
      /\ s \in SpawnSlots => /\ r \in SpawnHandles /\ Waits(r)'
                             /\ factoryQueue' = Append(factoryQueue, r)
  <2>1. r = [index |-> s, generation |-> spawnSlots'[s].generation]
    BY <1>7 DEF RequestIn
  <2>2. ASSUME s \in SpawnSlots PROVE r \in SpawnHandles /\ Waits(r)'
    BY <2>1, <2>2 DEF Reserves, SpawnHandles, Waits, StateOf, SlotMatches
  <2> QED
    BY <1>7, <2>1, <2>2 DEF Reserves
<1>9. factoryQueue \in Seq(SpawnHandles)
  BY <1>1, QueuesAre
<1>10. /\ factoryQueue' \in Seq(SpawnHandles)
       /\ \A h : Contains(factoryQueue', h) <=>
             (Contains(factoryQueue, h) \/ (s \in SpawnSlots /\ h = r))
  <2>1. CASE s \in SpawnSlots
    BY <1>8, <1>9, <2>1, EntryAdded DEF Contains
  <2>2. CASE s \notin SpawnSlots
    BY <1>9, <2>2 DEF Reserves
  <2> QED
    BY <2>1, <2>2
<1>11. QueueSound'
  <2>1. CASE s \in SpawnSlots
    <3>1. /\ DOMAIN factoryQueue' = DOMAIN factoryQueue \cup {Len(factoryQueue) + 1}
          /\ factoryQueue'[Len(factoryQueue) + 1] = r
          /\ \A j \in DOMAIN factoryQueue : factoryQueue'[j] = factoryQueue[j]
      BY <1>8, <1>9, <2>1, EntryAdded
    <3>2. \A j \in DOMAIN factoryQueue : Waits(factoryQueue[j]) /\ factoryQueue[j] # r
      BY <1>1, <1>6, <1>8 DEF QueueSound
    <3>3. \A h : Waits(h) => Waits(h)'
      BY <1>6
    <3>4. ASSUME NEW i \in DOMAIN factoryQueue' PROVE Waits(factoryQueue[i])'
      <4>1. PICK h : h = factoryQueue'[i]
        OBVIOUS
      <4>2. Waits(h)'
        BY <1>8, <2>1, <3>1, <3>2, <3>3, <4>1
      <4> QED
        BY <4>1, <4>2 DEF Waits, StateOf, SlotMatches
    <3>5. Differ(factoryQueue, DOMAIN factoryQueue)'
      BY <1>1, <3>1, <3>2 DEF QueueSound, Differ
    <3> QED
      BY <1>1, <3>4, <3>5 DEF QueueSound
  <2>2. CASE s \notin SpawnSlots
    BY <1>1, <1>6, <2>2 DEF QueueSound, Reserves, Differ
  <2> QED
    BY <2>1, <2>2
<1>12. TypeOK'
  BY <1>1, <1>10, <1>11, DistinctFitNext DEF QueueSound, SpawnTypeOK, TypeOK, LifecycleTypeOK,
     lifecycleVars, registries
<1>13. CallSound'
  BY <1>1 DEF WorldInvariant, CallSound
<1>14. SlotSound'
  <2>1. \A i \in SpawnSlots : i \in PendingSlots' => spawnSlots'[i].generation # 0
    BY <1>1, <1>4, <1>5, SlotsAre DEF PendingSlots, Reserves, SlotSound
  <2>2. s \in SpawnSlots => spawnSlots'[s].state = "Queued" /\ spawnSlots'[s].actor = NoActor
    BY DEF Reserves
  <2>3. \A i \in SpawnSlots : spawnSlots'[i].actor = spawnSlots[i].actor
    BY <1>3, <2>2 DEF PassesOver
  <2>4. \A i \in SpawnSlots : spawnSlots'[i].actor # NoActor <=>
            spawnSlots'[i].state \in {"ConstructedPendingPublish", "Spawned"}
    BY <1>1, <1>4, <2>2, <2>3 DEF SlotSound
  <2>5. /\ \A i \in SpawnSlots : spawnSlots'[i].actor # NoActor =>
              object'[spawnSlots'[i].actor] # "Unborn"
        /\ \A i, j \in SpawnSlots : spawnSlots'[i].actor = spawnSlots'[j].actor =>
              i = j \/ spawnSlots'[i].actor = NoActor
    BY <1>1, <2>3 DEF SlotSound
  <2> QED
    BY <2>1, <2>4, <2>5 DEF SlotSound
<1>15. SealedSound'
  <2>1. ASSUME NEW i \in FactoriesLeft
        PROVE  Waits(sealedFactories[i])' /\ ~Contains(factoryQueue, sealedFactories[i])'
    <3>1. PICK h : h = sealedFactories[i]
      OBVIOUS
    <3>2. Waits(h) /\ ~Contains(factoryQueue, h)
      BY <1>1, <3>1 DEF SealedSound
    <3>3. Waits(h)' /\ h # r /\ ~Contains(factoryQueue', h)
      BY <1>6, <1>8, <1>10, <3>2
    <3>4. sealedFactories'[i] = h
      BY <3>1
    <3> QED
      BY <3>3, <3>4 DEF Waits, StateOf, SlotMatches
  <2>2. ASSUME NEW i \in PublishesLeft
        PROVE  /\ Constructed(sealedPublishes[i])'
               /\ Resolves(GetConstructedActor(sealedPublishes[i]))'
    <3>1. PICK h : h = sealedPublishes[i]
      OBVIOUS
    <3>2. Constructed(h) /\ Resolves(GetConstructedActor(h))
      BY <1>1, <3>1 DEF SealedSound
    <3>3. Constructed(h)' /\ GetConstructedActor(h)' = GetConstructedActor(h)
      BY <1>6, <3>2
    <3>4. Resolves(GetConstructedActor(h))'
      BY <1>1, <3>2, <3>3 DEF Resolves
    <3>5. sealedPublishes'[i] = h
      BY <3>1
    <3> QED
      BY <3>3, <3>4, <3>5
         DEF Constructed, Resolves, GetConstructedActor, StateOf, SlotMatches
  <2>3. Differ(sealedPublishes, PublishesLeft)' /\ Differ(sealedFactories, FactoriesLeft)'
    BY <1>1, <1>2 DEF SealedSound, Differ
  <2> QED
    BY <1>1, <1>2, <2>1, <2>2, <2>3 DEF SealedSound
<1>16. RequestSound'
  <2>1. PICK h : h = call.request
    OBVIOUS
  <2>2. ASSUME call.stage = "Factory"
        PROVE  /\ Waits(h)' /\ ~Contains(factoryQueue', h)
               /\ \A i \in FactoriesLeft : sealedFactories[i] # h
    BY <1>1, <1>6, <1>8, <1>10, <2>1, <2>2 DEF RequestSound
  <2>3. ASSUME call.stage = "Published"
        PROVE  Constructed(h)' /\ \A i \in PublishesLeft : sealedPublishes[i] # h
    BY <1>1, <1>6, <2>1, <2>3 DEF RequestSound
  <2>4. call'.request = h /\ call' = call
    BY <2>1
  <2> QED
    BY <1>2, <2>2, <2>3, <2>4
       DEF RequestSound, Waits, Constructed, StateOf, SlotMatches
<1>17. RegisteredSound'
  BY <1>1, <1>2 DEF RegisteredSound, Differ
<1>18. \A i \in SpawnSlots : /\ Publishing(i)' => i # s /\ Publishing(i)
                             /\ i # s => RequestIn(i)' = RequestIn(i)
                             /\ i # s => (Publishing(i)' <=> Publishing(i))
  <2>1. \A i \in SpawnSlots : i # s => RequestIn(i)' = RequestIn(i)
    BY DEF PassesOver, RequestIn
  <2>2. call.stage = "Published" => call.request.index # s
    BY <1>1, <1>6 DEF RequestSound
  <2>3. \A i : RequestIn(i)'.index = i
    BY DEF RequestIn
  <2>4. Publishing(s)' => FALSE
    BY <2>2, <2>3 DEF Publishing
  <2>5. \A i \in SpawnSlots : i # s => (Publishing(i)' <=> Publishing(i))
    BY <2>1 DEF Publishing
  <2>6. \A i \in SpawnSlots : Publishing(i)' => i # s
    BY <2>2, <2>3 DEF Publishing
  <2> QED
    BY <2>1, <2>5, <2>6
<1>19. SpawnedSound'
  <2>1. ASSUME NEW i \in SpawnSlots, i # s
        PROVE  /\ spawnSlots'[i].state = "Spawned" \/ Publishing(i)' =>
                    Contains(registered', spawnSlots'[i].actor)
               /\ spawnSlots'[i].state = "ConstructedPendingPublish" =>
                    (spawnSlots'[i].actor \in assigned' <=> Publishing(i)')
    BY <1>1, <1>4, <1>18, <2>1 DEF PassesOver, SpawnedSound
  <2>2. s \in SpawnSlots => spawnSlots'[s].state = "Queued" /\ ~Publishing(s)'
    BY <1>18 DEF Reserves
  <2>3. \A a \in TypedActors : Contains(registered', a) =>
            \E i \in SpawnSlots : spawnSlots'[i].actor = a
    BY <1>1, <1>3, SpawnAssumption DEF SpawnedSound, SpawnAssumption, PassesOver
  <2>4. \A i \in SpawnSlots :
          /\ spawnSlots'[i].state = "Spawned" \/ Publishing(i)' =>
                Contains(registered', spawnSlots'[i].actor)
          /\ spawnSlots'[i].state = "ConstructedPendingPublish" =>
                (spawnSlots'[i].actor \in assigned' <=> Publishing(i)')
    BY <2>1, <2>2
  <2> QED
    BY <2>3, <2>4 DEF SpawnedSound
<1>20. RoomKept'
  <2>1. /\ Len(registered) \in Nat /\ Capacity \in Nat /\ Len(pendingSpawn) \in Nat
        /\ call.at \in Nat /\ PendingCount \in Nat
    BY <1>1, LengthsAre, PendingAre
  <2>2. CASE s \in SpawnSlots
    <3>1. PendingSlots' = PendingSlots \cup {s}
      BY <1>4, <2>2 DEF PendingSlots, Reserves
    <3>2. PendingCount' = PendingCount + 1
      BY <1>3, <3>1, PendingAdded
    <3>3. RequestsToCome' \in Int /\ RequestsToCome' <= PendingCount + 1
      BY <2>1, <3>2 DEF RequestsToCome
    <3>4. SpawnsToCome \in Int /\ SpawnsToCome <= Len(pendingSpawn)
      BY <2>1 DEF WorldInvariant, CallSound, SpawnsToCome
    <3>5. Len(registered) + Len(pendingSpawn) + PendingCount < Capacity
      BY <2>2 DEF Reserves, CanAcceptMoreActors
    <3> QED
      BY <1>1, <1>2, <2>1, <3>3, <3>4, <3>5 DEF RoomKept
  <2>3. CASE s \notin SpawnSlots
    BY <1>1, <1>2, <1>4, <2>3 DEF PendingSlots, RequestsToCome, PendingCount, RoomKept,
       WorldInvariant
  <2> QED
    BY <2>2, <2>3
<1>21. ASSUME NothingLost PROVE NothingLost'
  <2> SUFFICES ASSUME ~GivenUp', NEW i \in SpawnSlots PROVE IsFound(i)'
    BY DEF NothingLost
  <2>1. IsFound(i)
    BY <1>21 DEF NothingLost, GivenUp
  <2>2. CASE i = s
    BY <1>7, <1>10, <2>2 DEF Reserves, IsFound
  <2>3. CASE i # s
    <3>1. \A h : Contains(factoryQueue, h) => Contains(factoryQueue', h)
      BY <1>10
    <3>2. PICK h : h = RequestIn(i)
      OBVIOUS
    <3>3. RequestIn(i)' = h /\ (Publishing(i)' <=> Publishing(i))
      BY <1>18, <2>3, <3>2
    <3>4. CASE RequestIn(i) \in overwritten
      BY <1>1, <3>2, <3>3, <3>4 DEF IsFound
    <3>5. ASSUME RequestIn(i) \notin overwritten PROVE
          /\ spawnSlots'[i].state = "Queued" =>
              \/ Contains(factoryQueue', h)
              \/ \E j \in FactoriesLeft : sealedFactories[j] = h
              \/ call.stage = "Factory" /\ call.request = h
          /\ spawnSlots'[i].state = "ConstructedPendingPublish" =>
              \/ \E j \in PublishesLeft : sealedPublishes[j] = h
              \/ Publishing(i)'
      BY <1>4, <2>1, <2>3, <3>1, <3>2, <3>3, <3>5 DEF IsFound
    <3> QED
      BY <1>2, <3>3, <3>4, <3>5 DEF IsFound
  <2> QED
    BY <2>2, <2>3
<1> QED
  BY <1>11, <1>12, <1>13, <1>14, <1>15, <1>16, <1>17, <1>19, <1>20, <1>21 DEF WorldInvariant

LEMMA QueueTypedActorKeeps ==
    ASSUME WorldInvariant, QueueTypedActor
    PROVE  WorldInvariant' /\ (NothingLost => NothingLost')
<1>1. /\ CanAcceptMoreActors
      /\ QueueFactory \/ ReserveNothing
      /\ UNCHANGED <<lifecycleVars, worldState, registries, collecting, call>>
      /\ SpawnTypeOK
  BY DEF QueueTypedActor, CheckDeferredSpawnRequest, WorldInvariant, TypeOK
<1>2. CASE QueueFactory
  <2>1. PICK s \in SpawnSlots :
          /\ IsFirstReservable(s)
          /\ spawnSlots' = [RetiredBefore(s) EXCEPT
                ![s] = [generation |-> @.generation + 1, state |-> "Queued", actor |-> NoActor]]
          /\ factoryQueue' = Append(factoryQueue,
                [index |-> s, generation |-> spawnSlots[s].generation + 1])
    BY <1>2 DEF QueueFactory
  <2>2. /\ RetiredBefore(s) \in [SpawnSlots -> FSlot]
        /\ \A j \in SpawnSlots :
             /\ RetiredBefore(s)[j].generation = spawnSlots[j].generation
             /\ RetiredBefore(s)[j].actor = spawnSlots[j].actor
             /\ \/ RetiredBefore(s)[j].state = spawnSlots[j].state
                \/ IsSlotReusable(spawnSlots[j]) /\ RetiredBefore(s)[j].state = "Retired"
    BY <1>1, RetiredBeforeIs
  <2>3. /\ spawnSlots'[s] = [generation |-> spawnSlots[s].generation + 1, state |-> "Queued",
                             actor |-> NoActor]
        /\ \A j \in SpawnSlots : j # s => spawnSlots'[j] = RetiredBefore(s)[j]
        /\ DOMAIN spawnSlots' = SpawnSlots
    BY <2>1, <2>2
  <2>4. /\ IsSlotReusable(spawnSlots[s])
        /\ spawnSlots[s].generation + 1 \in 1..MaxSpawnGeneration
    <3>1. /\ IsSlotReusable(spawnSlots[s]) /\ spawnSlots[s].generation < MaxSpawnGeneration
      BY <2>1 DEF IsFirstReservable, Reservable
    <3>2. spawnSlots[s].generation \in 0..MaxSpawnGeneration /\ MaxSpawnGeneration \in Nat
      BY <1>1, SlotsAre, SpawnAssumption DEF SpawnAssumption
    <3> QED
      BY <3>1, <3>2
  <2>5. PassesOver(s)
    BY <2>2, <2>3 DEF PassesOver
  <2>6. Reserves(s)
    <3>1. spawnSlots'[s].generation = spawnSlots[s].generation + 1
      BY <2>3
    <3>2. RequestIn(s)' = [index |-> s, generation |-> spawnSlots[s].generation + 1]
      BY <3>1 DEF RequestIn
    <3>3. factoryQueue' = Append(factoryQueue, RequestIn(s)')
      BY <2>1, <3>2
    <3> QED
      BY <1>1, <2>1, <2>3, <2>4, <3>3 DEF Reserves
  <2>7. spawnSlots' \in [SpawnSlots -> FSlot]
    <3>1. spawnSlots'[s] \in FSlot
      BY <2>3, <2>4, SpawnAssumption DEF FSlot, SpawnStates, SpawnAssumption
    <3>2. \A j \in SpawnSlots : j # s => spawnSlots'[j] \in FSlot
      BY <2>2, <2>3
    <3>3. spawnSlots' = [j \in SpawnSlots |-> spawnSlots'[j]]
      BY <2>1, <2>2
    <3> QED
      BY <3>1, <3>2, <3>3
  <2>8. UNCHANGED <<publishQueue, sealedFactories, sealedPublishes>>
    BY <1>2 DEF QueueFactory
  <2> QED
    BY <1>1, <2>5, <2>6, <2>7, <2>8, ReservingKeeps
<1>3. CASE ReserveNothing
  <2>1. /\ spawnSlots' = RetiredBefore(MaxRequests + 1)
        /\ UNCHANGED <<factoryQueue, publishQueue, sealedFactories, sealedPublishes>>
    BY <1>3 DEF ReserveNothing
  <2>2. 0 \notin SpawnSlots
    BY DEF SpawnSlots
  <2>3. spawnSlots' \in [SpawnSlots -> FSlot] /\ PassesOver(0)
    BY <1>1, <2>1, RetiredBeforeIs DEF PassesOver
  <2>4. Reserves(0)
    BY <2>1, <2>2 DEF Reserves
  <2> QED
    BY <1>1, <2>1, <2>3, <2>4, ReservingKeeps
<1> QED
  BY <1>1, <1>2, <1>3

-----------------------------------------------------------------------------
(* Factories that return.                                                  *)

\* The actor that a factory constructed is new, and so are its default components.
LEMMA DefaultSubobjectsAre ==
    ASSUME NEW made \in DefaultSubobjects
    PROVE  /\ made \in Seq(Components) /\ Len(made) <= MaxComponents
           /\ \A i \in DOMAIN made : made[i] \in DefaultComponents /\ object[made[i]] = "Unborn"
           /\ \A i, j \in DOMAIN made : made[i] = made[j] => i = j
<1>1. PICK n \in 0..MaxComponents :
        /\ made \in [1..n -> {c \in DefaultComponents : object[c] = "Unborn"}]
        /\ \A i, j \in 1..n : made[i] = made[j] => i = j
  BY DEF DefaultSubobjects
<1>2. n \in Nat /\ DOMAIN made = 1..n /\ DefaultComponents \subseteq Components
      /\ MaxComponents \in Nat /\ n <= MaxComponents
  BY <1>1, LifecycleAssumption DEF LifecycleAssumption
<1>3. made \in [1..n -> Components]
  BY <1>1, <1>2
<1>4. made \in Seq(Components) /\ Len(made) = n
  BY <1>2, <1>3
<1> QED
  BY <1>1, <1>2, <1>4

LEMMA BornDoes ==
    ASSUME LifecycleTypeOK, NEW a \in TypedActors, NEW made \in DefaultSubobjects, Born(a, made)
    PROVE  /\ LifecycleTypeOK'
           /\ object'[a] = "Live" /\ components'[a] = made
           /\ \A b \in Actors : b # a => components'[b] = components[b]
           /\ \A x \in Objects : Resolves(x) => Resolves(x)'
           /\ \A x \in Objects : object'[x] = "Unborn" => object[x] = "Unborn"
           /\ UNCHANGED <<lifecycle, agenda, inHook>>
<1>1. /\ object' = [x \in Objects |-> IF x \in {a} \cup ToSet(made) THEN "Live" ELSE object[x]]
      /\ components' = [components EXCEPT ![a] = made]
      /\ UNCHANGED <<lifecycle, agenda, inHook>>
  BY DEF Born
<1>2. a \in Actors /\ a \in Objects
  BY ObjectKinds DEF Actors
<1>3. /\ \A x \in Objects : object'[x] = "Live" \/ object'[x] = object[x]
      /\ object'[a] = "Live"
  BY <1>1, <1>2
<1>4. object' \in [Objects -> {"Unborn", "Live", "Dead"}]
  <2>1. \A x \in Objects : object[x] \in {"Unborn", "Live", "Dead"}
    BY DEF LifecycleTypeOK
  <2> HIDE DEF Objects
  <2> QED
    BY <1>1, <2>1
<1>5. /\ DOMAIN components' = Actors /\ components'[a] = made
      /\ \A b \in Actors : b # a => components'[b] = components[b]
  BY <1>1, <1>2 DEF LifecycleTypeOK
<1>6. \A b \in Actors :
        components'[b] \in Seq(Components) /\ Len(components'[b]) <= MaxComponents
  BY <1>5, DefaultSubobjectsAre DEF LifecycleTypeOK
<1>7. LifecycleTypeOK'
  BY <1>1, <1>4, <1>5, <1>6 DEF LifecycleTypeOK
<1> QED
  BY <1>1, <1>3, <1>5, <1>7 DEF Resolves

\* What the factory of slot s leaves behind: an actor that is new, or a failure.
MakesActor(s, a) ==
    /\ a \in TypedActors /\ object[a] = "Unborn"
    /\ \E made \in DefaultSubobjects : Born(a, made)
    /\ spawnSlots'[s].state = "ConstructedPendingPublish" /\ spawnSlots'[s].actor = a
    /\ sealedPublishes' = Append(sealedPublishes, RequestIn(s))

MakesNothing(s) ==
    /\ UNCHANGED <<object, components, sealedPublishes>>
    /\ spawnSlots'[s].state = "Failed" /\ spawnSlots'[s].actor = NoActor

LEMMA FactoryReturnsDoes ==
    ASSUME WorldInvariant, FactoryReturns, NEW s, s = call.request.index
    PROVE  /\ call.stage = "Factory" /\ call.op # "None" /\ s \in SpawnSlots
           /\ call.request = RequestIn(s) /\ Waits(RequestIn(s))
           /\ spawnSlots[s].state = "Queued" /\ spawnSlots[s].actor = NoActor
           /\ ~Contains(factoryQueue, RequestIn(s))
           /\ \A i \in FactoriesLeft : sealedFactories[i] # RequestIn(s)
           /\ spawnSlots' \in [SpawnSlots -> FSlot]
           /\ spawnSlots'[s].generation = spawnSlots[s].generation
           /\ \A i \in SpawnSlots : i # s => spawnSlots'[i] = spawnSlots[i]
           /\ (\E a : MakesActor(s, a)) \/ MakesNothing(s)
           /\ UNCHANGED <<factoryQueue, publishQueue, sealedFactories>>
           /\ UNCHANGED <<lifecycle, agenda, inHook>>
           /\ UNCHANGED <<worldState, registries, collecting>>
           /\ call' \in Calls /\ call'.op = call.op /\ call'.stage = "Construct"
           /\ call'.at = call.at + 1 /\ call.at \in Nat
<1> DEFINE h == call.request
<1>1. /\ call.stage = "Factory" /\ call.op # "None" /\ Construct(h)
      /\ call' = [call EXCEPT !.stage = "Construct", !.at = @ + 1, !.request = NoRequest]
      /\ UNCHANGED <<worldState, registries, collecting>>
      /\ TypeOK /\ SpawnTypeOK /\ call \in Calls /\ RequestSound /\ SlotSound
  BY DEF FactoryReturns, AtStage, WorldInvariant, TypeOK
<1>2. /\ Waits(h) /\ ~Contains(factoryQueue, h)
      /\ \A i \in FactoriesLeft : sealedFactories[i] # h
  BY <1>1 DEF RequestSound
<1>3. /\ s \in SpawnSlots /\ h = RequestIn(s) /\ spawnSlots[s].state = "Queued"
      /\ spawnSlots[s].actor = NoActor
  BY <1>1, <1>2, StatesAre DEF SlotSound
<1>4. /\ call' \in Calls /\ call'.op = call.op /\ call'.stage = "Construct"
      /\ call'.at = call.at + 1 /\ call.at \in Nat
  <2>1. call.at \in Nat /\ call.at + 1 \in Nat
    BY <1>1, CallsAre
  <2>2. call' = [call EXCEPT !.stage = "Construct", !.at = call.at + 1, !.request = NoRequest]
    BY <1>1 DEF Calls
  <2>3. "Construct" \in Stages /\ NoRequest \in Requests
    BY DEF Stages, Requests
  <2> QED
    BY <1>1, <2>1, <2>2, <2>3, NextAt
<1>5. spawnSlots \in [SpawnSlots -> FSlot] /\ spawnSlots[s] \in FSlot
  BY <1>1, <1>3 DEF SpawnTypeOK
<1>6. UNCHANGED <<factoryQueue, publishQueue, sealedFactories, lifecycle, agenda, inHook>>
  BY <1>1 DEF Construct, ConstructSucceeds, ConstructFails, Born, lifecycleVars
<1> HIDE DEF h
<1>7. /\ spawnSlots' \in [SpawnSlots -> FSlot]
      /\ spawnSlots'[s].generation = spawnSlots[s].generation
      /\ \A i \in SpawnSlots : i # s => spawnSlots'[i] = spawnSlots[i]
      /\ (\E a : MakesActor(s, a)) \/ MakesNothing(s)
  <2>1. ASSUME NEW a \in TypedActors, ConstructSucceeds(h, a),
               NEW made \in DefaultSubobjects, Born(a, made)
        PROVE  /\ spawnSlots' \in [SpawnSlots -> FSlot]
               /\ spawnSlots'[s].generation = spawnSlots[s].generation
               /\ \A i \in SpawnSlots : i # s => spawnSlots'[i] = spawnSlots[i]
               /\ MakesActor(s, a)
    <3>1. /\ spawnSlots' = [spawnSlots EXCEPT
                ![s].state = "ConstructedPendingPublish", ![s].actor = a]
          /\ sealedPublishes' = Append(sealedPublishes, h)
      BY <2>1 DEF ConstructSucceeds, h
    <3>2. spawnSlots'[s] = [spawnSlots[s] EXCEPT !.state = "ConstructedPendingPublish",
                                                 !.actor = a]
      BY <1>3, <1>5, <3>1
    <3>3. /\ spawnSlots'[s] \in FSlot /\ spawnSlots'[s].generation = spawnSlots[s].generation
          /\ spawnSlots'[s].state = "ConstructedPendingPublish" /\ spawnSlots'[s].actor = a
      BY <1>5, <3>2 DEF FSlot, SpawnStates
    <3>4. /\ DOMAIN spawnSlots' = SpawnSlots
          /\ \A i \in SpawnSlots : i # s => spawnSlots'[i] = spawnSlots[i]
      BY <1>5, <3>1
    <3>5. spawnSlots' \in [SpawnSlots -> FSlot]
      BY <1>5, <3>1, <3>3, <3>4
    <3>6. object[a] = "Unborn"
      BY <2>1 DEF Born
    <3> QED
      BY <1>3, <2>1, <3>1, <3>3, <3>4, <3>5, <3>6 DEF MakesActor
  <2>2. ASSUME ConstructFails(h), UNCHANGED <<object, components>>
        PROVE  /\ spawnSlots' \in [SpawnSlots -> FSlot]
               /\ spawnSlots'[s].generation = spawnSlots[s].generation
               /\ \A i \in SpawnSlots : i # s => spawnSlots'[i] = spawnSlots[i]
               /\ MakesNothing(s)
    <3>1. /\ spawnSlots' = [spawnSlots EXCEPT ![s].state = "Failed", ![s].actor = NoActor]
          /\ UNCHANGED sealedPublishes
      BY <2>2 DEF ConstructFails, h
    <3>2. spawnSlots'[s] = [spawnSlots[s] EXCEPT !.state = "Failed", !.actor = NoActor]
      BY <1>3, <1>5, <3>1
    <3>3. /\ spawnSlots'[s] \in FSlot /\ spawnSlots'[s].generation = spawnSlots[s].generation
          /\ spawnSlots'[s].state = "Failed" /\ spawnSlots'[s].actor = NoActor
      BY <1>5, <3>2 DEF FSlot, SpawnStates
    <3>4. /\ DOMAIN spawnSlots' = SpawnSlots
          /\ \A i \in SpawnSlots : i # s => spawnSlots'[i] = spawnSlots[i]
      BY <1>5, <3>1
    <3>5. spawnSlots' \in [SpawnSlots -> FSlot]
      BY <1>5, <3>1, <3>3, <3>4
    <3> QED
      BY <2>2, <3>1, <3>3, <3>4, <3>5 DEF MakesNothing
  <2>3. CASE \E a \in TypedActors : \E made \in DefaultSubobjects :
                Born(a, made) /\ ConstructSucceeds(h, a)
    BY <2>1, <2>3
  <2>4. CASE ConstructFails(h) /\ UNCHANGED lifecycleVars
    BY <2>2, <2>4 DEF lifecycleVars
  <2> QED
    BY <1>1, <2>3, <2>4 DEF Construct, h
<1> QED
  BY <1>1, <1>2, <1>3, <1>4, <1>6, <1>7 DEF h

LEMMA FactoryReturnsKeeps ==
    ASSUME WorldInvariant, FactoryReturns
    PROVE  WorldInvariant' /\ (NothingLost => NothingLost')
<1>1. PICK s : s = call.request.index
  OBVIOUS
<1>2. PICK h : h = RequestIn(s)
  OBVIOUS
<1>3. /\ call.stage = "Factory" /\ call.op # "None" /\ s \in SpawnSlots
      /\ call.request = h /\ Waits(h)
      /\ spawnSlots[s].state = "Queued" /\ spawnSlots[s].actor = NoActor
      /\ ~Contains(factoryQueue, h)
      /\ \A i \in FactoriesLeft : sealedFactories[i] # h
      /\ spawnSlots' \in [SpawnSlots -> FSlot]
      /\ spawnSlots'[s].generation = spawnSlots[s].generation
      /\ \A i \in SpawnSlots : i # s => spawnSlots'[i] = spawnSlots[i]
      /\ (\E a : MakesActor(s, a)) \/ MakesNothing(s)
      /\ UNCHANGED <<factoryQueue, publishQueue, sealedFactories>>
      /\ UNCHANGED <<lifecycle, agenda, inHook>>
      /\ UNCHANGED <<worldState, registered, subsystems, pendingSpawn, pendingDestroy, assigned,
                     overbooked, overwritten, collecting>>
      /\ call' \in Calls /\ call'.op = call.op /\ call'.stage = "Construct"
      /\ call'.at = call.at + 1 /\ call.at \in Nat
  BY <1>1, <1>2, FactoryReturnsDoes DEF registries
<1>4. /\ TypeOK /\ SlotSound /\ QueueSound /\ SealedSound /\ RegisteredSound /\ SpawnedSound
      /\ SpawnTypeOK /\ LifecycleTypeOK
  BY DEF WorldInvariant, TypeOK
<1>5. h \in SpawnHandles /\ h.index = s /\ spawnSlots[s].generation = h.generation
  BY <1>2, <1>3, <1>4, StatesAre DEF RequestIn
<1>6. /\ \A g : Waits(g) /\ g # h => Waits(g)'
      /\ \A g : Constructed(g) =>
            Constructed(g)' /\ GetConstructedActor(g)' = GetConstructedActor(g) /\ g # h
  <2>1. \A g : Waits(g) /\ g # h => g.index # s
    BY <1>2, <1>4, StatesAre
  <2>2. \A g : Constructed(g) => g.index # s
    BY <1>3, <1>4, StatesAre
  <2>3. \A i \in PendingSlots : i # s => spawnSlots'[i] = spawnSlots[i]
    BY <1>3 DEF PendingSlots
  <2> QED
    BY <1>4, <1>5, <2>1, <2>2, <2>3, OthersKeep
<1>7. /\ sealedPublishes \in Seq(SpawnHandles) /\ factoryQueue \in Seq(SpawnHandles)
      /\ DOMAIN sealedFactories \subseteq Nat
      /\ \A i \in DOMAIN sealedPublishes : sealedPublishes[i] \in SpawnHandles
  BY <1>4, QueuesAre, LengthsAre
<1>8. /\ FactoriesLeft' = FactoriesLeft
      /\ PublishesLeft = DOMAIN sealedPublishes /\ PublishesLeft' = DOMAIN sealedPublishes'
      /\ SpawnsLeft' = SpawnsLeft /\ SpawnsToCome' = SpawnsToCome
  <2>1. FactoriesLeft = {i \in DOMAIN sealedFactories : i > call.at}
    BY <1>3 DEF FactoriesLeft
  <2>2. FactoriesLeft' = {i \in DOMAIN sealedFactories : i >= call.at + 1}
    BY <1>3 DEF FactoriesLeft
  <2>3. FactoriesLeft' = FactoriesLeft
    BY <1>3, <1>7, <2>1, <2>2
  <2>4. PublishesLeft = DOMAIN sealedPublishes /\ PublishesLeft' = DOMAIN sealedPublishes'
    BY <1>3 DEF PublishesLeft
  <2> QED
    BY <1>3, <2>3, <2>4, NothingLeft, NothingLeftNext
<1>9. /\ LifecycleTypeOK'
      /\ \A x \in Objects : Resolves(x) => Resolves(x)'
      /\ \A x \in Objects : object'[x] = "Unborn" => object[x] = "Unborn"
  <2>1. CASE \E a : MakesActor(s, a)
    BY <1>4, <2>1, BornDoes DEF MakesActor
  <2>2. CASE MakesNothing(s)
    BY <1>3, <1>4, <2>2 DEF MakesNothing, LifecycleTypeOK, Resolves
  <2> QED
    BY <1>3, <2>1, <2>2
<1>10. ASSUME NEW g, Constructed(g), Resolves(GetConstructedActor(g))
       PROVE  Constructed(g)' /\ Resolves(GetConstructedActor(g))'
  <2>1. PICK b : b = GetConstructedActor(g)
    OBVIOUS
  <2>2. b \in Objects
    <3>1. /\ g.index \in SpawnSlots /\ b = spawnSlots[g.index].actor
          /\ spawnSlots[g.index].state = "ConstructedPendingPublish"
      BY <1>4, <1>10, <2>1, StatesAre DEF Constructed, GetConstructedActor
    <3> QED
      BY <1>4, <3>1, SlotsAre, ObjectKinds DEF SlotSound
  <2>3. Resolves(b)'
    BY <1>9, <1>10, <2>1, <2>2
  <2> QED
    BY <1>6, <1>10, <2>1, <2>3 DEF Resolves
<1>11. QueueSound'
  <2>1. ASSUME NEW i \in DOMAIN factoryQueue PROVE Waits(factoryQueue[i])'
    <3>1. PICK g : g = factoryQueue[i]
      OBVIOUS
    <3>2. Waits(g) /\ g # h
      BY <1>3, <1>4, <1>7, <3>1, ContainsIs DEF QueueSound
    <3>3. Waits(g)' /\ factoryQueue'[i] = g
      BY <1>3, <1>6, <3>1, <3>2
    <3> QED
      BY <3>3 DEF Waits, StateOf, SlotMatches
  <2> QED
    BY <1>3, <1>4, <2>1 DEF QueueSound, Differ
<1>12. /\ sealedPublishes' \in Seq(SpawnHandles)
       /\ \A i \in DOMAIN sealedPublishes' :
             /\ Constructed(sealedPublishes[i])'
             /\ Resolves(GetConstructedActor(sealedPublishes[i]))'
       /\ Differ(sealedPublishes, DOMAIN sealedPublishes)'
       /\ \A i \in DOMAIN sealedPublishes :
             i \in DOMAIN sealedPublishes' /\ sealedPublishes'[i] = sealedPublishes[i]
  <2>1. ASSUME NEW i \in DOMAIN sealedPublishes,
               sealedPublishes'[i] = sealedPublishes[i]
        PROVE  /\ Constructed(sealedPublishes[i])'
               /\ Resolves(GetConstructedActor(sealedPublishes[i]))'
               /\ sealedPublishes[i] # h
    <3>1. PICK g : g = sealedPublishes[i]
      OBVIOUS
    <3>2. Constructed(g) /\ Resolves(GetConstructedActor(g))
      BY <1>4, <1>8, <3>1 DEF SealedSound
    <3>3. Constructed(g)' /\ Resolves(GetConstructedActor(g))' /\ g # h
      BY <1>6, <1>10, <3>2
    <3>4. sealedPublishes'[i] = g
      BY <2>1, <3>1
    <3> QED
      BY <3>1, <3>3, <3>4
         DEF Constructed, Resolves, GetConstructedActor, StateOf, SlotMatches
  <2>2. CASE \E a : MakesActor(s, a)
    <3>1. PICK a : MakesActor(s, a)
      BY <2>2
    <3>2. /\ sealedPublishes' = Append(sealedPublishes, h)
          /\ sealedPublishes' \in Seq(SpawnHandles)
          /\ DOMAIN sealedPublishes' = DOMAIN sealedPublishes \cup {Len(sealedPublishes) + 1}
          /\ sealedPublishes'[Len(sealedPublishes) + 1] = h
          /\ \A i \in DOMAIN sealedPublishes : sealedPublishes'[i] = sealedPublishes[i]
      BY <1>2, <1>5, <1>7, <3>1, EntryAdded DEF MakesActor
    <3>3. Constructed(h)' /\ GetConstructedActor(h)' = a /\ object'[a] = "Live"
      <4>1. /\ spawnSlots'[s].state = "ConstructedPendingPublish" /\ spawnSlots'[s].actor = a
            /\ spawnSlots'[s].generation = h.generation
        BY <1>3, <1>5, <3>1 DEF MakesActor
      <4>2. Constructed(h)' /\ GetConstructedActor(h)' = a
        BY <1>5, <4>1 DEF Constructed, GetConstructedActor, StateOf, SlotMatches
      <4>3. object'[a] = "Live"
        BY <1>4, <3>1, BornDoes DEF MakesActor
      <4> QED
        BY <4>2, <4>3
    <3>4. ASSUME NEW i \in DOMAIN sealedPublishes', sealedPublishes'[i] = h
          PROVE  /\ Constructed(sealedPublishes[i])'
                 /\ Resolves(GetConstructedActor(sealedPublishes[i]))'
      BY <3>3, <3>4 DEF Constructed, Resolves, GetConstructedActor, StateOf, SlotMatches
    <3>5. ASSUME NEW i \in DOMAIN sealedPublishes'
          PROVE  /\ Constructed(sealedPublishes[i])'
                 /\ Resolves(GetConstructedActor(sealedPublishes[i]))'
      <4>1. CASE i \in DOMAIN sealedPublishes
        BY <2>1, <3>2, <4>1
      <4>2. CASE i = Len(sealedPublishes) + 1
        BY <3>2, <3>4, <4>2
      <4> QED
        BY <3>2, <4>1, <4>2
    <3>6. Differ(sealedPublishes, DOMAIN sealedPublishes)'
      BY <1>4, <1>8, <2>1, <3>2 DEF SealedSound, Differ
    <3> QED
      BY <3>2, <3>5, <3>6
  <2>3. CASE MakesNothing(s)
    BY <1>4, <1>7, <1>8, <2>1, <2>3 DEF MakesNothing, SealedSound, Differ
  <2> QED
    BY <1>3, <2>2, <2>3
<1>13. TypeOK'
  BY <1>3, <1>4, <1>9, <1>12, DistinctFitNext DEF SpawnTypeOK, TypeOK
<1>14. CallSound'
  BY <1>3 DEF CallSound
<1>15. \A i \in SpawnSlots :
         \/ i # s /\ spawnSlots'[i] = spawnSlots[i]
         \/ /\ i = s /\ spawnSlots'[i].generation = spawnSlots[i].generation
            /\ \/ spawnSlots'[i].state = "Failed" /\ spawnSlots'[i].actor = NoActor
               \/ /\ spawnSlots'[i].state = "ConstructedPendingPublish"
                  /\ spawnSlots'[i].actor \in TypedActors
                  /\ object[spawnSlots'[i].actor] = "Unborn"
                  /\ object'[spawnSlots'[i].actor] = "Live"
  <2>1. ASSUME NEW a, MakesActor(s, a)
        PROVE  /\ spawnSlots'[s].state = "ConstructedPendingPublish"
               /\ spawnSlots'[s].actor \in TypedActors
               /\ object[spawnSlots'[s].actor] = "Unborn"
               /\ object'[spawnSlots'[s].actor] = "Live"
    BY <1>4, <2>1, BornDoes DEF MakesActor
  <2> QED
    BY <1>3, <2>1 DEF MakesNothing
<1>16. SlotSound'
  <2>1. \A i \in SpawnSlots : i \in PendingSlots' => spawnSlots'[i].generation # 0
    BY <1>3, <1>4, <1>15 DEF SlotSound, PendingSlots
  <2>2. \A i \in SpawnSlots : spawnSlots'[i].actor # NoActor <=>
            spawnSlots'[i].state \in {"ConstructedPendingPublish", "Spawned"}
    BY <1>4, <1>15, SpawnAssumption DEF SlotSound, SpawnAssumption
  <2>3. \A i \in SpawnSlots : spawnSlots'[i].actor # NoActor =>
            object'[spawnSlots'[i].actor] # "Unborn"
    <3>1. \A i \in SpawnSlots : spawnSlots[i].actor # NoActor => spawnSlots[i].actor \in Objects
      BY <1>4, SlotsAre, ObjectKinds
    <3> QED
      BY <1>4, <1>9, <1>15, <3>1 DEF SlotSound
  <2>4. \A i, j \in SpawnSlots : spawnSlots'[i].actor = spawnSlots'[j].actor =>
            i = j \/ spawnSlots'[i].actor = NoActor
    BY <1>4, <1>15 DEF SlotSound
  <2> QED
    BY <2>1, <2>2, <2>3, <2>4 DEF SlotSound
<1>17. SealedSound'
  <2>1. ASSUME NEW i \in FactoriesLeft
        PROVE  Waits(sealedFactories[i])' /\ ~Contains(factoryQueue, sealedFactories[i])'
    <3>1. PICK g : g = sealedFactories[i]
      OBVIOUS
    <3>2. Waits(g) /\ g # h /\ ~Contains(factoryQueue, g)
      BY <1>3, <1>4, <3>1 DEF SealedSound
    <3>3. Waits(g)' /\ ~Contains(factoryQueue', g) /\ sealedFactories'[i] = g
      BY <1>3, <1>6, <3>1, <3>2
    <3> QED
      BY <3>3 DEF Waits, StateOf, SlotMatches
  <2>2. Differ(sealedPublishes, PublishesLeft)'
    BY <1>8, <1>12
  <2>3. Differ(sealedFactories, FactoriesLeft)'
    BY <1>3, <1>4, <1>8 DEF SealedSound, Differ
  <2> QED
    BY <1>3, <1>8, <1>12, <2>1, <2>2, <2>3 DEF SealedSound
<1>18. RequestSound'
  BY <1>3 DEF RequestSound
<1>19. RegisteredSound'
  BY <1>3, <1>4, <1>8, <1>9, ObjectKinds DEF TypeOK, RegisteredSound, Differ
<1>20. \A i \in SpawnSlots : ~Publishing(i) /\ ~Publishing(i)' /\ RequestIn(i)' = RequestIn(i)
  BY <1>3, <1>15 DEF Publishing, RequestIn
<1>21. SpawnedSound'
  <2>1. ASSUME NEW i \in SpawnSlots
        PROVE  /\ spawnSlots'[i].state = "Spawned" => Contains(registered', spawnSlots'[i].actor)
               /\ spawnSlots'[i].state = "ConstructedPendingPublish" =>
                    spawnSlots'[i].actor \notin assigned'
    <3>1. CASE i = s
      BY <1>3, <1>4, <1>15, <3>1 DEF RegisteredSound
    <3>2. CASE i # s
      BY <1>3, <1>4, <1>20, <3>2 DEF SpawnedSound
    <3> QED
      BY <3>1, <3>2
  <2>2. \A a \in TypedActors : Contains(registered', a) =>
            \E i \in SpawnSlots : spawnSlots'[i].actor = a
    BY <1>3, <1>4, SpawnAssumption DEF SpawnedSound, SpawnAssumption
  <2> QED
    BY <1>20, <2>1, <2>2 DEF SpawnedSound
<1>22. RoomKept'
  <2>1. PendingCount \in Nat /\ PendingCount' \in Nat /\ PendingCount' <= PendingCount
    <3>1. s \in PendingSlots /\ (PendingSlots' = PendingSlots \/ PendingSlots' = PendingSlots \ {s})
      BY <1>3, <1>15 DEF PendingSlots
    <3>2. PendingCount' = PendingCount \/ PendingCount' = PendingCount - 1
      BY <3>1, PendingRemoved DEF PendingCount
    <3>3. PendingCount \in Nat /\ PendingCount' \in Nat
      BY PendingAre, PendingAreNext
    <3> QED
      BY <3>2, <3>3
  <2>2. RequestsToCome = PendingCount /\ RequestsToCome' = PendingCount'
    BY <1>3 DEF RequestsToCome
  <2>3. Len(registered) \in Nat /\ Capacity \in Nat /\ SpawnsToCome \in Nat
    BY <1>3, <1>4, LengthsAre, NothingLeft
  <2>4. overbooked \/ Len(registered) + SpawnsToCome + RequestsToCome <= Capacity
    BY DEF WorldInvariant, RoomKept
  <2> QED
    BY <1>3, <1>8, <2>1, <2>2, <2>3, <2>4 DEF RoomKept
<1>23. ASSUME NothingLost PROVE NothingLost'
  <2> SUFFICES ASSUME ~GivenUp', NEW i \in SpawnSlots PROVE IsFound(i)'
    BY DEF NothingLost
  <2>1. IsFound(i)
    BY <1>3, <1>23 DEF NothingLost, GivenUp
  <2>2. CASE i = s
    <3>1. CASE MakesNothing(s)
      BY <2>2, <3>1 DEF MakesNothing, IsFound
    <3>2. CASE \E a : MakesActor(s, a)
      <4>1. PICK a : MakesActor(s, a)
        BY <3>2
      <4>2. Len(sealedPublishes) + 1 \in DOMAIN sealedPublishes'
            /\ sealedPublishes'[Len(sealedPublishes) + 1] = h
        BY <1>2, <1>5, <1>7, <4>1, EntryAdded DEF MakesActor
      <4>3. \E j \in PublishesLeft' : sealedPublishes'[j] = RequestIn(i)'
        BY <1>2, <1>8, <1>20, <2>2, <4>2
      <4> QED
        BY <2>2, <4>1, <4>3 DEF MakesActor, IsFound
    <3> QED
      BY <1>3, <3>1, <3>2
  <2>3. CASE i # s
    <3>1. RequestIn(i) # h
      BY <1>5, <2>3 DEF RequestIn
    <3>2. spawnSlots'[i] = spawnSlots[i] /\ RequestIn(i)' = RequestIn(i)
      BY <1>3, <1>20, <2>3
    <3>3. \A j \in PublishesLeft : j \in PublishesLeft' /\ sealedPublishes'[j] = sealedPublishes[j]
      BY <1>8, <1>12
    <3> QED
      BY <1>3, <1>8, <1>20, <2>1, <3>1, <3>2, <3>3 DEF IsFound, Contains
  <2> QED
    BY <2>2, <2>3
<1> QED
  BY <1>11, <1>13, <1>14, <1>16, <1>17, <1>18, <1>19, <1>21, <1>22, <1>23 DEF WorldInvariant

LEMMA FailConstructionKeeps ==
    ASSUME WorldInvariant, FailConstruction
    PROVE  WorldInvariant' /\ (NothingLost => NothingLost')
<1>1. /\ call.stage = "Construct" /\ call' = NoCall /\ worldState' = "Failed"
      /\ UNCHANGED <<lifecycle, components, agenda, inHook>>
      /\ UNCHANGED <<registered, subsystems, pendingSpawn, pendingDestroy, assigned, overbooked,
                     overwritten, collecting>>
      /\ spawnSlots' = [i \in SpawnSlots |->
            IF i \in PendingSlots
            THEN [spawnSlots[i] EXCEPT !.state = "Failed", !.actor = NoActor] ELSE spawnSlots[i]]
      /\ factoryQueue' = <<>> /\ publishQueue' = <<>>
      /\ sealedFactories' = <<>> /\ sealedPublishes' = <<>>
      /\ TypeOK /\ SlotSound /\ RegisteredSound /\ SpawnedSound /\ SpawnTypeOK /\ LifecycleTypeOK
  BY DEF FailConstruction, AtStage, Return, AbortSealedBatch, registries, WorldInvariant, TypeOK
<1>2. /\ object' \in [Objects -> {"Unborn", "Live", "Dead"}]
      /\ \A x \in Objects : object'[x] = "Unborn" => object[x] = "Unborn"
  <2>1. PICK dead : object' = Destroyed(dead)
    BY DEF FailConstruction
  <2> QED
    BY <1>1, <2>1, ObjectsDestroyed
<1>3. /\ DOMAIN factoryQueue' = {} /\ DOMAIN sealedFactories' = {} /\ DOMAIN sealedPublishes' = {}
      /\ call' \in Calls /\ call'.op = "None" /\ call'.stage = "Return" /\ call'.at = 1
  <2>1. DOMAIN <<>> = {}
    OBVIOUS
  <2>2. call' = NoCall
    BY <1>1
  <2>3. /\ call' \in Calls /\ call'.op = "None" /\ call'.stage = "Return" /\ call'.at = 1
    BY <2>2, NoCallIs
  <2> QED
    BY <1>1, <2>1, <2>3
<1>4. /\ FactoriesLeft' = {} /\ PublishesLeft' = {}
      /\ SpawnsLeft' = SpawnsLeft /\ SpawnsToCome' = SpawnsToCome
  BY <1>1, <1>3, NothingLeft, NothingLeftNext
<1>5. /\ spawnSlots' \in [SpawnSlots -> FSlot]
      /\ \A i \in SpawnSlots :
           \/ i \notin PendingSlots /\ spawnSlots'[i] = spawnSlots[i]
           \/ /\ i \in PendingSlots /\ spawnSlots'[i].state = "Failed"
              /\ spawnSlots'[i].actor = NoActor
  <2>1. ASSUME NEW i \in SpawnSlots
        PROVE  /\ spawnSlots'[i] \in FSlot
               /\ \/ i \notin PendingSlots /\ spawnSlots'[i] = spawnSlots[i]
                  \/ /\ i \in PendingSlots /\ spawnSlots'[i].state = "Failed"
                     /\ spawnSlots'[i].actor = NoActor
    BY <1>1 DEF SpawnTypeOK, FSlot, SpawnStates
  <2> QED
    BY <1>1, <2>1
<1>6. TypeOK'
  <2>1. <<>> \in Seq(SpawnHandles) /\ Len(<<>>) <= MaxRequests
    BY SpawnAssumption DEF SpawnAssumption
  <2>2. SpawnTypeOK'
    BY <1>1, <1>5, <2>1 DEF SpawnTypeOK
  <2> QED
    BY <1>1, <1>2, <1>3, <2>2 DEF TypeOK, LifecycleTypeOK, Phases
<1>7. CallSound'
  BY <1>1, <1>3 DEF CallSound
<1>8. PendingSlots' = {}
  <2>1. ASSUME NEW i \in SpawnSlots PROVE i \notin PendingSlots'
    BY <1>5 DEF PendingSlots
  <2> QED
    BY <2>1 DEF PendingSlots
<1>9. SlotSound'
  <2>1. \A i \in SpawnSlots : spawnSlots[i].actor # NoActor => spawnSlots[i].actor \in Objects
    BY <1>1, SlotsAre, ObjectKinds
  <2>2. \A i \in SpawnSlots : spawnSlots'[i].actor # NoActor <=>
            spawnSlots'[i].state \in {"ConstructedPendingPublish", "Spawned"}
    BY <1>1, <1>5 DEF SlotSound
  <2>3. /\ \A i \in SpawnSlots : spawnSlots'[i].actor # NoActor =>
              object'[spawnSlots'[i].actor] # "Unborn"
        /\ \A i, j \in SpawnSlots : spawnSlots'[i].actor = spawnSlots'[j].actor =>
              i = j \/ spawnSlots'[i].actor = NoActor
    BY <1>1, <1>2, <1>5, <2>1 DEF SlotSound
  <2> QED
    BY <1>8, <2>2, <2>3 DEF SlotSound
<1>10. QueueSound' /\ SealedSound' /\ RequestSound'
  BY <1>1, <1>3, <1>4 DEF QueueSound, SealedSound, RequestSound, Differ
<1>11. RegisteredSound'
  BY <1>1, <1>2, <1>4, ObjectKinds DEF TypeOK, RegisteredSound, Differ
<1>12. SpawnedSound'
  <2>1. \A i : ~Publishing(i) /\ ~Publishing(i)'
    BY <1>1, <1>3 DEF Publishing
  <2>2. ASSUME NEW i \in SpawnSlots
        PROVE  /\ spawnSlots'[i].state = "Spawned" => Contains(registered', spawnSlots'[i].actor)
               /\ spawnSlots'[i].state # "ConstructedPendingPublish"
    BY <1>1, <1>5 DEF SpawnedSound, PendingSlots
  <2>3. ASSUME NEW a \in TypedActors, Contains(registered', a)
        PROVE  \E i \in SpawnSlots : spawnSlots'[i].actor = a
    <3>1. Contains(registered, a)
      BY <1>1, <2>3
    <3>2. PICK i \in SpawnSlots : spawnSlots[i].actor = a
      BY <1>1, <3>1 DEF SpawnedSound
    <3>3. a \in assigned /\ a # NoActor
      <4>1. PICK k \in DOMAIN registered : registered[k] = a
        BY <1>1, <3>1, LengthsAre DEF Contains
      <4> QED
        BY <1>1, <4>1, SpawnAssumption DEF RegisteredSound, SpawnAssumption
    <3>4. spawnSlots[i].state = "Spawned"
      BY <1>1, <2>1, <3>2, <3>3 DEF SpawnedSound, SlotSound
    <3>5. spawnSlots'[i] = spawnSlots[i]
      BY <1>5, <3>4 DEF PendingSlots
    <3> QED
      BY <3>2, <3>5
  <2> QED
    BY <2>1, <2>2, <2>3 DEF SpawnedSound
<1>13. RoomKept'
  <2>1. PendingCount \in Nat /\ PendingCount' = 0
    BY <1>8, PendingAre, FS_EmptySet DEF PendingCount
  <2>2. RequestsToCome = PendingCount /\ RequestsToCome' = 0
    BY <1>1, <1>3, <2>1 DEF RequestsToCome
  <2>3. Len(registered) \in Nat /\ Capacity \in Nat /\ SpawnsToCome \in Nat
    BY <1>1, LengthsAre, NothingLeft
  <2>4. overbooked \/ Len(registered) + SpawnsToCome + RequestsToCome <= Capacity
    BY DEF WorldInvariant, RoomKept
  <2>5. Len(registered') = Len(registered) /\ overbooked' = overbooked
    BY <1>1
  <2>6. CASE overbooked
    BY <2>5, <2>6, Zenon DEF RoomKept
  <2>7. CASE ~overbooked
    <3>1. Len(registered') + SpawnsToCome' + RequestsToCome' <= Capacity
      BY <1>4, <2>1, <2>2, <2>3, <2>4, <2>5, <2>7
    <3> QED
      BY <3>1, Zenon DEF RoomKept
  <2> QED
    BY <2>6, <2>7
<1>14. NothingLost'
  BY <1>1 DEF NothingLost, GivenUp
<1> QED
  BY <1>6, <1>7, <1>9, <1>10, <1>11, <1>12, <1>13, <1>14 DEF WorldInvariant

-----------------------------------------------------------------------------
(* Actors that leave the registry, and actors that are to join it.         *)

LEMMA UnregisterDoes ==
    ASSUME registered \in Seq(Actors), Differ(registered, DOMAIN registered), NEW keep,
           registered' = Kept(registered, keep)
    PROVE  /\ registered' \in Seq(Actors) /\ Len(registered') <= Len(registered)
           /\ Differ(registered, DOMAIN registered)'
           /\ \A a : Contains(registered', a) <=> Contains(registered, a) /\ a \in keep
<1> DEFINE p(k) == PlaceOf(registered, keep, k)
<1>1. /\ registered' \in Seq(Actors)
      /\ \A k \in 1..Len(registered') :
            p(k) \in 1..Len(registered) /\ registered[p(k)] \in keep
            /\ registered'[k] = registered[p(k)]
      /\ \A k, l \in 1..Len(registered') : k < l => p(k) < p(l)
      /\ \A i \in 1..Len(registered) : registered[i] \in keep =>
            \E k \in 1..Len(registered') : p(k) = i
  BY KeptIs
<1> HIDE DEF p
<1>2. /\ Len(registered') \in Nat /\ Len(registered) \in Nat
      /\ DOMAIN registered = 1..Len(registered) /\ DOMAIN registered' = 1..Len(registered')
  BY <1>1
<1>3. Len(registered') <= Len(registered)
  BY KeptIsShorter
<1>4. Differ(registered, DOMAIN registered)'
  <2> SUFFICES ASSUME NEW k \in 1..Len(registered'), NEW l \in 1..Len(registered'),
                      registered'[k] = registered'[l]
               PROVE  k = l
    BY <1>2 DEF Differ
  <2>1. p(k) = p(l)
    BY <1>1, <1>2 DEF Differ
  <2>2. ~(k < l) /\ ~(l < k)
    BY <1>1, <1>2, <2>1
  <2> QED
    BY <1>2, <2>2
<1>5. ASSUME NEW a
      PROVE  Contains(registered', a) <=> Contains(registered, a) /\ a \in keep
  <2>1. /\ Contains(registered', a) <=> \E k \in 1..Len(registered') : registered'[k] = a
        /\ Contains(registered, a) <=> \E i \in 1..Len(registered) : registered[i] = a
    BY <1>1, <1>2, ContainsIs
  <2>2. ASSUME Contains(registered', a)
        PROVE  Contains(registered, a) /\ a \in keep
    BY <1>1, <2>1, <2>2
  <2>3. ASSUME Contains(registered, a), a \in keep
        PROVE  Contains(registered', a)
    <3>1. PICK i \in 1..Len(registered) : registered[i] = a
      BY <2>1, <2>3
    <3>2. PICK k \in 1..Len(registered') : p(k) = i
      BY <1>1, <2>3, <3>1
    <3>3. registered'[k] = a
      BY <1>1, <3>1, <3>2
    <3> QED
      BY <2>1, <3>3
  <2> QED
    BY <2>2, <2>3
<1> QED
  BY <1>1, <1>3, <1>4, <1>5

LEMMA MarkAndUnregisterKeeps ==
    ASSUME WorldInvariant, MarkAndUnregisterDoomedActors
    PROVE  WorldInvariant' /\ (NothingLost => NothingLost')
<1>1. PICK doomed : doomed = {a \in ToSet(pendingDestroy) : Resolves(a)}
  OBVIOUS
<1>2. /\ call.op # "None" /\ call.stage = "EndDoomed" /\ call.at > Len(pendingDestroy)
      /\ object' = Destroyed(WithComponents(doomed))
      /\ registered' = Kept(registered, Actors \ doomed)
      /\ spawnSlots' = Released(doomed \cap ToSet(registered))
      /\ pendingDestroy' = <<>>
      /\ call' = [call EXCEPT !.stage = "BeginSpawns", !.at = 1]
      /\ UNCHANGED <<factoryQueue, publishQueue, sealedFactories, sealedPublishes>>
      /\ UNCHANGED <<lifecycle, components, agenda, inHook>>
      /\ UNCHANGED <<worldState, subsystems, pendingSpawn, assigned, collecting>>
      /\ UNCHANGED <<overbooked, overwritten>>
  BY <1>1 DEF MarkAndUnregisterDoomedActors, AtStage
<1>3. /\ TypeOK /\ SlotSound /\ QueueSound /\ SealedSound /\ RegisteredSound /\ SpawnedSound
      /\ SpawnTypeOK /\ LifecycleTypeOK /\ call \in Calls /\ sealedPublishes = <<>>
      /\ registered \in Seq(Actors)
  BY <1>2 DEF WorldInvariant, TypeOK, SealedSound
<1>4. /\ call' \in Calls /\ call'.op = call.op /\ call'.stage = "BeginSpawns" /\ call'.at = 1
      /\ call'.request = call.request
  BY <1>2, <1>3, Staged DEF Stage, Stages
<1>5. /\ object' \in [Objects -> {"Unborn", "Live", "Dead"}]
      /\ \A x \in Objects : object'[x] = "Unborn" => object[x] = "Unborn"
  BY <1>2, <1>3, ObjectsDestroyed
<1>6. /\ registered' \in Seq(Actors) /\ Len(registered') <= Len(registered)
      /\ Differ(registered, DOMAIN registered)'
      /\ \A a : Contains(registered', a) <=> Contains(registered, a) /\ a \in Actors \ doomed
  BY <1>2, <1>3, UnregisterDoes DEF RegisteredSound
<1>7. PICK left : left = doomed \cap ToSet(registered)
  OBVIOUS
<1>8. /\ spawnSlots' \in [SpawnSlots -> FSlot]
      /\ \A i \in SpawnSlots :
           \/ /\ spawnSlots[i].state = "Spawned" /\ spawnSlots[i].actor \in left
              /\ spawnSlots'[i].state = "Released" /\ spawnSlots'[i].actor = NoActor
           \/ /\ ~(spawnSlots[i].state = "Spawned" /\ spawnSlots[i].actor \in left)
              /\ spawnSlots'[i] = spawnSlots[i]
  <2>1. spawnSlots' = [i \in SpawnSlots |->
            IF spawnSlots[i].state = "Spawned" /\ spawnSlots[i].actor \in left
            THEN [spawnSlots[i] EXCEPT !.state = "Released", !.actor = NoActor]
            ELSE spawnSlots[i]]
    BY <1>2, <1>7 DEF Released
  <2>2. ASSUME NEW i \in SpawnSlots
        PROVE  /\ spawnSlots'[i] \in FSlot
               /\ \/ /\ spawnSlots[i].state = "Spawned" /\ spawnSlots[i].actor \in left
                     /\ spawnSlots'[i].state = "Released" /\ spawnSlots'[i].actor = NoActor
                  \/ /\ ~(spawnSlots[i].state = "Spawned" /\ spawnSlots[i].actor \in left)
                     /\ spawnSlots'[i] = spawnSlots[i]
    BY <1>3, <2>1 DEF SpawnTypeOK, FSlot, SpawnStates
  <2> QED
    BY <2>1, <2>2
<1>9. TypeOK'
  <2>1. SpawnTypeOK'
    BY <1>2, <1>3, <1>8 DEF SpawnTypeOK
  <2>2. pendingDestroy' \in Seq(Actors)
    BY <1>2
  <2> QED
    BY <1>2, <1>3, <1>4, <1>5, <1>6, <2>1, <2>2 DEF TypeOK, LifecycleTypeOK
<1>10. CallSound'
  BY <1>2, <1>3, <1>4, LengthsAre DEF CallSound
<1>11. /\ FactoriesLeft' = FactoriesLeft /\ PublishesLeft = {} /\ PublishesLeft' = {}
       /\ SpawnsLeft' = SpawnsLeft /\ SpawnsToCome' = SpawnsToCome
       /\ SpawnsToCome \in Nat
  <2>1. DOMAIN sealedPublishes = {} /\ DOMAIN sealedPublishes' = {}
    BY <1>2, <1>3
  <2>2. FactoriesLeft' = FactoriesLeft
    BY <1>2, <1>4 DEF FactoriesLeft
  <2>3. SpawnsLeft = DOMAIN pendingSpawn /\ SpawnsToCome = Len(pendingSpawn)
    BY <1>2, NothingLeft
  <2>4. \A i \in DOMAIN pendingSpawn : i >= 1
    BY <1>3, LengthsAre
  <2>5. SpawnsLeft' = DOMAIN pendingSpawn
    BY <1>2, <1>4, <2>4 DEF SpawnsLeft
  <2>6. SpawnsToCome' = Len(pendingSpawn) /\ Len(pendingSpawn) \in Nat
    BY <1>2, <1>3, <1>4, LengthsAre DEF SpawnsToCome
  <2> QED
    BY <2>1, <2>2, <2>3, <2>5, <2>6 DEF PublishesLeft
<1>12. PendingSlots' = PendingSlots /\ \A i \in PendingSlots : spawnSlots'[i] = spawnSlots[i]
  BY <1>8 DEF PendingSlots
<1>13. \A g : Waits(g) => Waits(g)'
  <2>1. 0 \notin SpawnSlots /\ \A g : Waits(g) => g.index # 0
    BY <1>3, StatesAre DEF SpawnSlots
  <2> QED
    BY <1>3, <1>12, <2>1, OthersKeep
<1>14. SlotSound'
  <2>1. \A i \in SpawnSlots : spawnSlots[i].actor # NoActor => spawnSlots[i].actor \in Objects
    BY <1>3, SlotsAre, ObjectKinds
  <2>2. \A i \in SpawnSlots : spawnSlots'[i].actor # NoActor <=>
            spawnSlots'[i].state \in {"ConstructedPendingPublish", "Spawned"}
    BY <1>3, <1>8 DEF SlotSound
  <2>3. /\ \A i \in SpawnSlots : spawnSlots'[i].actor # NoActor =>
              object'[spawnSlots'[i].actor] # "Unborn"
        /\ \A i, j \in SpawnSlots : spawnSlots'[i].actor = spawnSlots'[j].actor =>
              i = j \/ spawnSlots'[i].actor = NoActor
    BY <1>3, <1>5, <1>8, <2>1 DEF SlotSound
  <2>4. \A i \in SpawnSlots : i \in PendingSlots' => spawnSlots'[i].generation # 0
    BY <1>3, <1>12 DEF SlotSound
  <2> QED
    BY <2>2, <2>3, <2>4 DEF SlotSound
<1>15. QueueSound'
  BY <1>2, <1>3, <1>13 DEF QueueSound, Differ
<1>16. SealedSound'
  <2>1. ASSUME NEW i \in FactoriesLeft
        PROVE  Waits(sealedFactories[i])' /\ ~Contains(factoryQueue, sealedFactories[i])'
    <3>1. PICK g : g = sealedFactories[i]
      OBVIOUS
    <3>2. Waits(g) /\ ~Contains(factoryQueue, g)
      BY <1>3, <3>1 DEF SealedSound
    <3>3. Waits(g)' /\ ~Contains(factoryQueue', g) /\ sealedFactories'[i] = g
      BY <1>2, <1>13, <3>1, <3>2
    <3> QED
      BY <3>3 DEF Waits, StateOf, SlotMatches
  <2>2. Differ(sealedFactories, FactoriesLeft)' /\ Differ(sealedPublishes, PublishesLeft)'
    BY <1>2, <1>3, <1>11 DEF SealedSound, Differ
  <2> QED
    BY <1>2, <1>3, <1>11, <2>1, <2>2 DEF SealedSound
<1>17. RequestSound'
  BY <1>4 DEF RequestSound
<1>18. RegisteredSound'
  <2>1. \A i \in DOMAIN registered' : registered'[i] \in assigned'
    <3>1. \A a : Contains(registered, a) => a \in assigned
      BY <1>3, LengthsAre DEF RegisteredSound, Contains
    <3>2. \A i \in DOMAIN registered' : Contains(registered', registered'[i])
      BY <1>6 DEF Contains
    <3> QED
      BY <1>2, <1>6, <3>1, <3>2
  <2>2. assigned \subseteq Objects
    BY <1>3, ObjectKinds DEF TypeOK
  <2> QED
    BY <1>2, <1>3, <1>5, <1>6, <1>11, <2>1, <2>2 DEF RegisteredSound, Differ
<1>19. SpawnedSound'
  <2>1. \A i : ~Publishing(i) /\ ~Publishing(i)'
    BY <1>2, <1>4 DEF Publishing
  <2>2. \A a : Contains(registered, a) => a \in Actors /\ (a \in doomed => a \in left)
    BY <1>3, <1>7 DEF Contains, ToSet
  <2>3. ASSUME NEW i \in SpawnSlots
        PROVE  /\ spawnSlots'[i].state = "Spawned" => Contains(registered', spawnSlots'[i].actor)
               /\ spawnSlots'[i].state = "ConstructedPendingPublish" =>
                    spawnSlots'[i].actor \notin assigned'
    BY <1>2, <1>3, <1>6, <1>8, <2>1, <2>2 DEF SpawnedSound
  <2>4. ASSUME NEW a \in TypedActors, Contains(registered', a)
        PROVE  \E i \in SpawnSlots : spawnSlots'[i].actor = a
    <3>1. Contains(registered, a) /\ a \notin doomed
      BY <1>6, <2>4
    <3>2. PICK i \in SpawnSlots : spawnSlots[i].actor = a
      BY <1>3, <3>1 DEF SpawnedSound
    <3>3. spawnSlots'[i] = spawnSlots[i]
      BY <1>7, <1>8, <3>1, <3>2
    <3> QED
      BY <3>2, <3>3
  <2> QED
    BY <2>1, <2>3, <2>4 DEF SpawnedSound
<1>20. RoomKept'
  <2>1. PendingCount' = PendingCount /\ PendingCount \in Nat
    BY <1>12, PendingAre DEF PendingCount
  <2>2. RequestsToCome = PendingCount /\ RequestsToCome' = PendingCount
    BY <1>2, <1>4, <2>1 DEF RequestsToCome
  <2>3. Len(registered) \in Nat /\ Len(registered') \in Nat /\ Capacity \in Nat
    BY <1>3, <1>6, LengthsAre
  <2>4. overbooked \/ Len(registered) + SpawnsToCome + RequestsToCome <= Capacity
    BY DEF WorldInvariant, RoomKept
  <2>5. overbooked' \/ Len(registered') + SpawnsToCome' + RequestsToCome' <= Capacity
    BY <1>2, <1>6, <1>11, <2>1, <2>2, <2>3, <2>4
  <2> QED
    BY <2>5 DEF RoomKept
<1>21. ASSUME NothingLost PROVE NothingLost'
  <2> SUFFICES ASSUME ~GivenUp', NEW i \in SpawnSlots PROVE IsFound(i)'
    BY DEF NothingLost
  <2>1. IsFound(i)
    BY <1>2, <1>21 DEF NothingLost, GivenUp
  <2>2. CASE i \in PendingSlots
    BY <1>2, <1>4, <1>11, <1>12, <2>1, <2>2 DEF RequestIn, IsFound, Publishing, Contains
  <2>3. CASE i \notin PendingSlots
    BY <1>12, <2>3 DEF IsFound, PendingSlots
  <2> QED
    BY <2>2, <2>3
<1> QED
  BY <1>9, <1>10, <1>14, <1>15, <1>16, <1>17, <1>18, <1>19, <1>20, <1>21 DEF WorldInvariant

LEMMA RegisterKeeps ==
    ASSUME WorldInvariant, NEW a \in ManualActors, Register(a)
    PROVE  WorldInvariant' /\ (NothingLost => NothingLost')
<1>1. /\ Idle /\ worldState = "Constructed" /\ Resolves(a) /\ a \notin assigned
      /\ assigned' = assigned \cup {a} /\ registered' = Append(registered, a)
      /\ UNCHANGED <<spawnVars, lifecycleVars, worldState, subsystems, pendingSpawn,
                     pendingDestroy, overwritten, collecting, call>>
  BY DEF Register
<1>2. /\ TypeOK /\ SlotSound /\ QueueSound /\ SealedSound /\ RequestSound /\ RegisteredSound
      /\ SpawnedSound /\ a \in Actors /\ a \notin TypedActors
      /\ pendingSpawn = <<>> /\ call = NoCall /\ call.stage = "Return"
  BY <1>1, ObjectKinds, IdleIs DEF WorldInvariant, RegisteredSound
<1>3. /\ assigned' \subseteq Actors
      /\ registered' \in Seq(Actors) /\ Len(registered)' = Len(registered) + 1
      /\ \A i \in DOMAIN registered' : registered'[i] \in assigned'
      /\ Differ(registered, DOMAIN registered)'
      /\ \A b : Contains(registered, b)' <=> (Contains(registered, b) \/ b = a)
      /\ \A b \in assigned' : object[b] # "Unborn"
  BY <1>1, <1>2, JoinDoes
<1>4. /\ UNCHANGED <<spawnSlots, factoryQueue, publishQueue, sealedFactories, sealedPublishes>>
      /\ UNCHANGED <<object, pendingSpawn, worldState, call>>
  BY <1>1 DEF spawnVars, lifecycleVars
<1>5. /\ FactoriesLeft' = {} /\ PublishesLeft' = {} /\ FactoriesLeft = {} /\ PublishesLeft = {}
      /\ \A i : ~Publishing(i) /\ ~Publishing(i)'
  BY <1>2, <1>4, NothingLeft, NothingLeftNext DEF Publishing
<1>0. /\ overbooked' \in BOOLEAN
      /\ overbooked \/ Len(registered) + PendingCount >= Capacity => overbooked'
  BY Zenon DEF Register
<1>6. TypeOK'
  BY <1>0, <1>1, <1>2, <1>3 DEF TypeOK, SpawnTypeOK, LifecycleTypeOK, spawnVars, lifecycleVars
<1>7. CallSound'
  BY <1>2, <1>4, NoCallIs DEF CallSound
<1>8. SlotSound' /\ QueueSound' /\ SealedSound' /\ RequestSound'
  BY <1>2, <1>4, <1>5, SlotsUnmoved
     DEF SlotSound, QueueSound, SealedSound, RequestSound, Differ
<1>9. RegisteredSound'
  BY <1>2, <1>3, <1>4 DEF SpawnsLeft, RegisteredSound, Differ
<1>10. SpawnedSound'
  <2>1. \A i \in SpawnSlots : spawnSlots[i].state = "ConstructedPendingPublish" =>
            spawnSlots[i].actor \notin assigned'
    BY <1>1, <1>2, <1>5, SlotsAre DEF SlotSound, SpawnedSound, TypeOK
  <2>2. \A i \in SpawnSlots : spawnSlots[i].state = "Spawned" =>
            Contains(registered', spawnSlots[i].actor)
    BY <1>2, <1>3 DEF SpawnedSound
  <2>3. \A b \in TypedActors : Contains(registered', b) =>
            \E i \in SpawnSlots : spawnSlots[i].actor = b
    BY <1>2, <1>3 DEF SpawnedSound
  <2> QED
    BY <1>4, <1>5, <2>1, <2>2, <2>3 DEF SpawnedSound
<1>11. RoomKept'
  <2>1. /\ Len(registered) \in Nat /\ Capacity \in Nat /\ PendingCount \in Nat
        /\ PendingCount' = PendingCount
    BY <1>2, <1>4, LengthsAre, PendingAre, SlotsUnmoved
  <2>2. SpawnsToCome' = 0 /\ RequestsToCome' = PendingCount
    BY <1>2, <1>4, <2>1 DEF SpawnsToCome, RequestsToCome
  <2>3. CASE Len(registered) + PendingCount >= Capacity
    BY <1>0, <2>3, Zenon DEF RoomKept
  <2>4. CASE ~(Len(registered) + PendingCount >= Capacity)
    BY <1>3, <2>1, <2>2, <2>4 DEF RoomKept
  <2> QED
    BY <2>3, <2>4
<1>12. NothingLost => NothingLost'
  BY <1>1, <1>4, <1>5, SlotsUnmoved DEF NothingLost, GivenUp, IsFound, Contains
<1> QED
  BY <1>6, <1>7, <1>8, <1>9, <1>10, <1>11, <1>12 DEF WorldInvariant

LEMMA SpawnActorKeeps ==
    ASSUME WorldInvariant, NEW a \in ManualActors, SpawnActor(a)
    PROVE  WorldInvariant' /\ (NothingLost => NothingLost')
<1>1. /\ worldState = "Playing" /\ a \notin assigned /\ ~Contains(pendingSpawn, a)
      /\ Len(registered) + Len(pendingSpawn) + PendingCount < Capacity
      /\ pendingSpawn' = Append(pendingSpawn, a)
      /\ UNCHANGED <<spawnVars, lifecycleVars, worldState, registered, subsystems,
                     pendingDestroy, assigned, overbooked, overwritten, collecting, call>>
  BY DEF SpawnActor, CanAcceptMoreActors
<1>2. /\ TypeOK /\ SlotSound /\ QueueSound /\ SealedSound /\ RequestSound /\ RegisteredSound
      /\ SpawnedSound /\ CallSound
  BY DEF WorldInvariant
<1>3. /\ UNCHANGED <<spawnSlots, factoryQueue, publishQueue, sealedFactories, sealedPublishes>>
      /\ UNCHANGED <<object, registered, assigned, worldState, call>>
  BY <1>1 DEF spawnVars, lifecycleVars
<1>4. /\ Len(registered) \in Nat /\ Capacity \in Nat /\ PendingCount \in Nat
      /\ Len(pendingSpawn) \in Nat /\ call.at \in Nat
      /\ PendingCount' = PendingCount /\ pendingSpawn \in Seq(ManualActors)
  BY <1>2, <1>3, LengthsAre, PendingAre, SlotsUnmoved DEF TypeOK
<1>5. /\ pendingSpawn' \in Seq(ManualActors) /\ Len(pendingSpawn') = Len(pendingSpawn) + 1
      /\ DOMAIN pendingSpawn' = DOMAIN pendingSpawn \cup {Len(pendingSpawn) + 1}
      /\ pendingSpawn'[Len(pendingSpawn) + 1] = a
      /\ \A i \in DOMAIN pendingSpawn : pendingSpawn'[i] = pendingSpawn[i]
  BY <1>1, <1>4, EntryAdded
<1>6. /\ FactoriesLeft' = FactoriesLeft /\ PublishesLeft' = PublishesLeft
      /\ SpawnsLeft' \subseteq SpawnsLeft \cup {Len(pendingSpawn) + 1}
      /\ \A i : Publishing(i)' <=> Publishing(i)
  BY <1>3, <1>5 DEF SpawnsLeft, FactoriesLeft, PublishesLeft, Publishing, RequestIn
<1>7. TypeOK'
  BY <1>1, <1>2, <1>4, <1>5 DEF TypeOK, SpawnTypeOK, LifecycleTypeOK, spawnVars, lifecycleVars
<1>8. CallSound'
  BY <1>2, <1>3, <1>4, <1>5 DEF CallSound
<1>9. /\ SlotSound' /\ QueueSound' /\ RequestSound' /\ SpawnedSound'
  BY <1>2, <1>3, <1>6, SlotsUnmoved
     DEF SlotSound, QueueSound, RequestSound, SpawnedSound, Differ, Contains
<1>10. SealedSound'
  BY <1>2, <1>3, <1>6, SlotsUnmoved DEF Resolves, GetConstructedActor, StateOf, SlotMatches,
     SealedSound, Differ, Contains
<1>11. RegisteredSound'
  <2>1. \A i \in DOMAIN pendingSpawn : pendingSpawn[i] # a
    BY <1>1, <1>4 DEF Contains
  <2>2. Differ(pendingSpawn, DOMAIN pendingSpawn)'
    BY <1>2, <1>5, <2>1 DEF RegisteredSound, Differ
  <2>3. \A i \in SpawnsLeft' : pendingSpawn'[i] \notin assigned'
    BY <1>1, <1>2, <1>3, <1>5, <1>6 DEF SpawnsLeft, RegisteredSound
  <2> QED
    BY <1>1, <1>2, <1>3, <2>2, <2>3 DEF RegisteredSound, Differ
<1>12. RoomKept'
  <2>1. SpawnsToCome' \in Int /\ SpawnsToCome' <= Len(pendingSpawn) + 1
    BY <1>2, <1>3, <1>4, <1>5 DEF SpawnsToCome, CallSound
  <2>2. RequestsToCome' \in Int /\ RequestsToCome' <= PendingCount
    BY <1>4 DEF RequestsToCome
  <2>3. Len(registered') + SpawnsToCome' + RequestsToCome' <= Capacity
    BY <1>1, <1>3, <1>4, <2>1, <2>2
  <2> QED
    BY <2>3 DEF RoomKept
<1>13. NothingLost => NothingLost'
  BY <1>1, <1>3, <1>6, SlotsUnmoved DEF NothingLost, GivenUp, IsFound, Contains
<1> QED
  BY <1>7, <1>8, <1>9, <1>10, <1>11, <1>12, <1>13 DEF WorldInvariant

-----------------------------------------------------------------------------
(* The invariant holds to begin with, and every step keeps it.             *)

LEMMA InvariantHolds == Init => WorldInvariant /\ NothingLost
<1> SUFFICES ASSUME Init PROVE WorldInvariant /\ NothingLost
  OBVIOUS
<1>1. /\ spawnSlots = [i \in SpawnSlots |->
                         [generation |-> 0, state |-> "Free", actor |-> NoActor]]
      /\ factoryQueue = <<>> /\ publishQueue = <<>>
      /\ sealedFactories = <<>> /\ sealedPublishes = <<>>
      /\ lifecycle = [x \in Objects |-> "Constructed"]
      /\ object = [x \in Objects |->
                     IF x \in TypedActors \cup DefaultComponents THEN "Unborn" ELSE "Live"]
      /\ components = [a \in Actors |-> <<>>] /\ agenda = <<>> /\ inHook = FALSE
      /\ worldState = "Constructed" /\ registered = <<>> /\ subsystems = <<>>
      /\ pendingSpawn = <<>> /\ pendingDestroy = <<>> /\ assigned = {} /\ collecting = FALSE
      /\ call = NoCall /\ overwritten = {} /\ overbooked = FALSE
  BY DEF Init, SpawnInit, LifecycleInit
<1>2. /\ Capacity \in Nat /\ MaxRequests \in Nat /\ MaxSpawnGeneration \in Nat
      /\ MaxComponents \in Nat
  BY WorldAssumption, SpawnAssumption, LifecycleAssumption
     DEF WorldAssumption, SpawnAssumption, LifecycleAssumption
<1>3. \A S : <<>> \in Seq(S) /\ Len(<<>>) = 0 /\ DOMAIN <<>> = {}
  OBVIOUS
<1>4. SpawnTypeOK
  BY <1>1, <1>2, <1>3 DEF FSlot, SpawnStates, SpawnTypeOK
<1>5. LifecycleTypeOK
  <2>1. lifecycle \in [Objects -> Phases] /\ object \in [Objects -> {"Unborn", "Live", "Dead"}]
    BY <1>1 DEF Phases
  <2>2. DOMAIN components = Actors /\ \A a \in Actors : components[a] = <<>>
    BY <1>1
  <2>3. <<>> \in Seq(Components) /\ Len(<<>>) <= MaxComponents /\ <<>> \in Seq(Steps)
    BY <1>2, <1>3
  <2>4. agenda \in Seq(Steps) /\ inHook \in BOOLEAN
    BY <1>1, <2>3
  <2> QED
    BY <2>1, <2>2, <2>3, <2>4 DEF LifecycleTypeOK
<1>6. TypeOK
  <2>1. /\ registered \in Seq(Actors) /\ subsystems \in Seq(Subsystems)
        /\ pendingSpawn \in Seq(ManualActors) /\ pendingDestroy \in Seq(Actors)
    BY <1>1, <1>3
  <2>2. Len(pendingSpawn) <= Capacity
    BY <1>1, <1>2, <1>3
  <2>3. /\ worldState \in Phases /\ assigned \subseteq Actors /\ collecting \in BOOLEAN
        /\ call \in Calls /\ overwritten \subseteq SpawnHandles
    BY <1>1, NoCallIs DEF Phases
  <2>4. overbooked \in BOOLEAN
    BY <1>1
  <2> QED
    BY <1>4, <1>5, <2>1, <2>2, <2>3, <2>4 DEF TypeOK
<1>7. PendingSlots = {} /\ PendingCount = 0
  BY <1>1, FS_EmptySet DEF PendingSlots, PendingCount
<1>8. call.stage = "Return" /\ FactoriesLeft = {} /\ PublishesLeft = {} /\ SpawnsLeft = {}
  BY <1>1, <1>3, NoCallIs, NothingLeft
<1>9. CallSound
  BY <1>1, NoCallIs DEF CallSound
<1>10. SlotSound
  BY <1>1, <1>7 DEF SlotSound
<1>11. QueueSound /\ SealedSound /\ RequestSound
  BY <1>1, <1>3, <1>8 DEF QueueSound, SealedSound, RequestSound, Differ
<1>12. RegisteredSound
  BY <1>1, <1>3, <1>8 DEF RegisteredSound, Differ
<1>13. SpawnedSound
  BY <1>1, <1>3, <1>8 DEF SpawnedSound, Publishing, Contains
<1>14. RoomKept
  BY <1>1, <1>2, <1>3, <1>7, <1>8 DEF SpawnsToCome, RequestsToCome, RoomKept
<1>15. NothingLost
  BY <1>1 DEF NothingLost, IsFound
<1> QED
  BY <1>6, <1>9, <1>10, <1>11, <1>12, <1>13, <1>14, <1>15 DEF WorldInvariant

LEMMA InvariantKept ==
    WorldInvariant /\ [Next]_vars => WorldInvariant' /\ (NothingLost => NothingLost')
<1> SUFFICES ASSUME WorldInvariant, [Next]_vars
             PROVE  WorldInvariant' /\ (NothingLost => NothingLost')
  OBVIOUS
<1>1. CASE UserStep
  <2>1. CASE \E a \in ManualActors : Register(a) \/ SpawnActor(a)
    BY <2>1, RegisterKeeps, SpawnActorKeeps
  <2>2. CASE \E a \in Actors, c \in Components : RegisterComponentOf(a, c)
    BY <2>2, RegisterComponentKeeps
  <2>3. CASE \/ \E s \in Subsystems : RegisterSubsystem(s)
             \/ \E x \in Loseable : LoseObject(x)
             \/ \E a \in Actors : DestroyActor(a)
             \/ ToggleCollection
    BY <2>3, ObserversKeep
  <2>4. CASE QueueTypedActor
    BY <2>4, QueueTypedActorKeeps
  <2>5. CASE RefusedBarrier
    BY <2>5, RefusedBarrierKeeps
  <2>6. CASE BeginPlay
    BY <2>6, BeginPlayKeeps
  <2>7. CASE Advance \/ EndPlay
    BY <2>7, AdvanceOrEndKeeps
  <2>8. CASE ApplyPending
    BY <2>8, ApplyPendingKeeps
  <2> QED
    BY <1>1, <2>1, <2>2, <2>3, <2>4, <2>5, <2>6, <2>7, <2>8 DEF UserStep
<1>2. CASE CallStep
  <2>0. CASE ApplyBarrierAfterAdvance
    BY <2>0, ApplyPendingKeeps
  <2>1. CASE Dispatching
    BY <2>1, ObserversKeep
  <2>2. CASE EnterFactory
    BY <2>2, EnterFactoryKeeps
  <2>3. CASE FactoryReturns
    BY <2>3, FactoryReturnsKeeps
  <2>4. CASE FailConstruction
    BY <2>4, FailConstructionKeeps
  <2>5. CASE EndConstruct
    BY <2>5, EndConstructKeeps
  <2>6. CASE InitializeSubsystems \/ BeginActors \/ RollbackActors \/ FailWorld
    BY <2>6, BeginningKeeps
  <2>7. CASE FailAtLast \/ CallReturns
    BY <2>7, EndOfCallKeeps
  <2>8. CASE EndNextDoomed
    BY <2>8, EndNextDoomedKeeps
  <2>9. CASE MarkAndUnregisterDoomedActors
    BY <2>9, MarkAndUnregisterKeeps
  <2>10. CASE BeginNextSpawn
    BY <2>10, BeginNextSpawnKeeps
  <2>11. CASE EndSpawns
    BY <2>11, EndSpawnsKeeps
  <2>12. CASE BeginNextDeferred
    BY <2>12, BeginNextDeferredKeeps
  <2>13. CASE CompleteDeferred
    BY <2>13, CompleteDeferredKeeps
  <2>14. CASE EndDeferred
    BY <2>14, EndDeferredKeeps
  <2> QED
    BY <1>2, <2>0, <2>1, <2>2, <2>3, <2>4, <2>5, <2>6, <2>7, <2>8, <2>9, <2>10, <2>11, <2>12,
       <2>13, <2>14 DEF CallStep
<1>3. CASE HookReturns
  BY <1>3, ObserversKeep
<1>4. CASE UNCHANGED vars
  BY <1>4, QuietStep DEF WorldInvariant, TypeOK, SpawnTypeOK, LifecycleTypeOK, vars, spawnVars,
     lifecycleVars, registries
<1> QED
  BY <1>1, <1>2, <1>3, <1>4 DEF Next, Defined, Undefined

LEMMA InvariantAlways == Spec => []WorldInvariant
  BY InvariantHolds, InvariantKept, PTL DEF Spec

LEMMA NothingIsLost == Spec => []NothingLost
  BY InvariantHolds, InvariantKept, PTL DEF Spec

-----------------------------------------------------------------------------
(* Theorems.                                                               *)

\* Every variable of the world keeps its type, and no queue grows beyond its room.
THEOREM TypeCorrect == Spec => []TypeOK
  BY InvariantAlways, PTL DEF WorldInvariant

\* An actor is registered once: as many actors are registered as there are entries.
LEMMA EntriesAreActors ==
    ASSUME TypeOK, Differ(registered, DOMAIN registered)
    PROVE  Cardinality(ToSet(registered)) = Len(registered)
<1>1. Len(registered) \in Nat /\ DOMAIN registered = 1..Len(registered)
  BY DEF TypeOK
<1>2. \A n \in Nat : IsFiniteSet(1..n) /\ Cardinality(1..n) = n
  BY FS_Interval
<1> DEFINE S == 1..Len(registered)
           T == ToSet(registered)
           f == [i \in S |-> registered[i]]
<1>3. T = {registered[i] : i \in S}
  BY <1>1 DEF ToSet
<1> HIDE DEF T
<1>4. f \in Bijection(S, T)
  <2>1. f \in [S -> T] /\ \A t \in T : \E i \in S : f[i] = t
    BY <1>3
  <2>2. \A i, j \in S : f[i] = f[j] => i = j
    BY <1>1 DEF Differ
  <2> HIDE DEF S, f
  <2> QED
    BY <2>1, <2>2 DEF Bijection, Injection, Surjection, IsInjective
<1> QED
  BY <1>1, <1>2, <1>4, FS_Bijection DEF ExistsBijection, T

(***************************************************************************)
(* Whatever mixture of registrations, spawns and typed requests led there, *)
(* the registry of actors holds each actor once, and it outgrows its       *)
(* capacity only where Register took, before play, the room that a typed   *)
(* request had been promised: no other path through the world overruns it. *)
(***************************************************************************)
THEOREM RegistryStaysSound == Spec => []RegistrySound
<1>1. WorldInvariant => RegistrySound
  <2> SUFFICES ASSUME WorldInvariant PROVE RegistrySound
    OBVIOUS
  <2>1. /\ TypeOK /\ CallSound /\ RoomKept /\ RequestSound
        /\ Differ(registered, DOMAIN registered)
    BY DEF WorldInvariant, RegisteredSound
  <2>2. /\ Len(registered) \in Nat /\ Len(pendingSpawn) \in Nat /\ call.at \in Nat
        /\ Capacity \in Nat
    BY <2>1, CallsAre, WorldAssumption DEF TypeOK, WorldAssumption
  <2>3. SpawnsToCome \in Nat
    BY <2>1, <2>2 DEF SpawnsToCome, CallSound
  <2>4. RequestsToCome \in Nat
    <3>1. CASE call.stage = "Published"
      <4>1. Constructed(call.request)
        BY <2>1, <3>1 DEF RequestSound
      <4>2. SpawnTypeOK
        BY <2>1 DEF TypeOK
      <4>3. call.request.index \in PendingSlots
        BY <4>1, <4>2, StatesAre DEF PendingSlots
      <4>4. PendingCount \in Nat /\ PendingCount # 0
        BY <4>3, PendingAre, PendingSome
      <4>5. RequestsToCome = PendingCount - 1
        BY <3>1 DEF RequestsToCome
      <4> QED
        BY <4>4, <4>5
    <3>2. CASE call.stage # "Published"
      BY <3>2, PendingAre DEF RequestsToCome
    <3> QED
      BY <3>1, <3>2
  <2>5. Overrun => overbooked
    <3>1. ASSUME Len(registered) + SpawnsToCome + RequestsToCome <= Capacity PROVE ~Overrun
      BY <2>2, <2>3, <2>4, <3>1 DEF Overrun
    <3> QED
      BY <2>1, <3>1, Zenon DEF RoomKept
  <2> QED
    BY <2>1, <2>5, EntriesAreActors DEF RegistrySound, RegistryWithinCapacity
<1> QED
  BY <1>1, InvariantAlways, PTL

\* A request that waits in a queue of requests, each there once, occurs in it once.
LEMMA OccursOnce ==
    ASSUME NEW q \in Seq(SpawnHandles), Differ(q, DOMAIN q), NEW h
    PROVE  Occurrences(q, h) = IF Contains(q, h) THEN 1 ELSE 0
<1> DEFINE places == {i \in DOMAIN q : q[i] = h}
<1>1. CASE Contains(q, h)
  <2>1. PICK i \in DOMAIN q : q[i] = h
    BY <1>1, ContainsIs
  <2>2. places = {i}
    BY <2>1 DEF Differ
  <2> QED
    BY <1>1, <2>2, FS_Singleton DEF Occurrences
<1>2. CASE ~Contains(q, h)
  BY <1>2, ContainsIs, FS_EmptySet DEF Occurrences
<1> QED
  BY <1>1, <1>2

(***************************************************************************)
(* Between two calls of a world that has not failed, each typed request    *)
(* that says it waits is in the queue once, unless it was left to a        *)
(* barrier whose seal a hook's ApplyPending overwrote; no other request is *)
(* in a queue; and a request says it is spawned exactly while its actor is *)
(* registered.                                                             *)
(***************************************************************************)
THEOREM RequestsStayAccounted == Spec => []RequestsAccounted
<1>1. WorldInvariant /\ NothingLost => RequestsAccounted
  <2> SUFFICES ASSUME WorldInvariant, NothingLost, Idle, worldState # "Failed"
               PROVE  /\ \A i \in SpawnSlots :
                          /\ Occurrences(factoryQueue, RequestIn(i)) <=
                                (IF spawnSlots[i].state = "Queued" THEN 1 ELSE 0)
                          /\ spawnSlots[i].state = "Queued" =>
                                \/ Contains(factoryQueue, RequestIn(i))
                                \/ RequestIn(i) \in overwritten
                          /\ Occurrences(publishQueue, RequestIn(i)) = 0
                          /\ spawnSlots[i].state = "ConstructedPendingPublish" =>
                                RequestIn(i) \in overwritten
                      /\ \A a \in TypedActors :
                            Contains(registered, a) <=>
                              \E i \in SpawnSlots : spawnSlots[i].state = "Spawned"
                                                    /\ spawnSlots[i].actor = a
    BY DEF RequestsAccounted
  <2>1. /\ TypeOK /\ SpawnTypeOK /\ SlotSound /\ QueueSound /\ SpawnedSound
    BY DEF WorldInvariant, TypeOK
  <2>2. call.stage = "Return" /\ FactoriesLeft = {} /\ PublishesLeft = {}
    BY IdleIs
  <2>3. \A i \in SpawnSlots : IsFound(i)
    BY <2>2 DEF NothingLost, GivenUp
  <2>4. /\ factoryQueue \in Seq(SpawnHandles) /\ Differ(factoryQueue, DOMAIN factoryQueue)
        /\ publishQueue \in Seq(SpawnHandles) /\ publishQueue = <<>>
    BY <2>1, QueuesAre DEF QueueSound
  <2>5. \A i \in SpawnSlots :
            /\ spawnSlots[i].state = "ConstructedPendingPublish" => RequestIn(i) \in overwritten
            /\ ~Publishing(i)
    BY <2>2, <2>3 DEF IsFound, Publishing
  <2>6. ASSUME NEW i \in SpawnSlots
        PROVE  /\ Contains(factoryQueue, RequestIn(i)) => spawnSlots[i].state = "Queued"
               /\ spawnSlots[i].state = "Queued" =>
                     Contains(factoryQueue, RequestIn(i)) \/ RequestIn(i) \in overwritten
    <3>1. ASSUME spawnSlots[i].state = "Queued"
          PROVE  Contains(factoryQueue, RequestIn(i)) \/ RequestIn(i) \in overwritten
      BY <2>2, <2>3, <3>1 DEF IsFound
    <3>2. ASSUME Contains(factoryQueue, RequestIn(i))
          PROVE  spawnSlots[i].state = "Queued"
      BY <2>1, <2>4, <3>2, ContainsIs, StatesAre DEF QueueSound, RequestIn
    <3> QED
      BY <3>1, <3>2
  <2>7. ASSUME NEW i \in SpawnSlots
        PROVE  Occurrences(publishQueue, RequestIn(i)) = 0
    <3>1. Differ(publishQueue, DOMAIN publishQueue) /\ ~Contains(publishQueue, RequestIn(i))
      <4>1. DOMAIN publishQueue = {}
        BY <2>4
      <4> QED
        BY <2>4, <4>1, ContainsIs DEF Differ
    <3> QED
      BY <2>4, <3>1, OccursOnce
  <2>8. ASSUME NEW a \in TypedActors
        PROVE  Contains(registered, a) <=>
                  \E i \in SpawnSlots : spawnSlots[i].state = "Spawned" /\ spawnSlots[i].actor = a
    <3>1. ASSUME Contains(registered, a)
          PROVE  \E i \in SpawnSlots : spawnSlots[i].state = "Spawned" /\ spawnSlots[i].actor = a
      <4>1. PICK i \in SpawnSlots : spawnSlots[i].actor = a
        BY <2>1, <3>1 DEF SpawnedSound
      <4>2. a # NoActor
        BY SpawnAssumption DEF SpawnAssumption
      <4>3. spawnSlots[i].state \in {"ConstructedPendingPublish", "Spawned"}
        BY <2>1, <4>1, <4>2 DEF SlotSound
      <4>4. a \in assigned
        <5>1. PICK j \in DOMAIN registered : registered[j] = a
          BY <2>1, <3>1, ContainsIs DEF TypeOK
        <5> QED
          BY <5>1 DEF WorldInvariant, RegisteredSound
      <4>5. spawnSlots[i].state # "ConstructedPendingPublish"
        BY <2>1, <2>5, <4>1, <4>4 DEF SpawnedSound
      <4> QED
        BY <4>1, <4>3, <4>5
    <3>2. ASSUME NEW i \in SpawnSlots, spawnSlots[i].state = "Spawned", spawnSlots[i].actor = a
          PROVE  Contains(registered, a)
      BY <2>1, <3>2 DEF SpawnedSound
    <3> QED
      BY <3>1, <3>2
  <2>9. \A i \in SpawnSlots : Occurrences(factoryQueue, RequestIn(i)) <=
                                 (IF spawnSlots[i].state = "Queued" THEN 1 ELSE 0)
    <3> SUFFICES ASSUME NEW i \in SpawnSlots
                 PROVE  Occurrences(factoryQueue, RequestIn(i)) <=
                           (IF spawnSlots[i].state = "Queued" THEN 1 ELSE 0)
      OBVIOUS
    <3>1. Occurrences(factoryQueue, RequestIn(i)) =
             IF Contains(factoryQueue, RequestIn(i)) THEN 1 ELSE 0
      BY <2>4, OccursOnce
    <3> QED
      BY <2>6, <3>1
  <2> QED
    BY <2>5, <2>6, <2>7, <2>8, <2>9
<1> QED
  BY <1>1, InvariantAlways, NothingIsLost, PTL

(***************************************************************************)
(* While ApplyPending runs, no typed request leaves the queue of those     *)
(* that wait, and those its callbacks add go behind: they are for the next *)
(* barrier.  This holds even if a callback calls ApplyPending again.       *)
(***************************************************************************)
THEOREM BarriersAreFrozen == Spec => BarrierIsFrozen
<1>1. WorldInvariant /\ [Next]_vars =>
        (call.op = "ApplyPending" => IsPrefix(factoryQueue, factoryQueue'))
  <2> SUFFICES ASSUME WorldInvariant, [Next]_vars, call.op = "ApplyPending"
               PROVE  IsPrefix(factoryQueue, factoryQueue')
    OBVIOUS
  <2>1. factoryQueue \in Seq(SpawnHandles) /\ SpawnTypeOK /\ call \in Calls
    BY QueuesAre DEF WorldInvariant, TypeOK
  <2>2. ~Idle
    BY DEF Idle
  <2>3. \/ factoryQueue' = factoryQueue
        \/ \E h \in SpawnHandles : factoryQueue' = Append(factoryQueue, h)
    <3>1. CASE QueueTypedActor
      <4>1. CASE ReserveNothing
        BY <4>1 DEF ReserveNothing
      <4>2. CASE QueueFactory
        <5>1. PICK i \in SpawnSlots :
                 /\ IsFirstReservable(i)
                 /\ factoryQueue' = Append(factoryQueue,
                       [index |-> i, generation |-> spawnSlots[i].generation + 1])
          BY <4>2 DEF QueueFactory
        <5>2. spawnSlots[i].generation \in 0..MaxSpawnGeneration
              /\ spawnSlots[i].generation < MaxSpawnGeneration /\ MaxSpawnGeneration \in Nat
          BY <2>1, <5>1, SlotsAre, SpawnAssumption
             DEF IsFirstReservable, Reservable, SpawnAssumption
        <5>3. [index |-> i, generation |-> spawnSlots[i].generation + 1] \in SpawnHandles
          BY <5>2 DEF SpawnHandles
        <5> QED
          BY <5>1, <5>3
      <4> QED
        BY <3>1, <4>1, <4>2 DEF QueueTypedActor
    <3>2. CASE RefusedBarrier
      BY <3>2, RefusedIs DEF RefusedBarrier
    <3>3. CASE UserStep /\ ~QueueTypedActor /\ ~RefusedBarrier
      BY <2>2, <3>3 DEF UserStep, Register, SpawnActor, RegisterComponentOf, RegisterSubsystem,
         LoseObject, DestroyActor, ToggleCollection, BeginPlay, Advance, ApplyPending, EndPlay,
         spawnVars
    <3>4. CASE CallStep
      <4>0. ~ApplyBarrierAfterAdvance
        BY DEF ApplyBarrierAfterAdvance
      <4>1. CASE FactoryReturns
        BY <4>1 DEF FactoryReturns, Construct, ConstructSucceeds, ConstructFails
      <4>2. CASE FailConstruction
        BY <4>2 DEF FailConstruction
      <4>3. CASE MarkAndUnregisterDoomedActors
        BY <4>3 DEF MarkAndUnregisterDoomedActors
      <4>4. CASE CompleteDeferred
        BY <4>4 DEF CompleteDeferred, CompletePublish
      <4>5. CASE \/ Dispatching \/ EnterFactory \/ EndConstruct \/ InitializeSubsystems
                 \/ BeginActors \/ RollbackActors \/ FailWorld \/ FailAtLast \/ EndNextDoomed
                 \/ BeginNextSpawn \/ EndSpawns \/ BeginNextDeferred \/ EndDeferred
                 \/ CallReturns
        BY <4>5
           DEF Dispatching, EnterFactory, EndConstruct, InitializeSubsystems, BeginActors,
               RollbackActors, FailWorld, FailAtLast, EndNextDoomed, BeginNextSpawn,
               EndSpawns, BeginNextDeferred, EndDeferred, CallReturns, spawnVars
      <4> QED
        BY <3>4, <4>0, <4>1, <4>2, <4>3, <4>4, <4>5 DEF CallStep
    <3>5. CASE HookReturns \/ UNCHANGED vars
      BY <3>5 DEF HookReturns, vars, spawnVars
    <3> QED
      BY <3>1, <3>2, <3>3, <3>4, <3>5 DEF Next, Defined, Undefined
  <2> QED
    BY <2>1, <2>3, PrefixGrows
<1> QED
  BY <1>1, InvariantAlways, PTL DEF Spec, BarrierIsFrozen

-----------------------------------------------------------------------------
(* The part of a sequence that came into play.                              *)

\* All entries of the prefix are able, and the one after it is not.
IsAblePart(q, able, works) ==
    /\ Len(works) \in 0..Len(q) /\ Len(q) \in Nat
    /\ \A i \in 1..Len(works) : q[i] \in able /\ works[i] = q[i]
    /\ works = q <=> Len(works) = Len(q)
    /\ Len(works) # Len(q) => Len(works) + 1 \in DOMAIN q /\ q[Len(works) + 1] \notin able

LEMMA PrefixAble ==
    ASSUME NEW S, NEW q \in Seq(S), NEW able
    PROVE  IsAblePart(q, able, Prefix(q, able))
<1> DEFINE reached == {i \in DOMAIN q : \A j \in 1..i : q[j] \in able}
           Bad == {i \in 1..(Len(q) + 1) : i \notin reached}
           m == Min(Bad)
<1>0. PICK n : n = Len(Prefix(q, able))
  OBVIOUS
<1>1. Len(q) \in Nat /\ DOMAIN q = 1..Len(q)
  OBVIOUS
<1>2. m \in Bad /\ \A i \in Bad : m <= i
  <2>1. Bad \in SUBSET Nat /\ IsFiniteSet(Bad)
    <3>1. IsFiniteSet(1..(Len(q) + 1))
      BY <1>1, FS_Interval
    <3>2. Bad \subseteq 1..(Len(q) + 1)
      OBVIOUS
    <3> HIDE DEF Bad
    <3>3. IsFiniteSet(Bad)
      BY <3>1, <3>2, FS_Subset
    <3> QED
      BY <1>1, <3>2, <3>3
  <2>2. Len(q) + 1 \in Bad
    BY <1>1
  <2> HIDE DEF Bad
  <2>3. Bad # {}
    BY <2>2
  <2> QED
    BY <2>1, <2>3, MinIsLeast
<1> HIDE DEF m
<1>3. m \in 1..(Len(q) + 1) /\ m - 1 \in 0..Len(q) /\ m \notin reached
  BY <1>1, <1>2
<1>4. reached = 1..(m - 1)
  <2>1. ASSUME NEW i \in reached PROVE i < m
    BY <1>1, <1>3, <2>1
  <2>2. ASSUME NEW i \in 1..(m - 1) PROVE i \in reached
    BY <1>1, <1>2, <1>3
  <2> QED
    BY <1>1, <1>3, <2>1, <2>2
<1>5. Prefix(q, able) = SubSeq(q, 1, m - 1) /\ n = m - 1
  <2>1. m - 1 \in Nat /\ m - 1 <= Len(q)
    BY <1>1, <1>3
  <2>2. Cardinality(1..(m - 1)) = m - 1
    BY <2>1, FS_Interval
  <2>3. Prefix(q, able) = SubSeq(q, 1, m - 1)
    BY <1>4, <2>2 DEF Prefix
  <2> QED
    BY <1>0, <2>1, <2>3, FirstPart
<1>6. \A i \in 1..(m - 1) : q[i] \in able
  BY <1>1, <1>4
<1>7. m - 1 # Len(q) => m \in DOMAIN q /\ q[m] \notin able
  <2>1. ASSUME m - 1 # Len(q), q[m] \in able PROVE FALSE
    BY <1>1, <1>3, <1>6, <2>1
  <2> QED
    BY <1>1, <1>3, <2>1
<1> HIDE DEF reached, Bad
<1>8. \A i \in 1..(m - 1) : SubSeq(q, 1, m - 1)[i] = q[i]
  BY <1>1, <1>3, SubSeqProperties
<1>9. Prefix(q, able) = q <=> n = Len(q)
  BY <1>0, <1>5
<1>10. n + 1 = m
  BY <1>1, <1>3, <1>5
<1> QED
  BY <1>0, <1>1, <1>3, <1>5, <1>6, <1>7, <1>8, <1>9, <1>10 DEF IsAblePart

-----------------------------------------------------------------------------
(***************************************************************************)
(* What moves make of an object: after the first k of them it is in play   *)
(* if it was or came to be, and each move out of play was followed by one  *)
(* back into it.                                                           *)
(***************************************************************************)
OutAt(moves, k, x) ==
    /\ lifecycle[x] = "Playing" \/ \E i \in 1..k : moves[i].of = x /\ moves[i].to = "Playing"
    /\ \A i \in 1..k : moves[i].of = x /\ moves[i].to # "Playing" =>
          \E j \in (i + 1)..k : moves[j].of = x /\ moves[j].to = "Playing"

Touches(moves, x) == \E i \in DOMAIN moves : moves[i].of = x

LEMMA MovesAre ==
    ASSUME NEW moves \in Seq(Steps)
    PROVE  /\ Len(moves) \in Nat /\ DOMAIN moves = 1..Len(moves)
           /\ \A i \in 1..Len(moves) : moves[i].of \in Objects /\ moves[i].to \in Phases
<1>1. \A m \in Steps : m.of \in Objects /\ m.to \in Phases
  BY DEF Steps
<1> QED
  BY <1>1

LEMMA UntouchedOut ==
    ASSUME NEW moves, NEW k \in Nat, NEW x, \A i \in 1..k : moves[i].of # x
    PROVE  OutAt(moves, k, x) <=> lifecycle[x] = "Playing"
  BY DEF OutAt

LEMMA EndingOut ==
    ASSUME NEW moves, NEW k \in Nat, NEW x, \A i \in 1..k : moves[i].to # "Playing"
    PROVE  OutAt(moves, k, x) <=> lifecycle[x] = "Playing" /\ \A i \in 1..k : moves[i].of # x
<1>1. \A i \in 1..k : \A j \in (i + 1)..k : j \in 1..k
  OBVIOUS
<1> QED
  BY <1>1 DEF OutAt

LEMMA StartingOut ==
    ASSUME NEW moves, NEW k \in Nat, NEW x, \A i \in 1..k : moves[i].to = "Playing"
    PROVE  OutAt(moves, k, x) <=> lifecycle[x] = "Playing" \/ \E i \in 1..k : moves[i].of = x
  BY DEF OutAt

\* A move out of play that none back into it follows.
LEMMA PutOut ==
    ASSUME NEW moves, NEW k \in Nat, NEW x, NEW i \in 1..k,
           moves[i].of = x, moves[i].to # "Playing",
           \A j \in (i + 1)..k : moves[j].of = x => moves[j].to # "Playing"
    PROVE  ~OutAt(moves, k, x)
  BY DEF OutAt

\* Only one piece touches the object, and it is over: the others make no difference.
LEMMA FlattenOut ==
    ASSUME NEW seqs \in Seq(Seq(Steps)), NEW out \in Seq(Steps), NEW piece, NEW place,
           Laid(seqs, Len(seqs), out, piece, place),
           NEW x, NEW p \in DOMAIN seqs, NEW k \in 0..Len(out),
           \A q \in DOMAIN seqs : q # p => ~Touches(seqs[q], x),
           \A l \in DOMAIN out : piece[l] = p => l <= k
    PROVE  OutAt(out, k, x) <=> OutAt(seqs[p], Len(seqs[p]), x)
<1>1. PICK s : s = seqs[p]
  OBVIOUS
<1>2. /\ Len(seqs) \in Nat /\ DOMAIN seqs = 1..Len(seqs) /\ s \in Seq(Steps)
      /\ Len(s) \in Nat /\ DOMAIN s = 1..Len(s) /\ Len(out) \in Nat /\ DOMAIN out = 1..Len(out)
  BY <1>1
<1>3. ASSUME NEW i \in DOMAIN out
      PROVE  /\ piece[i] \in DOMAIN seqs /\ place[i] \in DOMAIN seqs[piece[i]]
             /\ out[i] = seqs[piece[i]][place[i]]
  BY <1>2 DEF Laid
<1>4. ASSUME NEW i \in 1..k, out[i].of = x
      PROVE  i \in DOMAIN out /\ piece[i] = p /\ place[i] \in 1..Len(s) /\ out[i] = s[place[i]]
  <2>1. i \in DOMAIN out
    BY <1>2
  <2>2. piece[i] = p
    BY <1>3, <1>4, <2>1 DEF Touches
  <2> QED
    BY <1>1, <1>2, <1>3, <2>1, <2>2
<1>5. ASSUME NEW j \in 1..Len(s)
      PROVE  \E i \in 1..k : piece[i] = p /\ place[i] = j /\ out[i] = s[j]
  <2>1. p \in 1..Len(seqs) /\ j \in DOMAIN seqs[p]
    BY <1>1, <1>2
  <2>2. PICK i \in DOMAIN out : piece[i] = p /\ place[i] = j
    BY <2>1 DEF Laid
  <2>3. i \in 1..k /\ out[i] = s[j]
    BY <1>1, <1>2, <1>3, <2>2
  <2> QED
    BY <2>2, <2>3
<1>6. ASSUME NEW i \in 1..k, NEW j \in 1..k, piece[i] = p, piece[j] = p, place[i] < place[j]
      PROVE  i < j
  <2>1. i \in DOMAIN out /\ j \in DOMAIN out /\ i \in Nat /\ j \in Nat
    BY <1>2
  <2>2. place[i] \in Nat /\ place[j] \in Nat /\ ~(p < p)
    <3>1. place \in [DOMAIN out -> Nat]
      BY DEF Laid
    <3>2. p \in Nat
      BY <1>2
    <3> QED
      BY <2>1, <3>1, <3>2
  <2>3. j < i => place[j] < place[i]
    BY <1>6, <2>1, <2>2 DEF Laid
  <2> QED
    BY <1>6, <2>1, <2>2, <2>3
<1>7. ASSUME NEW i \in 1..k, NEW j \in 1..k, piece[i] = p, piece[j] = p, i < j
      PROVE  place[i] < place[j]
  BY <1>2, <1>7 DEF Laid
<1>8. ASSUME OutAt(out, k, x) PROVE OutAt(s, Len(s), x)
  <2>1. lifecycle[x] = "Playing" \/ \E i \in 1..Len(s) : s[i].of = x /\ s[i].to = "Playing"
    BY <1>4, <1>8 DEF OutAt
  <2>2. ASSUME NEW i \in 1..Len(s), s[i].of = x, s[i].to # "Playing"
        PROVE  \E j \in (i + 1)..Len(s) : s[j].of = x /\ s[j].to = "Playing"
    <3>1. PICK l \in 1..k : piece[l] = p /\ place[l] = i /\ out[l] = s[i]
      BY <1>5
    <3>2. PICK m \in (l + 1)..k : out[m].of = x /\ out[m].to = "Playing"
      BY <1>8, <2>2, <3>1 DEF OutAt
    <3>3. m \in 1..k /\ l < m
      BY <3>2
    <3>4. place[l] < place[m] /\ place[m] \in 1..Len(s) /\ out[m] = s[place[m]]
      BY <1>4, <1>7, <3>1, <3>2, <3>3
    <3>5. place[m] \in (i + 1)..Len(s) /\ s[place[m]].of = x /\ s[place[m]].to = "Playing"
      BY <1>2, <3>1, <3>2, <3>4
    <3> QED
      BY <3>5
  <2> QED
    BY <2>1, <2>2 DEF OutAt
<1>9. ASSUME OutAt(s, Len(s), x) PROVE OutAt(out, k, x)
  <2>1. lifecycle[x] = "Playing" \/ \E i \in 1..k : out[i].of = x /\ out[i].to = "Playing"
    BY <1>5, <1>9 DEF OutAt
  <2>2. ASSUME NEW i \in 1..k, out[i].of = x, out[i].to # "Playing"
        PROVE  \E j \in (i + 1)..k : out[j].of = x /\ out[j].to = "Playing"
    <3>1. piece[i] = p /\ place[i] \in 1..Len(s) /\ out[i] = s[place[i]]
      BY <1>4, <2>2
    <3>2. PICK m \in (place[i] + 1)..Len(s) : s[m].of = x /\ s[m].to = "Playing"
      BY <1>9, <2>2, <3>1 DEF OutAt
    <3>3. m \in 1..Len(s) /\ place[i] < m
      BY <3>1, <3>2
    <3>4. PICK j \in 1..k : piece[j] = p /\ place[j] = m /\ out[j] = s[m]
      BY <1>5, <3>3
    <3>5. i < j
      BY <1>6, <3>1, <3>3, <3>4
    <3> QED
      BY <3>2, <3>4, <3>5
  <2> QED
    BY <2>1, <2>2 DEF OutAt
<1> QED
  BY <1>1, <1>8, <1>9

-----------------------------------------------------------------------------
(* The moves of one actor and its components.                              *)

PartOf(a, x) == x = a \/ (a \in Actors /\ \E j \in DOMAIN components[a] : components[a][j] = x)

LEMMA EachIs ==
    ASSUME NEW q \in Seq(Objects), NEW phase \in Phases
    PROVE  /\ Each(q, phase) \in Seq(Steps) /\ Len(Each(q, phase)) = Len(q)
           /\ \A i \in 1..Len(q) : Each(q, phase)[i].of = q[i] /\ Each(q, phase)[i].to = phase
<1>1. Each(q, phase) = [i \in 1..Len(q) |-> Hook(q[i], phase)] /\ Len(q) \in Nat
  BY DEF Each
<1>2. \A x : Hook(x, phase).of = x /\ Hook(x, phase).to = phase
  BY DEF Hook
<1>3. Each(q, phase) \in Seq(Steps)
  BY EachTyped
<1>4. Len(Each(q, phase)) = Len(q)
  BY <1>1
<1> QED
  BY <1>1, <1>2, <1>3, <1>4

LEMMA OneStepIs ==
    ASSUME NEW x \in Objects, NEW phase \in Phases
    PROVE  /\ <<Hook(x, phase)>> \in Seq(Steps) /\ <<Move(x, phase)>> \in Seq(Steps)
           /\ Len(<<Hook(x, phase)>>) = 1 /\ Len(<<Move(x, phase)>>) = 1
           /\ \A i \in 1..1 :
                 /\ <<Hook(x, phase)>>[i].of = x /\ <<Hook(x, phase)>>[i].to = phase
                 /\ <<Move(x, phase)>>[i].of = x /\ <<Move(x, phase)>>[i].to = phase
<1>1. \A i \in 1..1 : i = 1
  OBVIOUS
<1> QED
  BY <1>1, OneStep DEF Hook, Move

\* The sequence r is p and then q.
IsJoined(r, p, q) ==
    /\ Len(p) \in Nat /\ Len(q) \in Nat /\ Len(r) = Len(p) + Len(q)
    /\ \A i \in 1..Len(p) : r[i] = p[i] /\ i \in 1..Len(r)
    /\ \A i \in 1..Len(q) : r[Len(p) + i] = q[i] /\ Len(p) + i \in 1..Len(r)
    /\ \A k \in 1..Len(r) :
          \/ k \in 1..Len(p) /\ r[k] = p[k]
          \/ k > Len(p) /\ k - Len(p) \in 1..Len(q) /\ r[k] = q[k - Len(p)]

LEMMA Joined ==
    ASSUME NEW S, NEW p \in Seq(S), NEW q \in Seq(S)
    PROVE  p \o q \in Seq(S) /\ IsJoined(p \o q, p, q)
  BY DEF IsJoined

LEMMA EndStepsDo ==
    ASSUME LifecycleTypeOK, NEW a \in Actors, NEW moves, moves = EndSteps(a)
    PROVE  /\ moves \in Seq(Steps)
           /\ \A i \in 1..Len(moves) :
                 /\ moves[i].to = "Ended" /\ PartOf(a, moves[i].of) /\ lifecycle[a] = "Playing"
                 /\ lifecycle[moves[i].of] = "Playing"
                 /\ Resolves(a) => Resolves(moves[i].of)
           /\ lifecycle[a] = "Playing" =>
                 \A x : PartOf(a, x) /\ (x = a \/ Plays(x)) => Touches(moves, x)
<1> DEFINE playing == {c \in Components : Plays(c)}
           kept == Kept(components[a], playing)
<1>1. /\ components[a] \in Seq(Components) /\ kept \in Seq(Components)
      /\ DOMAIN components[a] = 1..Len(components[a])
      /\ a \in Objects
  BY ComponentsAre, KeptIs, ObjectKinds
<1>2. \A k \in 1..Len(kept) :
        \E j \in DOMAIN components[a] : components[a][j] = kept[k] /\ kept[k] \in playing
  <2> HIDE DEF playing
  <2> TAKE k \in 1..Len(kept)
  <2>1. PICK j : j = PlaceOf(components[a], playing, k)
    OBVIOUS
  <2>2. /\ j \in 1..Len(components[a]) /\ components[a][j] \in playing
        /\ kept[k] = components[a][j]
    BY <1>1, <2>1, KeptIs
  <2> QED
    BY <1>1, <2>2
<1>3. \A j \in DOMAIN components[a] : components[a][j] \in playing =>
        \E k \in 1..Len(kept) : kept[k] = components[a][j]
  <2> HIDE DEF playing
  <2> QED
    BY <1>1, KeptIs
<1> HIDE DEF kept
<1> DEFINE back == Reverse(kept)
           ends == Each(back, "Ended")
           hook == <<Hook(a, "Ended")>>
<1>4. /\ back \in Seq(Objects) /\ Len(back) = Len(kept) /\ Len(kept) \in Nat
      /\ \A i \in 1..Len(kept) : back[i] = kept[(Len(kept) - i) + 1]
  <2>1. back \in Seq(Components) /\ Len(back) = Len(kept) /\ Len(kept) \in Nat
    BY <1>1, Reversed
  <2>2. \A i \in 1..Len(kept) : back[i] = kept[(Len(kept) - i) + 1]
    BY DEF Reverse
  <2> HIDE DEF back
  <2> QED
    BY <2>1, <2>2, OfObjects, ObjectKinds
<1> HIDE DEF back
<1>5. /\ ends \in Seq(Steps) /\ Len(ends) = Len(kept)
      /\ \A i \in 1..Len(kept) : ends[i].of = back[i] /\ ends[i].to = "Ended"
  BY <1>4, EachIs, PhasesAre
<1>6. /\ hook \in Seq(Steps) /\ Len(hook) = 1
      /\ \A i \in 1..1 : hook[i].of = a /\ hook[i].to = "Ended"
  BY <1>1, OneStepIs, PhasesAre
<1>7. EndSteps(a) = IF lifecycle[a] # "Playing" THEN <<>> ELSE hook \o ends
  BY DEF EndSteps, EndEach, back, kept
<1> HIDE DEF ends, hook, playing
<1>8. CASE lifecycle[a] # "Playing"
  BY <1>7, <1>8
<1>9. CASE lifecycle[a] = "Playing"
  <2>1. moves = hook \o ends
    BY <1>7, <1>9
  <2>2. /\ moves \in Seq(Steps)
        /\ \A i \in 1..Len(hook) : moves[i] = hook[i] /\ i \in 1..Len(moves)
        /\ \A i \in 1..Len(ends) :
              moves[Len(hook) + i] = ends[i] /\ Len(hook) + i \in 1..Len(moves)
        /\ \A k \in 1..Len(moves) :
              \/ k \in 1..Len(hook) /\ moves[k] = hook[k]
              \/ k - Len(hook) \in 1..Len(ends) /\ moves[k] = ends[k - Len(hook)]
    <3>1. moves \in Seq(Steps) /\ IsJoined(moves, hook, ends)
      BY <1>5, <1>6, <2>1, Joined
    <3> QED
      BY <3>1 DEF IsJoined
  <2>3. ASSUME NEW k \in 1..Len(moves)
        PROVE  /\ moves[k].to = "Ended" /\ PartOf(a, moves[k].of)
               /\ lifecycle[moves[k].of] = "Playing"
               /\ Resolves(a) => Resolves(moves[k].of)
    <3>1. CASE k \in 1..Len(hook) /\ moves[k] = hook[k]
      BY <1>6, <1>9, <3>1 DEF PartOf
    <3>2. CASE k - Len(hook) \in 1..Len(ends) /\ moves[k] = ends[k - Len(hook)]
      <4>1. PICK i : i \in 1..Len(kept) /\ moves[k] = ends[i]
        BY <1>5, <3>2
      <4>2. PICK l \in 1..Len(kept) : l = (Len(kept) - i) + 1 /\ back[i] = kept[l]
        BY <1>4, <4>1
      <4>3. moves[k].of = kept[l] /\ moves[k].to = "Ended"
        BY <1>5, <4>1, <4>2
      <4> QED
        BY <1>2, <4>3 DEF PartOf, playing, Plays
    <3> QED
      BY <2>2, <3>1, <3>2
  <2>4. ASSUME NEW x, PartOf(a, x), x = a \/ Plays(x)
        PROVE  Touches(moves, x)
    <3>1. DOMAIN moves = 1..Len(moves) /\ Len(moves) \in Nat
      BY <2>2
    <3>2. CASE x = a
      BY <1>6, <2>2, <3>1, <3>2 DEF Touches
    <3>3. CASE x # a
      <4>1. PICK j \in DOMAIN components[a] : components[a][j] = x
        BY <2>4, <3>3 DEF PartOf
      <4>2. x \in playing
        BY <1>1, <2>4, <3>3, <4>1 DEF playing
      <4>3. PICK l \in 1..Len(kept) : kept[l] = x
        BY <1>3, <4>1, <4>2
      <4>4. PICK i \in 1..Len(kept) : i = (Len(kept) - l) + 1 /\ (Len(kept) - i) + 1 = l
        BY <1>4
      <4>5. back[i] = x
        BY <1>4, <4>3, <4>4
      <4>6. ends[i].of = x /\ i \in 1..Len(ends)
        BY <1>5, <4>5
      <4>7. moves[Len(hook) + i].of = x /\ Len(hook) + i \in 1..Len(moves)
        BY <2>2, <4>6
      <4> QED
        BY <3>1, <4>7 DEF Touches
    <3> QED
      BY <3>2, <3>3
  <2> QED
    BY <1>9, <2>2, <2>3, <2>4
<1> QED
  BY <1>8, <1>9

LEMMA AdvanceStepsDo ==
    ASSUME LifecycleTypeOK, NEW a \in Actors, NEW moves, moves = AdvanceSteps(a)
    PROVE  /\ moves \in Seq(Steps)
           /\ \A i \in 1..Len(moves) :
                 /\ moves[i].to = "Playing" /\ PartOf(a, moves[i].of)
                 /\ lifecycle[moves[i].of] = "Playing"
                 /\ Resolves(a) => Resolves(moves[i].of)
<1> DEFINE able == {c \in Components : Plays(c)}
           ticked == Prefix(components[a], able)
<1>1. /\ components[a] \in Seq(Components) /\ a \in Objects
      /\ DOMAIN components[a] = 1..Len(components[a])
  BY ComponentsAre, ObjectKinds
<1>2. /\ ticked \in Seq(Components) /\ Len(ticked) \in 0..Len(components[a])
      /\ Len(components[a]) \in Nat
      /\ \A i \in 1..Len(ticked) : ticked[i] = components[a][i] /\ ticked[i] \in able
  <2> HIDE DEF able
  <2>1. ticked \in Seq(Components) /\ Len(components[a]) \in Nat
    BY <1>1, PrefixIs
  <2>2. PICK q : q = components[a] /\ q \in Seq(Components)
    BY <1>1
  <2>3. IsAblePart(q, able, Prefix(q, able))
    BY <2>2, PrefixAble
  <2> QED
    BY <2>1, <2>2, <2>3 DEF IsAblePart
<1> HIDE DEF ticked
<1>3. ticked \in Seq(Objects) /\ Len(ticked) \in Nat
  BY <1>2, OfObjects, ObjectKinds
<1> DEFINE ticks == Each(ticked, "Playing")
           last == IF ticked = components[a] THEN <<Hook(a, "Playing")>> ELSE <<>>
<1>4. /\ ticks \in Seq(Steps) /\ Len(ticks) = Len(ticked)
      /\ \A i \in 1..Len(ticked) : ticks[i].of = ticked[i] /\ ticks[i].to = "Playing"
  BY <1>3, EachIs, PhasesAre
<1>5. /\ last \in Seq(Steps)
      /\ \A i \in 1..Len(last) : last[i].of = a /\ last[i].to = "Playing"
  BY <1>1, OneStepIs, PhasesAre
<1>6. AdvanceSteps(a) = IF lifecycle[a] # "Playing" THEN <<>> ELSE ticks \o last
  BY DEF AdvanceSteps, ticked
<1> HIDE DEF ticks, last
<1>7. CASE lifecycle[a] # "Playing"
  BY <1>6, <1>7
<1>8. CASE lifecycle[a] = "Playing"
  <2>1. moves = ticks \o last
    BY <1>6, <1>8
  <2>2. /\ moves \in Seq(Steps)
        /\ \A k \in 1..Len(moves) :
              \/ k \in 1..Len(ticks) /\ moves[k] = ticks[k]
              \/ k - Len(ticks) \in 1..Len(last) /\ moves[k] = last[k - Len(ticks)]
    BY <1>4, <1>5, <2>1, Joined DEF IsJoined
  <2>3. ASSUME NEW k \in 1..Len(moves)
        PROVE  /\ moves[k].to = "Playing" /\ PartOf(a, moves[k].of)
               /\ lifecycle[moves[k].of] = "Playing"
               /\ Resolves(a) => Resolves(moves[k].of)
    <3>1. CASE k \in 1..Len(ticks) /\ moves[k] = ticks[k]
      BY <1>1, <1>2, <1>4, <3>1 DEF PartOf, Plays
    <3>2. CASE k - Len(ticks) \in 1..Len(last) /\ moves[k] = last[k - Len(ticks)]
      BY <1>5, <1>8, <3>2 DEF PartOf
    <3> QED
      BY <2>2, <3>1, <3>2
  <2> QED
    BY <2>2, <2>3
<1> QED
  BY <1>7, <1>8

\* All that had begun are rolled back, and then the actor fails.
IsRollback(back, begun, a) ==
    /\ \A i \in 1..Len(back) :
          /\ back[i].to # "Playing"
          /\ back[i].of = a => back[i].to = "Failed" \/ \E j \in 1..Len(begun) : begun[j] = a
          /\ back[i].of = a \/ \E j \in 1..Len(begun) : begun[j] = back[i].of
    /\ Touches(back, a)
    /\ \A j \in 1..Len(begun) : Touches(back, begun[j])

LEMMA RollbackDoes ==
    ASSUME NEW begun \in Seq(Objects), NEW a \in Objects
    PROVE  /\ RollbackSteps(begun) \o <<Move(a, "Failed")>> \in Seq(Steps)
           /\ IsRollback(RollbackSteps(begun) \o <<Move(a, "Failed")>>, begun, a)
<1> DEFINE turned == Reverse(begun)
           roll == Each(turned, "Ended")
           last == <<Move(a, "Failed")>>
           back == RollbackSteps(begun) \o last
<1>1. /\ turned \in Seq(Objects) /\ Len(turned) = Len(begun) /\ Len(begun) \in Nat
      /\ \A i \in 1..Len(begun) : turned[i] = begun[(Len(begun) - i) + 1]
  BY Reversed DEF Reverse
<1> HIDE DEF turned
<1>2. /\ roll \in Seq(Steps) /\ Len(roll) = Len(begun)
      /\ \A i \in 1..Len(begun) : roll[i].of = turned[i] /\ roll[i].to = "Ended"
  BY <1>1, EachIs, PhasesAre
<1>3. /\ last \in Seq(Steps) /\ Len(last) = 1
      /\ \A i \in 1..1 : last[i].of = a /\ last[i].to = "Failed"
  BY OneStepIs, PhasesAre
<1>4. back = roll \o last
  BY DEF RollbackSteps, turned
<1> SUFFICES back \in Seq(Steps) /\ IsRollback(back, begun, a)
  OBVIOUS
<1> HIDE DEF roll, last, back
<1>5. back \in Seq(Steps) /\ IsJoined(back, roll, last)
  BY <1>2, <1>3, <1>4, Joined
<1>6. /\ DOMAIN back = 1..Len(back)
      /\ \A i \in 1..Len(roll) : back[i] = roll[i] /\ i \in 1..Len(back)
      /\ \A i \in 1..Len(last) :
            back[Len(roll) + i] = last[i] /\ Len(roll) + i \in 1..Len(back)
      /\ \A k \in 1..Len(back) :
            \/ k \in 1..Len(roll) /\ back[k] = roll[k]
            \/ k - Len(roll) \in 1..Len(last) /\ back[k] = last[k - Len(roll)]
  BY <1>5 DEF IsJoined
<1>7. ASSUME NEW i \in 1..Len(back)
      PROVE  /\ back[i].to \in {"Ended", "Failed"}
             /\ \/ back[i].of = a /\ back[i].to = "Failed"
                \/ \E j \in 1..Len(begun) : begun[j] = back[i].of
  <2>1. CASE i \in 1..Len(roll) /\ back[i] = roll[i]
    <3>1. i \in 1..Len(begun) /\ back[i].of = turned[i] /\ back[i].to = "Ended"
      BY <1>2, <2>1
    <3>2. PICK j \in 1..Len(begun) : j = (Len(begun) - i) + 1 /\ turned[i] = begun[j]
      BY <1>1, <3>1
    <3> QED
      BY <3>1, <3>2
  <2>2. CASE i - Len(roll) \in 1..Len(last) /\ back[i] = last[i - Len(roll)]
    BY <1>3, <2>2
  <2> QED
    BY <1>6, <2>1, <2>2
<1>8. Touches(back, a)
  BY <1>3, <1>6 DEF Touches
<1>9. ASSUME NEW j \in 1..Len(begun) PROVE Touches(back, begun[j])
  <2>1. PICK i \in 1..Len(begun) : i = (Len(begun) - j) + 1 /\ (Len(begun) - i) + 1 = j
    BY <1>1
  <2>2. turned[i] = begun[j]
    BY <1>1, <2>1
  <2>3. roll[i].of = begun[j] /\ i \in 1..Len(roll)
    BY <1>2, <2>2
  <2>4. back[i].of = begun[j] /\ i \in DOMAIN back
    BY <1>6, <2>3
  <2> QED
    BY <2>4 DEF Touches
<1> QED
  BY <1>5, <1>7, <1>8, <1>9 DEF IsRollback

LEMMA BeginStepsDo ==
    ASSUME LifecycleTypeOK, NEW a \in Actors, NEW moves, moves = BeginSteps(a)
    PROVE  /\ moves \in Seq(Steps)
           /\ \A i \in 1..Len(moves) :
                 /\ lifecycle[a] = "Constructed" /\ PartOf(a, moves[i].of)
                 /\ lifecycle[moves[i].of] = "Constructed"
                 /\ moves[i].of = a => moves[i].to # "Ended"
                 /\ Resolves(a) => Resolves(moves[i].of)
           /\ ~BeginFails(a) =>
                 /\ \A i \in 1..Len(moves) : moves[i].to = "Playing"
                 /\ \A x : PartOf(a, x) => Touches(moves, x)
           /\ BeginFails(a) =>
                 \A x : Touches(moves, x) => ~OutAt(moves, Len(moves), x)
<1> DEFINE able == {c \in Components : Begins(c)}
           comps == components[a]
           begun == Prefix(comps, able)
<1>1. /\ comps \in Seq(Components) /\ a \in Objects /\ a \notin Components
      /\ DOMAIN comps = 1..Len(comps) /\ Len(comps) \in Nat
  BY ComponentsAre, ObjectKinds, LifecycleAssumption DEF LifecycleAssumption, Actors
<1>2. begun \in Seq(Components) /\ IsAblePart(comps, able, begun)
  <2> HIDE DEF able, comps
  <2> QED
    BY <1>1, PrefixIs, PrefixAble
<1> HIDE DEF begun
<1>3. /\ Len(begun) \in 0..Len(comps)
      /\ \A i \in 1..Len(begun) : comps[i] \in able /\ begun[i] = comps[i]
      /\ begun = comps <=> Len(begun) = Len(comps)
      /\ Len(begun) # Len(comps) =>
            Len(begun) + 1 \in DOMAIN comps /\ comps[Len(begun) + 1] \notin able
  <2> HIDE DEF able, comps
  <2> QED
    BY <1>2 DEF IsAblePart
<1>4. begun \in Seq(Objects) /\ Len(begun) \in Nat
  BY <1>2, OfObjects, ObjectKinds
<1>5. ASSUME NEW i \in 1..Len(begun)
      PROVE  PartOf(a, begun[i]) /\ begun[i] \in Components /\ Begins(begun[i])
  BY <1>1, <1>3 DEF PartOf
<1>6. \A i \in 1..Len(begun) : begun[i] # a
  BY <1>1, <1>5
<1> DEFINE move == <<Move(a, "Playing")>>
           starts == Each(begun, "Playing")
           first == move \o starts
           back == RollbackSteps(begun) \o <<Move(a, "Failed")>>
           last == IF begun = comps THEN <<Hook(a, "Playing")>> ELSE back
<1>7. /\ move \in Seq(Steps) /\ Len(move) = 1
      /\ \A i \in 1..1 : move[i].of = a /\ move[i].to = "Playing"
      /\ starts \in Seq(Steps) /\ Len(starts) = Len(begun)
      /\ \A i \in 1..Len(begun) : starts[i].of = begun[i] /\ starts[i].to = "Playing"
  BY <1>1, <1>4, EachIs, OneStepIs, PhasesAre
<1> HIDE DEF move, starts
<1>8. /\ first \in Seq(Steps) /\ Len(first) \in Nat
      /\ \A i \in 1..Len(first) :
            /\ first[i].to = "Playing"
            /\ first[i].of = a \/ \E j \in 1..Len(begun) : first[i].of = begun[j]
      /\ 1 \in 1..Len(first) /\ first[1].of = a
      /\ \A j \in 1..Len(begun) : 1 + j \in 1..Len(first) /\ first[1 + j].of = begun[j]
  <2>1. first \in Seq(Steps) /\ IsJoined(first, move, starts)
    BY <1>7, Joined
  <2> HIDE DEF first
  <2>2. /\ \A i \in 1..Len(move) : first[i] = move[i] /\ i \in 1..Len(first)
        /\ \A i \in 1..Len(starts) :
              first[Len(move) + i] = starts[i] /\ Len(move) + i \in 1..Len(first)
        /\ \A k \in 1..Len(first) :
              \/ k \in 1..Len(move) /\ first[k] = move[k]
              \/ k - Len(move) \in 1..Len(starts) /\ first[k] = starts[k - Len(move)]
    BY <2>1 DEF IsJoined
  <2>3. 1 \in 1..Len(move) /\ 1 \in 1..Len(first) /\ first[1].of = a
    BY <1>7, <2>2
  <2>4. \A j \in 1..Len(begun) : 1 + j \in 1..Len(first) /\ first[1 + j].of = begun[j]
    BY <1>7, <2>2
  <2>5. ASSUME NEW k \in 1..Len(first)
        PROVE  /\ first[k].to = "Playing"
               /\ first[k].of = a \/ \E j \in 1..Len(begun) : first[k].of = begun[j]
    <3>1. CASE k \in 1..Len(move) /\ first[k] = move[k]
      BY <1>7, <3>1
    <3>2. CASE k - Len(move) \in 1..Len(starts) /\ first[k] = starts[k - Len(move)]
      BY <1>7, <3>2
    <3> QED
      BY <2>2, <3>1, <3>2
  <2>6. Len(first) \in Nat
    BY <2>1
  <2> QED
    BY <2>1, <2>3, <2>4, <2>5, <2>6
<1> HIDE DEF first
<1>9. /\ back \in Seq(Steps)
      /\ \A i \in 1..Len(back) :
            /\ back[i].to # "Playing"
            /\ back[i].of = a => back[i].to = "Failed"
            /\ back[i].of = a \/ \E j \in 1..Len(begun) : back[i].of = begun[j]
      /\ Touches(back, a)
      /\ \A j \in 1..Len(begun) : Touches(back, begun[j])
  <2>1. back \in Seq(Steps) /\ IsRollback(back, begun, a)
    BY <1>1, <1>4, RollbackDoes
  <2> HIDE DEF back
  <2> QED
    BY <1>6, <2>1 DEF IsRollback
<1> HIDE DEF back
<1>10. /\ last \in Seq(Steps)
       /\ \A i \in 1..Len(last) :
             /\ last[i].of = a \/ \E j \in 1..Len(begun) : last[i].of = begun[j]
             /\ last[i].of = a => last[i].to # "Ended"
       /\ begun = comps => \A i \in 1..Len(last) : last[i].to = "Playing"
       /\ begun # comps =>
            /\ \A i \in 1..Len(last) : last[i].to # "Playing"
            /\ Touches(last, a)
            /\ \A j \in 1..Len(begun) : Touches(last, begun[j])
  <2>1. CASE begun = comps
    <3>1. last = <<Hook(a, "Playing")>>
      BY <2>1
    <3> DEFINE hook == <<Hook(a, "Playing")>>
    <3>2. /\ hook \in Seq(Steps) /\ Len(hook) = 1
          /\ \A i \in 1..1 : hook[i].of = a /\ hook[i].to = "Playing"
      BY <1>1, OneStepIs, PhasesAre
    <3> HIDE DEF hook
    <3>3. last = hook
      BY <3>1 DEF hook
    <3> HIDE DEF last
    <3> QED
      BY <2>1, <3>2, <3>3
  <2>2. CASE begun # comps
    <3>1. last = back
      BY <2>2
    <3> HIDE DEF last
    <3> QED
      BY <1>9, <2>2, <3>1
  <2> QED
    BY <2>1, <2>2
<1>11. BeginSteps(a) = IF lifecycle[a] # "Constructed" THEN <<>> ELSE first \o last
  BY DEF BeginSteps, last, back, first, begun, starts, move
<1> HIDE DEF last
<1>12. CASE lifecycle[a] # "Constructed"
  BY <1>11, <1>12 DEF BeginFails, Touches
<1>13. CASE lifecycle[a] = "Constructed"
  <2>1. moves \in Seq(Steps) /\ IsJoined(moves, first, last)
    BY <1>8, <1>10, <1>11, <1>13, Joined
  <2>2. /\ Len(moves) \in Nat /\ DOMAIN moves = 1..Len(moves)
        /\ Len(moves) = Len(first) + Len(last) /\ Len(last) \in Nat
        /\ \A i \in 1..Len(first) : moves[i] = first[i] /\ i \in 1..Len(moves)
        /\ \A i \in 1..Len(last) :
              moves[Len(first) + i] = last[i] /\ Len(first) + i \in 1..Len(moves)
        /\ \A k \in 1..Len(moves) :
              \/ k \in 1..Len(first) /\ moves[k] = first[k]
              \/ /\ k > Len(first) /\ k - Len(first) \in 1..Len(last)
                 /\ moves[k] = last[k - Len(first)]
    BY <2>1 DEF IsJoined
  <2>3. ASSUME NEW k \in 1..Len(moves)
        PROVE  /\ moves[k].of = a \/ \E j \in 1..Len(begun) : moves[k].of = begun[j]
               /\ moves[k].of = a => moves[k].to # "Ended"
               /\ begun = comps => moves[k].to = "Playing"
               /\ begun # comps /\ k > Len(first) => moves[k].to # "Playing"
    <3>1. CASE k \in 1..Len(first) /\ moves[k] = first[k]
      BY <1>8, <3>1
    <3>2. CASE /\ k > Len(first) /\ k - Len(first) \in 1..Len(last)
               /\ moves[k] = last[k - Len(first)]
      BY <1>10, <3>2
    <3> QED
      BY <2>2, <3>1, <3>2
  <2>4. ASSUME NEW k \in 1..Len(moves)
        PROVE  /\ PartOf(a, moves[k].of) /\ lifecycle[moves[k].of] = "Constructed"
               /\ Resolves(a) => Resolves(moves[k].of)
    <3>1. CASE moves[k].of = a
      BY <1>13, <3>1 DEF PartOf
    <3>2. CASE \E j \in 1..Len(begun) : moves[k].of = begun[j]
      BY <1>5, <3>2 DEF Begins
    <3> QED
      BY <2>3, <3>1, <3>2
  <2>5. BeginFails(a) <=> begun # comps
    <3>1. ASSUME begun = comps PROVE ~BeginFails(a)
      BY <1>1, <1>5, <1>13, <3>1 DEF BeginFails
    <3>2. ASSUME begun # comps PROVE BeginFails(a)
      <4>1. Len(begun) + 1 \in DOMAIN comps /\ comps[Len(begun) + 1] \notin able
        BY <1>3, <3>2
      <4>2. comps[Len(begun) + 1] \in Components
        BY <1>1, <4>1
      <4>3. ~Begins(components[a][Len(begun) + 1]) /\ Len(begun) + 1 \in DOMAIN components[a]
        BY <4>1, <4>2
      <4> QED
        BY <4>3 DEF BeginFails
    <3> QED
      BY <3>1, <3>2
  <2>6. ASSUME begun = comps, NEW x, PartOf(a, x) PROVE Touches(moves, x)
    <3>1. CASE x = a
      BY <1>8, <2>2, <3>1 DEF Touches
    <3>2. CASE x # a
      <4>1. PICK j \in DOMAIN comps : comps[j] = x
        BY <2>6, <3>2 DEF PartOf
      <4>2. j \in 1..Len(begun) /\ begun[j] = x
        BY <1>1, <2>6, <4>1
      <4>3. 1 + j \in 1..Len(moves) /\ moves[1 + j].of = x
        BY <1>8, <2>2, <4>2
      <4> QED
        BY <2>2, <4>3 DEF Touches
    <3> QED
      BY <3>1, <3>2
  <2>7. ASSUME begun # comps, NEW x, Touches(moves, x) PROVE ~OutAt(moves, Len(moves), x)
    <3>1. x = a \/ \E j \in 1..Len(begun) : x = begun[j]
      BY <2>2, <2>3, <2>7 DEF Touches
    <3>2. Touches(last, x)
      BY <1>10, <2>7, <3>1
    <3>3. PICK l \in 1..Len(last) : last[l].of = x
      BY <1>10, <3>2 DEF Touches
    <3>4. PICK i \in 1..Len(moves) : i = Len(first) + l /\ moves[i].of = x
      BY <2>2, <3>3
    <3>5. i > Len(first)
      BY <1>8, <3>4
    <3>6. moves[i].to # "Playing"
      BY <2>3, <2>7, <3>5
    <3>7. \A j \in (i + 1)..Len(moves) : j \in 1..Len(moves) /\ j > Len(first)
      BY <1>8, <2>2, <3>5
    <3>8. \A j \in (i + 1)..Len(moves) : moves[j].to # "Playing"
      BY <2>3, <2>7, <3>7
    <3> QED
      BY <2>2, <3>4, <3>6, <3>8, PutOut
  <2> QED
    BY <1>13, <2>1, <2>3, <2>4, <2>5, <2>6, <2>7
<1> QED
  BY <1>12, <1>13

-----------------------------------------------------------------------------
(* Everything in a list ends, last to first.                               *)

\* The moves that end one of them, an actor with its components or a subsystem.
EndsOf(moves, x) ==
    /\ \A i \in DOMAIN moves :
          /\ moves[i].to = "Ended" /\ PartOf(x, moves[i].of)
          /\ Plays(x) /\ Plays(moves[i].of)
    /\ Plays(x) => \A y : PartOf(x, y) /\ Plays(y) => Touches(moves, y)

EndsAll(moves, q) ==
    /\ \A k \in 1..Len(moves) :
          /\ moves[k].to = "Ended" /\ Plays(moves[k].of)
          /\ \E i \in DOMAIN q : Plays(q[i]) /\ PartOf(q[i], moves[k].of)
    /\ \A i \in DOMAIN q : Plays(q[i]) =>
          \A y : PartOf(q[i], y) /\ Plays(y) => Touches(moves, y)
    /\ \A k \in 1..Len(moves) : \A i, j \in DOMAIN q :
          i < j /\ moves[k].of = q[i] /\ Plays(q[j]) => \E l \in 1..(k - 1) : moves[l].of = q[j]

LEMMA EndedInReverse ==
    ASSUME NEW q \in Seq(Objects), NEW pieces \in Seq(Seq(Steps)), Len(pieces) = Len(q),
           \A i \in 1..Len(q) : EndsOf(pieces[i], q[(Len(q) - i) + 1]),
           \A i, j \in DOMAIN q : PartOf(q[i], q[j]) => i = j
    PROVE  FlattenSeq(pieces) \in Seq(Steps) /\ EndsAll(FlattenSeq(pieces), q)
<1>1. PICK n : n = Len(q)
  OBVIOUS
<1>2. /\ n \in Nat /\ DOMAIN q = 1..n /\ Len(pieces) = n /\ DOMAIN pieces = 1..n
      /\ \A i \in 1..n : (n - i) + 1 \in 1..n /\ (n - ((n - i) + 1)) + 1 = i
  BY <1>1
<1>3. PICK moves : moves = FlattenSeq(pieces)
  OBVIOUS
<1>4. moves \in Seq(Steps) /\ DOMAIN moves = 1..Len(moves) /\ Len(moves) \in Nat
  BY <1>3, Flattened
<1>5. PICK piece, place : Laid(pieces, n, moves, piece, place)
  BY <1>2, <1>3, FlattenLaid
<1>6. ASSUME NEW k \in 1..Len(moves)
      PROVE  /\ piece[k] \in 1..n /\ place[k] \in DOMAIN pieces[piece[k]]
             /\ moves[k] = pieces[piece[k]][place[k]]
             /\ EndsOf(pieces[piece[k]], q[(n - piece[k]) + 1])
  <2>1. k \in DOMAIN moves /\ piece \in [DOMAIN moves -> 1..n]
    BY <1>4, <1>5 DEF Laid
  <2>2. piece[k] \in 1..n
    BY <2>1
  <2>3. place[k] \in DOMAIN pieces[piece[k]] /\ moves[k] = pieces[piece[k]][place[k]]
    BY <1>5, <2>1 DEF Laid
  <2>4. EndsOf(pieces[piece[k]], q[(n - piece[k]) + 1])
    BY <1>1, <2>2
  <2> QED
    BY <2>2, <2>3, <2>4
<1>7. ASSUME NEW k \in 1..Len(moves)
      PROVE  /\ moves[k].to = "Ended" /\ Plays(moves[k].of)
             /\ (n - piece[k]) + 1 \in DOMAIN q
             /\ Plays(q[(n - piece[k]) + 1]) /\ PartOf(q[(n - piece[k]) + 1], moves[k].of)
  <2>1. PICK p \in 1..n : p = piece[k]
    BY <1>6
  <2>2. PICK x : x = q[(n - p) + 1]
    OBVIOUS
  <2>3. place[k] \in DOMAIN pieces[p] /\ moves[k] = pieces[p][place[k]] /\ EndsOf(pieces[p], x)
    BY <1>6, <2>1, <2>2
  <2>4. moves[k].to = "Ended" /\ PartOf(x, moves[k].of) /\ Plays(x) /\ Plays(moves[k].of)
    BY <2>3 DEF EndsOf
  <2>5. (n - p) + 1 \in DOMAIN q
    BY <1>2, <2>1
  <2> QED
    BY <2>1, <2>2, <2>4, <2>5
<1>8. ASSUME NEW i \in 1..n, Plays(q[i]), NEW y, PartOf(q[i], y), Plays(y)
      PROVE  \E l \in 1..Len(moves) : moves[l].of = y /\ piece[l] = (n - i) + 1
  <2>1. PICK p \in 1..n : p = (n - i) + 1 /\ (n - p) + 1 = i
    BY <1>2
  <2>2. EndsOf(pieces[p], q[i])
    BY <1>1, <2>1
  <2>3. PICK r \in DOMAIN pieces[p] : pieces[p][r].of = y
    BY <1>8, <2>2 DEF EndsOf, Touches
  <2>4. PICK l \in DOMAIN moves : piece[l] = p /\ place[l] = r
    BY <1>5, <2>3 DEF Laid
  <2>5. l \in 1..Len(moves) /\ moves[l].of = y
    BY <1>4, <1>6, <2>3, <2>4
  <2> QED
    BY <2>1, <2>4, <2>5
<1>9. ASSUME NEW k \in 1..Len(moves), NEW i \in DOMAIN q, NEW j \in DOMAIN q, i < j,
             moves[k].of = q[i], Plays(q[j])
      PROVE  \E l \in 1..(k - 1) : moves[l].of = q[j]
  <2>1. (n - piece[k]) + 1 = i
    <3>1. PICK m : m = (n - piece[k]) + 1
      OBVIOUS
    <3>2. m \in DOMAIN q /\ PartOf(q[m], moves[k].of)
      BY <1>7, <3>1
    <3>3. PartOf(q[m], q[i])
      BY <1>9, <3>2
    <3>4. m = i
      BY <1>9, <3>2, <3>3
    <3> QED
      BY <3>1, <3>4
  <2>2. PartOf(q[j], q[j])
    BY DEF PartOf
  <2>3. PICK l \in 1..Len(moves) : moves[l].of = q[j] /\ piece[l] = (n - j) + 1
    BY <1>2, <1>8, <1>9, <2>2
  <2>4. piece[l] < piece[k] /\ piece[l] \in Nat /\ piece[k] \in Nat
    <3>1. piece[k] \in 1..n /\ piece[l] \in 1..n /\ i \in 1..n /\ j \in 1..n
      BY <1>2, <1>6, <2>3
    <3>2. \A m \in Nat : \A e, f, u, v \in 1..m :
              e < f /\ (m - u) + 1 = e /\ v = (m - f) + 1 => v < u /\ u \in Nat /\ v \in Nat
      OBVIOUS
    <3>3. i < j
      BY <1>9
    <3>4. n \in Nat
      BY <1>2
    <3> QED
      BY <2>1, <2>3, <3>1, <3>2, <3>3, <3>4
  <2>5. k < l => piece[k] < piece[l] \/ piece[k] = piece[l]
    BY <1>4, <1>5 DEF Laid
  <2>6. l \in Nat /\ k \in Nat /\ l # 0
    BY <1>4, <2>3
  <2>6a. ~(piece[k] < piece[l]) /\ piece[k] # piece[l]
    <3>1. \A u, v \in Nat : v < u => ~(u < v) /\ u # v
      OBVIOUS
    <3> QED
      BY <2>4, <3>1
  <2>6b. ~(k < l) /\ k # l
    BY <2>5, <2>6a
  <2>7. l \in 1..(k - 1)
    BY <2>6, <2>6b
  <2> QED
    BY <2>3, <2>7
<1>10. EndsAll(moves, q)
  <2>1. \A i \in DOMAIN q : Plays(q[i]) =>
          \A y : PartOf(q[i], y) /\ Plays(y) => Touches(moves, y)
    <3>1. SUFFICES ASSUME NEW i \in 1..n, Plays(q[i]), NEW y, PartOf(q[i], y), Plays(y)
                   PROVE  Touches(moves, y)
      BY <1>2
    <3>2. PICK l \in 1..Len(moves) : moves[l].of = y
      BY <1>8, <3>1
    <3> QED
      BY <1>4, <3>2 DEF Touches
  <2>2. \A k \in 1..Len(moves) :
          /\ moves[k].to = "Ended" /\ Plays(moves[k].of)
          /\ \E i \in DOMAIN q : Plays(q[i]) /\ PartOf(q[i], moves[k].of)
    BY <1>7
  <2> QED
    BY <1>9, <2>1, <2>2 DEF EndsAll
<1> QED
  BY <1>3, <1>4, <1>10

LEMMA EndActorsDo ==
    ASSUME LifecycleTypeOK, NEW q \in Seq(Actors), Differ(q, DOMAIN q)
    PROVE  EndActors(q) \in Seq(Steps) /\ EndsAll(EndActors(q), q)
<1> DEFINE back == Reverse(q)
           pieces == [i \in DOMAIN q |-> IF Resolves(back[i]) THEN EndSteps(back[i]) ELSE <<>>]
<1>1. /\ Len(q) \in Nat /\ DOMAIN q = 1..Len(q) /\ q \in Seq(Objects)
      /\ \A i \in 1..Len(q) : back[i] = q[(Len(q) - i) + 1] /\ back[i] \in Actors
  <2>1. Len(q) \in Nat /\ DOMAIN q = 1..Len(q) /\ q \in Seq(Objects)
    BY OfObjects, ObjectKinds
  <2>2. \A i \in 1..Len(q) : back[i] = q[(Len(q) - i) + 1]
    BY DEF Reverse
  <2>3. \A i \in 1..Len(q) : (Len(q) - i) + 1 \in 1..Len(q)
    BY <2>1
  <2> HIDE DEF back
  <2> QED
    BY <2>1, <2>2, <2>3
<1> HIDE DEF back
<1>2. ASSUME NEW i \in 1..Len(q)
      PROVE  pieces[i] \in Seq(Steps) /\ EndsOf(pieces[i], q[(Len(q) - i) + 1])
  <2>1. PICK a \in Actors : a = back[i] /\ a = q[(Len(q) - i) + 1]
    BY <1>1
  <2>2. pieces[i] = IF Resolves(a) THEN EndSteps(a) ELSE <<>>
    BY <1>1, <2>1
  <2> HIDE DEF pieces
  <2>3. CASE Resolves(a)
    <3>1. PICK moves : moves = EndSteps(a)
      OBVIOUS
    <3>2. /\ moves \in Seq(Steps)
          /\ \A r \in 1..Len(moves) :
                /\ moves[r].to = "Ended" /\ PartOf(a, moves[r].of) /\ lifecycle[a] = "Playing"
                /\ lifecycle[moves[r].of] = "Playing"
                /\ Resolves(a) => Resolves(moves[r].of)
          /\ lifecycle[a] = "Playing" =>
                \A x : PartOf(a, x) /\ (x = a \/ Plays(x)) => Touches(moves, x)
      BY <3>1, EndStepsDo
    <3>3. EndsOf(moves, a)
      BY <2>3, <3>2 DEF EndsOf, Plays
    <3> QED
      BY <2>1, <2>2, <2>3, <3>1, <3>2, <3>3
  <2>4. CASE ~Resolves(a)
    BY <2>1, <2>2, <2>4 DEF EndsOf, Plays
  <2> QED
    BY <2>3, <2>4
<1>3. pieces \in Seq(Seq(Steps)) /\ Len(pieces) = Len(q)
  <2>1. pieces = [i \in 1..Len(q) |-> pieces[i]]
    BY <1>1
  <2> HIDE DEF pieces
  <2> QED
    BY <1>1, <1>2, <2>1
<1>4. \A i, j \in DOMAIN q : PartOf(q[i], q[j]) => i = j
  BY LifecycleAssumption DEF LifecycleAssumption, Actors, LifecycleTypeOK, PartOf, Differ
<1>5. EndActors(q) = FlattenSeq(pieces)
  BY DEF EndActors, back
<1> HIDE DEF pieces
<1> QED
  BY <1>1, <1>2, <1>3, <1>4, <1>5, EndedInReverse

LEMMA DeinitializeDoes ==
    ASSUME LifecycleTypeOK, subsystems \in Seq(Subsystems), Differ(subsystems, DOMAIN subsystems)
    PROVE  DeinitializeSubsystems \in Seq(Steps) /\ EndsAll(DeinitializeSubsystems, subsystems)
<1>1. PICK q : q = subsystems /\ q \in Seq(Subsystems) /\ Differ(q, DOMAIN q)
  OBVIOUS
<1> DEFINE back == Reverse(q)
           pieces == [i \in DOMAIN q |-> DeinitializeSteps(back[i])]
<1>2. /\ Len(q) \in Nat /\ DOMAIN q = 1..Len(q) /\ q \in Seq(Objects)
      /\ \A i \in 1..Len(q) : back[i] = q[(Len(q) - i) + 1] /\ back[i] \in Objects
  <2>1. Len(q) \in Nat /\ DOMAIN q = 1..Len(q) /\ q \in Seq(Objects)
    BY <1>1, OfObjects, ObjectKinds
  <2>2. \A i \in 1..Len(q) : back[i] = q[(Len(q) - i) + 1]
    BY DEF Reverse
  <2>3. \A i \in 1..Len(q) : (Len(q) - i) + 1 \in 1..Len(q)
    BY <2>1
  <2> HIDE DEF back
  <2> QED
    BY <2>1, <2>2, <2>3
<1> HIDE DEF back
<1>3. \A i \in DOMAIN q : q[i] \in Subsystems /\ q[i] \notin Actors
  BY <1>1, LifecycleAssumption DEF LifecycleAssumption, Actors
<1>4. ASSUME NEW i \in 1..Len(q)
      PROVE  pieces[i] \in Seq(Steps) /\ EndsOf(pieces[i], q[(Len(q) - i) + 1])
  <2>1. PICK s \in Objects : s = back[i] /\ s = q[(Len(q) - i) + 1] /\ s \notin Actors
    BY <1>2, <1>3
  <2>2. pieces[i] = IF Plays(s) THEN <<Hook(s, "Ended")>> ELSE <<>>
    BY <1>2, <2>1 DEF DeinitializeSteps
  <2> HIDE DEF pieces
  <2>3. CASE Plays(s)
    <3> DEFINE hook == <<Hook(s, "Ended")>>
    <3>1. /\ hook \in Seq(Steps) /\ DOMAIN hook = 1..1
          /\ \A r \in 1..1 : hook[r].of = s /\ hook[r].to = "Ended"
      BY OneStepIs, PhasesAre
    <3> HIDE DEF hook
    <3>2. Touches(hook, s) /\ 1 \in DOMAIN hook
      BY <3>1 DEF Touches
    <3>3. EndsOf(hook, s)
      BY <2>1, <2>3, <3>1, <3>2 DEF EndsOf, PartOf
    <3>4. pieces[i] = hook
      BY <2>2, <2>3 DEF hook
    <3> QED
      BY <2>1, <3>1, <3>3, <3>4
  <2>4. CASE ~Plays(s)
    BY <2>1, <2>2, <2>4 DEF EndsOf
  <2> QED
    BY <2>3, <2>4
<1>5. pieces \in Seq(Seq(Steps)) /\ Len(pieces) = Len(q)
  <2>1. pieces = [i \in 1..Len(q) |-> pieces[i]]
    BY <1>2
  <2> HIDE DEF pieces
  <2> QED
    BY <1>2, <1>4, <2>1
<1>6. \A i, j \in DOMAIN q : PartOf(q[i], q[j]) => i = j
  BY <1>1, <1>3 DEF PartOf, Differ
<1>7. DeinitializeSubsystems = FlattenSeq(pieces)
  BY <1>1 DEF DeinitializeSubsystems, back
<1> HIDE DEF pieces
<1> QED
  BY <1>1, <1>2, <1>4, <1>5, <1>6, <1>7, EndedInReverse
-----------------------------------------------------------------------------
(***************************************************************************)
(* What is in play once the call has made its moves, the fresh objects     *)
(* that never were, and the invariant about them: no component has two     *)
(* owners, and one without an owner is fresh, like what is not yet born;   *)
(* when its moves are made no call leaves an actor half in play; what is   *)
(* in play is registered; and at each stage of a call only that much is in *)
(* play as has begun.                                                      *)
(***************************************************************************)
Mains == Actors \cup Subsystems

OutOf(moves) == {x \in Objects : Resolves(x) /\ OutAt(moves, Len(moves), x)}
InPlay == OutOf(agenda)
Fresh == {x \in Objects : lifecycle[x] = "Constructed" /\ ~Touches(agenda, x)}

Owned(c) == \E a \in Actors : \E j \in DOMAIN components[a] : components[a][j] = c

OwnershipSound ==
    /\ \A a, b \in Actors : \A i \in DOMAIN components[a], j \in DOMAIN components[b] :
          components[a][i] = components[b][j] => a = b /\ i = j
    /\ \A x \in Objects : object[x] = "Unborn" =>
          x \in Fresh /\ ~Owned(x) /\ (x \in Actors => components[x] = <<>>)
    /\ \A c \in Components : c \in Fresh \/ Owned(c)
    /\ \A a \in Actors \ Loseable : object[a] = "Dead" =>
          \A j \in DOMAIN components[a] : ~Resolves(components[a][j])

IsWhole(S, a) ==
    \A j \in DOMAIN components[a] :
        Resolves(components[a][j]) => (components[a][j] \in S <=> a \in S)

WholeActors == \A a \in Actors : Resolves(a) => IsWhole(InPlay, a)

Begun ==
    \/ worldState = "Constructed" \/ call.stage = "Subsystems"
    \/ call.op = "BeginPlay" /\ call.stage \in {"Construct", "Factory"}

GaveUp == call.stage = "Failed" \/ worldState \in {"Failed", "Ended"}

PlaySound ==
    /\ Differ(subsystems, DOMAIN subsystems)
    /\ call.op # "None" /\ call.stage # "Return" => worldState = "Playing"
    /\ call.stage \in {"EndDoomed", "BeginSpawns"} => call.op = "ApplyPending"
    /\ InPlay \cap Actors \subseteq ToSet(registered)
    /\ InPlay \cap Subsystems \subseteq ToSet(subsystems)
    /\ Begun \/ GaveUp => InPlay \cap Mains = {}
    /\ call.stage \in {"Actors", "FailWorld"} => InPlay \cap Actors = {}
    /\ call.stage = "RollbackActors" =>
          \A i \in DOMAIN registered : registered[i] \in InPlay => i <= call.at

PlayInvariant == OwnershipSound /\ WholeActors /\ PlaySound

Playing == {x \in Objects : Plays(x)}

\* Moves that a call may make: of objects that resolve, the components among them owned.
Proper(moves) ==
    /\ moves \in Seq(Steps)
    /\ \A i \in 1..Len(moves) : Resolves(moves[i].of) /\ \E y \in Mains : PartOf(y, moves[i].of)

LEMMA MainsAre ==
    /\ Actors \subseteq Objects /\ Subsystems \subseteq Objects /\ Components \subseteq Objects
    /\ Actors \cap Subsystems = {} /\ Actors \cap Components = {}
    /\ Subsystems \cap Components = {} /\ Mains \subseteq Objects
    /\ \A x \in Objects : x \in Mains \/ x \in Components
  BY LifecycleAssumption DEF LifecycleAssumption, Actors, Objects, Mains

LEMMA AtRest ==
    ASSUME agenda = <<>>
    PROVE  InPlay = Playing /\ Fresh = {x \in Objects : lifecycle[x] = "Constructed"}
<1>1. Len(agenda) = 0 /\ DOMAIN agenda = {} /\ 1..0 = {}
  OBVIOUS
<1>2. \A x : OutAt(agenda, Len(agenda), x) <=> lifecycle[x] = "Playing"
  BY <1>1 DEF OutAt
<1>3. \A x : ~Touches(agenda, x)
  BY <1>1 DEF Touches
<1> QED
  BY <1>2, <1>3 DEF InPlay, OutOf, Playing, Plays, Fresh

(* Where no object changes, and no agenda, nothing changes for play. *)
LEMMA StillStep ==
    ASSUME UNCHANGED <<lifecycle, object, components, agenda>>
    PROVE  /\ InPlay' = InPlay /\ Fresh' = Fresh
           /\ OwnershipSound => OwnershipSound'
           /\ WholeActors => WholeActors'
<1>1. /\ InPlay' = InPlay
  BY DEF InPlay, OutOf, OutAt, Resolves
<1>2. Fresh' = Fresh
  BY DEF Fresh, Touches
<1>3. ASSUME OwnershipSound PROVE OwnershipSound'
  BY <1>2, <1>3 DEF OwnershipSound, Owned, Resolves
<1>4. ASSUME WholeActors PROVE WholeActors'
  BY <1>1, <1>4 DEF WholeActors, IsWhole, Resolves
<1> QED
  BY <1>1, <1>2, <1>3, <1>4

LEMMA DispatchDoes ==
    ASSUME agenda = <<>>, NEW moves, Dispatch(moves), Proper(moves), OwnershipSound,
           \A a \in Actors : Resolves(a) => IsWhole(OutOf(moves), a)
    PROVE  /\ InPlay' = OutOf(moves) /\ OwnershipSound' /\ WholeActors'
           /\ \A x \in Fresh : ~Touches(moves, x) => x \in Fresh'
<1>1. agenda' = moves /\ UNCHANGED <<lifecycle, object, components>>
  BY DEF Dispatch
<1>2. InPlay' = OutOf(moves)
  BY <1>1 DEF InPlay, OutOf, OutAt, Resolves
<1>3. \A x \in Fresh : ~Touches(moves, x) => x \in Fresh'
  BY <1>1 DEF Fresh, Touches
<1>4. WholeActors'
  BY <1>1, <1>2 DEF WholeActors, IsWhole, Resolves
<1>5. ASSUME NEW x, Touches(moves, x)
      PROVE  Resolves(x) /\ \E y \in Mains : PartOf(y, x)
  <2>1. PICK i \in 1..Len(moves) : moves[i].of = x
    BY <1>5 DEF Touches, Proper
  <2> QED
    BY <2>1 DEF Proper
<1>6. OwnershipSound'
  <2>1. ASSUME NEW x \in Objects, object[x] = "Unborn" PROVE x \in Fresh'
    BY <1>3, <1>5, <2>1 DEF Resolves, OwnershipSound
  <2>2. ASSUME NEW c \in Components, ~Owned(c) PROVE c \in Fresh'
    <3>1. ASSUME Touches(moves, c) PROVE FALSE
      <4>1. PICK y \in Mains : PartOf(y, c)
        BY <1>5, <3>1
      <4>2. y # c
        BY <2>2, <4>1, MainsAre DEF Mains
      <4> QED
        BY <2>2, <4>1, <4>2 DEF PartOf, Owned
    <3> QED
      BY <1>3, <2>2, <3>1 DEF OwnershipSound
  <2>3. \A x : Owned(x)' <=> Owned(x)
    BY <1>1 DEF Owned
  <2> QED
    BY <1>1, <2>1, <2>2, <2>3 DEF OwnershipSound, Resolves
<1> QED
  BY <1>2, <1>3, <1>4, <1>6

-----------------------------------------------------------------------------
(* What a batch of moves makes of an actor and its components together.    *)

LEMMA OneOwner ==
    ASSUME LifecycleTypeOK, OwnershipSound, NEW a \in Actors, NEW b \in Actors,
           NEW x \in Components \cup Actors, PartOf(a, x), PartOf(b, x)
    PROVE  a = b
<1>1. \A d \in Actors : \A j \in DOMAIN components[d] : components[d][j] \in Components
  BY DEF LifecycleTypeOK
<1>2. CASE x \in Actors
  BY <1>1, <1>2, MainsAre DEF PartOf
<1>3. CASE x \in Components
  <2>1. PICK i \in DOMAIN components[a] : components[a][i] = x
    BY <1>3, MainsAre DEF PartOf
  <2>2. PICK j \in DOMAIN components[b] : components[b][j] = x
    BY <1>3, MainsAre DEF PartOf
  <2> QED
    BY <2>1, <2>2 DEF OwnershipSound
<1> QED
  BY <1>2, <1>3

LEMMA EndsKeepWhole ==
    ASSUME LifecycleTypeOK, OwnershipSound, \A a \in Actors : Resolves(a) => IsWhole(Playing, a),
           NEW q \in Seq(Mains), NEW moves \in Seq(Steps), EndsAll(moves, q)
    PROVE  /\ Proper(moves)
           /\ \A a \in Actors : Resolves(a) => IsWhole(OutOf(moves), a)
           /\ OutOf(moves) \subseteq Playing
           /\ \A i \in DOMAIN q : q[i] \notin OutOf(moves)
<1>1. Len(moves) \in Nat /\ DOMAIN moves = 1..Len(moves)
  BY MovesAre
<1>2. ASSUME NEW k \in 1..Len(moves)
      PROVE  /\ moves[k].to # "Playing" /\ Resolves(moves[k].of)
             /\ \E i \in DOMAIN q : Plays(q[i]) /\ PartOf(q[i], moves[k].of)
  BY DEF EndsAll, Plays
<1>3. \A i \in DOMAIN q : q[i] \in Mains
  OBVIOUS
<1>4. Proper(moves)
  BY <1>2, <1>3 DEF Proper
<1>5. \A x \in Objects : x \in OutOf(moves) <=> x \in Playing /\ ~Touches(moves, x)
  <2>1. ASSUME NEW x
        PROVE  OutAt(moves, Len(moves), x) <=>
                  lifecycle[x] = "Playing" /\ \A i \in 1..Len(moves) : moves[i].of # x
    BY <1>1, <1>2, EndingOut
  <2>2. \A x : Touches(moves, x) <=> \E i \in 1..Len(moves) : moves[i].of = x
    BY <1>1 DEF Touches
  <2> QED
    BY <2>1, <2>2 DEF OutOf, Playing, Plays
<1>6. ASSUME NEW i \in DOMAIN q PROVE q[i] \notin OutOf(moves)
  BY <1>5 DEF EndsAll, PartOf, Playing, OutOf
<1>7. ASSUME NEW a \in Actors, Resolves(a) PROVE IsWhole(OutOf(moves), a)
  <2>1. SUFFICES ASSUME NEW j \in DOMAIN components[a], NEW c, c = components[a][j], Resolves(c)
                 PROVE  c \in OutOf(moves) <=> a \in OutOf(moves)
    BY DEF IsWhole
  <2>2. c \in Components /\ c \in Objects /\ a \in Objects /\ PartOf(a, c) /\ PartOf(a, a)
    BY <2>1, MainsAre DEF LifecycleTypeOK, PartOf
  <2>3. c \in Playing <=> a \in Playing
    BY <1>7, <2>1 DEF IsWhole
  <2>4. ASSUME NEW x, x = a \/ x = c, Touches(moves, x)
        PROVE  \E i \in DOMAIN q : q[i] = a /\ Plays(a)
    <3>1. PICK k \in 1..Len(moves) : moves[k].of = x
      BY <1>1, <2>4 DEF Touches
    <3>2. PICK i \in DOMAIN q : Plays(q[i]) /\ PartOf(q[i], x)
      BY <1>2, <3>1
    <3>3. q[i] \in Actors
      BY <1>3, <2>2, <2>4, <3>2, MainsAre DEF Mains, PartOf
    <3>4. q[i] = a
      BY <2>2, <2>4, <3>2, <3>3, OneOwner
    <3> QED
      BY <3>2, <3>4
  <2>5. ASSUME NEW i \in DOMAIN q, q[i] = a, Plays(a)
        PROVE  Touches(moves, a) /\ (Plays(c) => Touches(moves, c))
    BY <2>2, <2>5 DEF EndsAll
  <2>6. c \in Playing => Plays(c)
    BY DEF Playing
  <2>7. Touches(moves, a) \/ Touches(moves, c) => a \notin OutOf(moves) /\ c \notin OutOf(moves)
    <3>1. SUFFICES ASSUME Touches(moves, a) \/ Touches(moves, c)
                   PROVE  a \notin OutOf(moves) /\ c \notin OutOf(moves)
      OBVIOUS
    <3>2. PICK i \in DOMAIN q : q[i] = a /\ Plays(a)
      BY <2>4, <3>1
    <3>3. Touches(moves, a) /\ (Plays(c) => Touches(moves, c))
      BY <2>5, <3>2
    <3> QED
      BY <1>5, <2>2, <2>6, <3>3
  <2>8. /\ a \in OutOf(moves) <=> a \in Playing /\ ~Touches(moves, a)
        /\ c \in OutOf(moves) <=> c \in Playing /\ ~Touches(moves, c)
    BY <1>5, <2>2
  <2> QED
    BY <2>3, <2>7, <2>8
<1>8. OutOf(moves) \subseteq Playing
  BY <1>5 DEF OutOf
<1> QED
  BY <1>4, <1>6, <1>7, <1>8

\* Actors end, and then the subsystems: all together from last to first.
LEMMA EndsJoined ==
    ASSUME LifecycleTypeOK, NEW q \in Seq(Actors), NEW r \in Seq(Subsystems),
           NEW m \in Seq(Steps), NEW n \in Seq(Steps), EndsAll(m, q), EndsAll(n, r)
    PROVE  m \o n \in Seq(Steps) /\ r \o q \in Seq(Mains) /\ EndsAll(m \o n, r \o q)
<1> DEFINE moves == m \o n
           all == r \o q
<1>1. /\ m \o n \in Seq(Steps) /\ r \o q \in Seq(Mains)
      /\ IsJoined(moves, m, n) /\ IsJoined(all, r, q)
      /\ DOMAIN all = 1..Len(all) /\ DOMAIN moves = 1..Len(moves)
      /\ DOMAIN q = 1..Len(q) /\ DOMAIN r = 1..Len(r)
      /\ DOMAIN m = 1..Len(m) /\ DOMAIN n = 1..Len(n)
  <2>1. q \in Seq(Mains) /\ r \in Seq(Mains)
    BY OfObjects DEF Mains
  <2>2. moves \in Seq(Steps) /\ IsJoined(moves, m, n)
    BY Joined
  <2>3. all \in Seq(Mains) /\ IsJoined(all, r, q)
    BY <2>1, Joined
  <2> HIDE DEF moves, all
  <2> QED
    BY <2>2, <2>3 DEF moves, all
<1> HIDE DEF moves, all
<1>2. /\ Len(m) \in Nat /\ Len(n) \in Nat /\ Len(moves) = Len(m) + Len(n)
      /\ \A k \in 1..Len(m) : moves[k] = m[k] /\ k \in 1..Len(moves)
      /\ \A k \in 1..Len(n) : moves[Len(m) + k] = n[k] /\ Len(m) + k \in 1..Len(moves)
      /\ \A k \in 1..Len(moves) :
            \/ k \in 1..Len(m) /\ moves[k] = m[k]
            \/ k > Len(m) /\ k - Len(m) \in 1..Len(n) /\ moves[k] = n[k - Len(m)]
  BY <1>1 DEF IsJoined
<1>3. /\ Len(r) \in Nat /\ Len(q) \in Nat /\ Len(all) = Len(r) + Len(q)
      /\ \A i \in 1..Len(r) : all[i] = r[i] /\ i \in 1..Len(all)
      /\ \A i \in 1..Len(q) : all[Len(r) + i] = q[i] /\ Len(r) + i \in 1..Len(all)
      /\ \A i \in 1..Len(all) :
            \/ i \in 1..Len(r) /\ all[i] = r[i]
            \/ i > Len(r) /\ i - Len(r) \in 1..Len(q) /\ all[i] = q[i - Len(r)]
  BY <1>1 DEF IsJoined
<1>4. /\ \A i \in 1..Len(r) : r[i] \in Subsystems /\ r[i] \notin Actors
      /\ \A i \in 1..Len(q) : q[i] \in Actors /\ q[i] \notin Subsystems
  BY <1>1, MainsAre
<1>5. ASSUME NEW k \in 1..Len(m)
      PROVE  /\ m[k].to = "Ended" /\ Plays(m[k].of) /\ m[k].of \notin Subsystems
             /\ \E i \in 1..Len(q) : Plays(q[i]) /\ PartOf(q[i], m[k].of)
  <2>1. /\ m[k].to = "Ended" /\ Plays(m[k].of)
        /\ \E i \in 1..Len(q) : Plays(q[i]) /\ PartOf(q[i], m[k].of)
    BY <1>1 DEF EndsAll
  <2>2. PICK i \in 1..Len(q) : PartOf(q[i], m[k].of)
    BY <2>1
  <2>3. m[k].of \notin Subsystems
    BY <1>4, <2>2, MainsAre DEF LifecycleTypeOK, PartOf
  <2> QED
    BY <2>1, <2>3
<1>6. ASSUME NEW k \in 1..Len(n)
      PROVE  /\ n[k].to = "Ended" /\ Plays(n[k].of) /\ n[k].of \notin Actors
             /\ \E i \in 1..Len(r) : Plays(r[i]) /\ PartOf(r[i], n[k].of)
  BY <1>1, <1>4 DEF EndsAll, PartOf
<1>7. ASSUME NEW k \in 1..Len(moves)
      PROVE  /\ moves[k].to = "Ended" /\ Plays(moves[k].of)
             /\ \E i \in DOMAIN all : Plays(all[i]) /\ PartOf(all[i], moves[k].of)
  <2>1. CASE k \in 1..Len(m) /\ moves[k] = m[k]
    <3>1. PICK i \in 1..Len(q) : Plays(q[i]) /\ PartOf(q[i], m[k].of)
      BY <1>5, <2>1
    <3>2. Len(r) + i \in DOMAIN all /\ all[Len(r) + i] = q[i]
      BY <1>1, <1>3
    <3> QED
      BY <1>5, <2>1, <3>1, <3>2
  <2>2. CASE k > Len(m) /\ k - Len(m) \in 1..Len(n) /\ moves[k] = n[k - Len(m)]
    <3>1. PICK l \in 1..Len(n) : moves[k] = n[l]
      BY <2>2
    <3>2. PICK i \in 1..Len(r) : Plays(r[i]) /\ PartOf(r[i], n[l].of)
      BY <1>6
    <3>3. i \in DOMAIN all /\ all[i] = r[i]
      BY <1>1, <1>3
    <3> QED
      BY <1>6, <3>1, <3>2, <3>3
  <2> QED
    BY <1>2, <2>1, <2>2
<1>8. ASSUME NEW i \in DOMAIN all, Plays(all[i]), NEW y, PartOf(all[i], y), Plays(y)
      PROVE  Touches(moves, y)
  <2>1. CASE i \in 1..Len(r) /\ all[i] = r[i]
    <3>1. PICK l \in 1..Len(n) : n[l].of = y
      BY <1>1, <1>8, <2>1 DEF EndsAll, Touches
    <3> QED
      BY <1>1, <1>2, <3>1 DEF Touches
  <2>2. CASE i - Len(r) \in 1..Len(q) /\ all[i] = q[i - Len(r)]
    <3>1. PICK l \in 1..Len(m) : m[l].of = y
      BY <1>1, <1>8, <2>2 DEF EndsAll, Touches
    <3> QED
      BY <1>1, <1>2, <3>1 DEF Touches
  <2> QED
    BY <1>1, <1>3, <2>1, <2>2
<1>9. ASSUME NEW k \in 1..Len(moves), NEW i \in DOMAIN all, NEW j \in DOMAIN all, i < j,
             moves[k].of = all[i], Plays(all[j])
      PROVE  \E l \in 1..(k - 1) : moves[l].of = all[j]
  <2>0. /\ \A l \in 1..Len(m) : \A e, f \in 1..Len(q) : e < f /\ m[l].of = q[e] /\ Plays(q[f]) =>
              \E h \in 1..(l - 1) : m[h].of = q[f]
        /\ \A l \in 1..Len(n) : \A e, f \in 1..Len(r) : e < f /\ n[l].of = r[e] /\ Plays(r[f]) =>
              \E h \in 1..(l - 1) : n[h].of = r[f]
        /\ \A f \in 1..Len(q) : Plays(q[f]) => Touches(m, q[f])
    <3>1. DOMAIN q = 1..Len(q) /\ DOMAIN r = 1..Len(r)
      BY <1>1
    <3>2. \A f \in 1..Len(q) : Plays(q[f]) => Touches(m, q[f])
      BY <3>1 DEF EndsAll, PartOf
    <3>3. ASSUME NEW l \in 1..Len(m), NEW e \in 1..Len(q), NEW f \in 1..Len(q),
                 e < f, m[l].of = q[e], Plays(q[f])
          PROVE  \E h \in 1..(l - 1) : m[h].of = q[f]
      <4>1. e \in DOMAIN q /\ f \in DOMAIN q
        BY <3>1
      <4> QED
        BY <3>3, <4>1 DEF EndsAll
    <3>4. ASSUME NEW l \in 1..Len(n), NEW e \in 1..Len(r), NEW f \in 1..Len(r),
                 e < f, n[l].of = r[e], Plays(r[f])
          PROVE  \E h \in 1..(l - 1) : n[h].of = r[f]
      <4>1. e \in DOMAIN r /\ f \in DOMAIN r
        BY <3>1
      <4> QED
        BY <3>4, <4>1 DEF EndsAll
    <3> QED
      BY <3>2, <3>3, <3>4
  <2>1. CASE k \in 1..Len(m) /\ moves[k] = m[k]
    <3>1. i > Len(r) /\ i - Len(r) \in 1..Len(q) /\ all[i] = q[i - Len(r)]
      BY <1>1, <1>3, <1>4, <1>5, <1>9, <2>1
    <3>2. PICK e \in 1..Len(q) : e = i - Len(r) /\ all[i] = q[e]
      BY <3>1
    <3>3. PICK f \in 1..Len(q) : f = j - Len(r) /\ all[j] = q[f]
      <4>1. j \in 1..Len(all) /\ i \in 1..Len(all) /\ i < j
        BY <1>1, <1>9
      <4>2. j > Len(r)
        BY <1>3, <3>1, <4>1
      <4>3. j - Len(r) \in 1..Len(q) /\ all[j] = q[j - Len(r)]
        BY <1>3, <4>1, <4>2
      <4> QED
        BY <4>3
    <3>4. e < f
      BY <1>1, <1>3, <1>9, <3>2, <3>3
    <3>5. PICK h \in 1..(k - 1) : m[h].of = q[f]
      BY <1>9, <2>0, <2>1, <3>2, <3>3, <3>4
    <3>6. h \in 1..Len(m)
      BY <1>2, <2>1
    <3> QED
      BY <1>2, <3>3, <3>5, <3>6
  <2>2. CASE k > Len(m) /\ k - Len(m) \in 1..Len(n) /\ moves[k] = n[k - Len(m)]
    <3>1. PICK l \in 1..Len(n) : l = k - Len(m) /\ moves[k] = n[l]
      BY <2>2
    <3>2. i \in 1..Len(r) /\ all[i] = r[i]
      BY <1>1, <1>3, <1>4, <1>6, <1>9, <3>1
    <3>3. CASE j \in 1..Len(r) /\ all[j] = r[j]
      <4>1. PICK h \in 1..(l - 1) : n[h].of = r[j]
        BY <1>9, <2>0, <3>1, <3>2, <3>3
      <4>2. h \in 1..Len(n) /\ Len(m) + h \in 1..(k - 1)
        BY <1>2, <3>1
      <4>3. moves[Len(m) + h] = n[h]
        BY <1>2, <4>2
      <4> QED
        BY <3>3, <4>1, <4>2, <4>3
    <3>4. CASE j - Len(r) \in 1..Len(q) /\ all[j] = q[j - Len(r)]
      <4>1. PICK h \in 1..Len(m) : m[h].of = all[j]
        BY <1>1, <1>9, <2>0, <3>4 DEF Touches
      <4>2. h \in 1..(k - 1)
        BY <1>2, <2>2
      <4> QED
        BY <1>2, <4>1, <4>2
    <3> QED
      BY <1>1, <1>3, <3>3, <3>4
  <2> QED
    BY <1>2, <2>1, <2>2
<1>10. EndsAll(moves, all)
  BY <1>7, <1>8, <1>9 DEF EndsAll
<1> QED
  BY <1>1, <1>10 DEF moves, all

LEMMA EndsOne ==
    ASSUME LifecycleTypeOK, NEW a \in Actors, NEW moves,
           moves = IF Resolves(a) THEN EndSteps(a) ELSE <<>>
    PROVE  moves \in Seq(Steps) /\ <<a>> \in Seq(Mains) /\ EndsAll(moves, <<a>>)
<1>1. /\ <<a>> \in Seq(Mains) /\ DOMAIN <<a>> = 1..1 /\ <<a>>[1] = a
      /\ \A i \in 1..1 : i = 1
  BY DEF Mains
<1>2. CASE Resolves(a)
  <2>1. moves = EndSteps(a)
    BY <1>2
  <2>2. /\ moves \in Seq(Steps)
        /\ \A r \in 1..Len(moves) :
              /\ moves[r].to = "Ended" /\ PartOf(a, moves[r].of) /\ lifecycle[a] = "Playing"
              /\ lifecycle[moves[r].of] = "Playing"
              /\ Resolves(a) => Resolves(moves[r].of)
        /\ lifecycle[a] = "Playing" =>
              \A x : PartOf(a, x) /\ (x = a \/ Plays(x)) => Touches(moves, x)
    BY <2>1, EndStepsDo
  <2>3. \A k \in 1..Len(moves) : moves[k].to = "Ended" /\ Plays(moves[k].of) /\ Plays(a)
    BY <1>2, <2>2 DEF Plays
  <2>4. Plays(a) => \A y : PartOf(a, y) /\ Plays(y) => Touches(moves, y)
    BY <2>2 DEF Plays
  <2> QED
    BY <1>1, <2>2, <2>3, <2>4 DEF EndsAll
<1>3. CASE ~Resolves(a)
  BY <1>1, <1>3 DEF Plays, EndsAll
<1> QED
  BY <1>2, <1>3

-----------------------------------------------------------------------------
(* Every registered actor in order, until one is not able.                 *)

IsInOrder(pieces, able, moves) ==
    /\ pieces \in Seq(Seq(Steps)) /\ DOMAIN pieces = 1..Len(pieces)
    /\ Len(pieces) = IF Prefix(registered, able) = registered THEN Len(registered)
                     ELSE Len(Prefix(registered, able)) + 1
    /\ \A i \in DOMAIN pieces :
          /\ i \in DOMAIN registered
          /\ pieces[i] = IF Resolves(registered[i]) THEN moves[registered[i]] ELSE <<>>

LEMMA DispatchedInOrder ==
    ASSUME registered \in Seq(Actors), NEW able, NEW moves \in [Actors -> Seq(Steps)]
    PROVE  \E pieces : /\ DispatchInOrder(able, moves) = FlattenSeq(pieces)
                       /\ IsInOrder(pieces, able, moves)
<1> DEFINE works == Prefix(registered, able)
           tried == IF works = registered THEN works
                    ELSE Append(works, registered[Len(works) + 1])
           pieces == [i \in DOMAIN tried |-> IF Resolves(tried[i]) THEN moves[tried[i]] ELSE <<>>]
<1>1. works \in Seq(Actors) /\ IsAblePart(registered, able, works)
  BY PrefixIs, PrefixAble
<1>2. DispatchInOrder(able, moves) = FlattenSeq(pieces)
  BY DEF DispatchInOrder
<1> HIDE DEF works
<1>3. /\ Len(works) \in 0..Len(registered) /\ Len(registered) \in Nat
      /\ DOMAIN registered = 1..Len(registered)
      /\ \A i \in 1..Len(works) : works[i] = registered[i]
      /\ works = registered <=> Len(works) = Len(registered)
      /\ \A i \in 1..Len(registered) : registered[i] \in Actors
  BY <1>1 DEF IsAblePart
<1>4. /\ tried \in Seq(Actors) /\ Len(tried) \in Nat /\ DOMAIN tried = 1..Len(tried)
      /\ Len(tried) = IF works = registered THEN Len(registered) ELSE Len(works) + 1
      /\ \A i \in 1..Len(tried) : i \in DOMAIN registered /\ tried[i] = registered[i]
  <2>1. CASE works = registered
    BY <1>1, <1>3, <2>1
  <2>2. CASE works # registered
    <3>1. PICK a \in Actors : a = registered[Len(works) + 1] /\ tried = Append(works, a)
      BY <1>3, <2>2
    <3> HIDE DEF tried
    <3>2. /\ tried \in Seq(Actors) /\ Len(tried) = Len(works) + 1
          /\ \A i \in 1..Len(works) : tried[i] = works[i]
          /\ tried[Len(works) + 1] = a
      BY <1>1, <3>1
    <3>3. \A i \in 1..Len(tried) : i \in 1..Len(works) \/ i = Len(works) + 1
      BY <1>3, <3>2
    <3> QED
      BY <1>3, <2>2, <3>1, <3>2, <3>3
  <2> QED
    BY <2>1, <2>2
<1> HIDE DEF tried
<1>5. \A i \in 1..Len(tried) : pieces[i] \in Seq(Steps)
  BY <1>3, <1>4, NoSteps
<1>6. pieces \in Seq(Seq(Steps)) /\ Len(pieces) = Len(tried) /\ DOMAIN pieces = 1..Len(pieces)
  <2>1. pieces = [i \in 1..Len(tried) |-> pieces[i]]
    BY <1>4
  <2> HIDE DEF pieces
  <2>2. PICK n : n = Len(tried) /\ n \in Nat
    BY <1>4
  <2>3. pieces = [i \in 1..n |-> pieces[i]] /\ \A i \in 1..n : pieces[i] \in Seq(Steps)
    BY <1>5, <2>1, <2>2
  <2>4. pieces \in [1..n -> Seq(Steps)]
    BY <2>3
  <2>5. pieces \in Seq(Seq(Steps)) /\ Len(pieces) = n
    BY <2>2, <2>4
  <2> QED
    BY <2>2, <2>5
<1>7. \A i \in DOMAIN pieces :
        /\ i \in DOMAIN registered
        /\ pieces[i] = IF Resolves(registered[i]) THEN moves[registered[i]] ELSE <<>>
  BY <1>4, <1>6
<1> HIDE DEF pieces
<1>8. IsInOrder(pieces, able, moves)
  BY <1>4, <1>6, <1>7 DEF IsInOrder, works
<1> QED
  BY <1>2, <1>8

\* A frame moves only what is in play, and leaves it there.
LEMMA AdvanceDoes ==
    ASSUME LifecycleTypeOK, registered \in Seq(Actors), NEW moves,
           moves = DispatchInOrder(ActorsThatAdvance, [a \in Actors |-> AdvanceSteps(a)])
    PROVE  Proper(moves) /\ OutOf(moves) = Playing
<1> DEFINE each == [a \in Actors |-> AdvanceSteps(a)]
<1>1. each \in [Actors -> Seq(Steps)] /\ \A a \in Actors : each[a] = AdvanceSteps(a)
  BY AdvanceStepsTyped
<1> HIDE DEF each
<1>2. PICK pieces : moves = FlattenSeq(pieces) /\ IsInOrder(pieces, ActorsThatAdvance, each)
  BY <1>1, DispatchedInOrder DEF each
<1>3. /\ pieces \in Seq(Seq(Steps)) /\ moves \in Seq(Steps)
      /\ Len(moves) \in Nat /\ DOMAIN moves = 1..Len(moves)
  BY <1>2, Flattened DEF IsInOrder
<1>4. PICK piece, place : Laid(pieces, Len(pieces), moves, piece, place)
  BY <1>2, <1>3, FlattenLaid
<1>5. ASSUME NEW k \in 1..Len(moves)
      PROVE  /\ moves[k].to = "Playing" /\ Resolves(moves[k].of)
             /\ lifecycle[moves[k].of] = "Playing"
             /\ \E y \in Mains : PartOf(y, moves[k].of)
  <2>1. /\ piece[k] \in DOMAIN pieces /\ place[k] \in DOMAIN pieces[piece[k]]
        /\ moves[k] = pieces[piece[k]][place[k]]
    BY <1>2, <1>3, <1>4 DEF Laid, IsInOrder
  <2>2. PICK i \in DOMAIN registered :
           pieces[piece[k]] = IF Resolves(registered[i]) THEN each[registered[i]] ELSE <<>>
    BY <1>2, <2>1 DEF IsInOrder
  <2>3. PICK a \in Actors : a = registered[i]
    OBVIOUS
  <2>4. DOMAIN <<>> = {}
    OBVIOUS
  <2>5. Resolves(a) /\ pieces[piece[k]] = AdvanceSteps(a)
    BY <1>1, <2>1, <2>2, <2>3, <2>4
  <2>6. PICK steps : steps = AdvanceSteps(a)
    OBVIOUS
  <2>7. /\ steps \in Seq(Steps)
        /\ \A r \in 1..Len(steps) :
              /\ steps[r].to = "Playing" /\ PartOf(a, steps[r].of)
              /\ lifecycle[steps[r].of] = "Playing"
              /\ Resolves(a) => Resolves(steps[r].of)
    BY <2>6, AdvanceStepsDo
  <2>8. place[k] \in 1..Len(steps) /\ moves[k] = steps[place[k]]
    BY <2>1, <2>5, <2>6, <2>7
  <2> QED
    BY <2>5, <2>7, <2>8 DEF Mains
<1>6. Proper(moves)
  BY <1>3, <1>5 DEF Proper
<1>7. \A x : OutAt(moves, Len(moves), x) <=> lifecycle[x] = "Playing"
  <2>1. ASSUME NEW x
        PROVE  OutAt(moves, Len(moves), x) <=>
                  lifecycle[x] = "Playing" \/ \E i \in 1..Len(moves) : moves[i].of = x
    BY <1>3, <1>5 DEF OutAt
  <2>2. \A i \in 1..Len(moves) : lifecycle[moves[i].of] = "Playing"
    BY <1>5
  <2>3. ASSUME NEW x PROVE (\E i \in 1..Len(moves) : moves[i].of = x) => lifecycle[x] = "Playing"
    BY <2>2
  <2> QED
    BY <2>1, <2>3
<1> QED
  BY <1>6, <1>7 DEF OutOf, Playing, Plays

\* An actor that begins, or fails to, brings its components along.
LEMMA BeginsWhole ==
    ASSUME LifecycleTypeOK, NEW a \in Actors, Resolves(a), IsWhole(Playing, a),
           NEW moves, moves = BeginSteps(a)
    PROVE  /\ moves \in Seq(Steps)
           /\ \A i \in 1..Len(moves) :
                 /\ Resolves(moves[i].of) /\ PartOf(a, moves[i].of)
                 /\ lifecycle[a] = "Constructed" /\ lifecycle[moves[i].of] = "Constructed"
                 /\ moves[i].of = a => moves[i].to # "Ended"
           /\ \A j \in DOMAIN components[a] : Resolves(components[a][j]) =>
                 (OutAt(moves, Len(moves), components[a][j]) <=> OutAt(moves, Len(moves), a))
           /\ ~BeginFails(a) => OutAt(moves, Len(moves), a)
           /\ BeginFails(a) => (OutAt(moves, Len(moves), a) <=> lifecycle[a] = "Playing")
<1>1. /\ moves \in Seq(Steps)
      /\ \A i \in 1..Len(moves) :
            /\ lifecycle[a] = "Constructed" /\ PartOf(a, moves[i].of)
            /\ lifecycle[moves[i].of] = "Constructed"
            /\ moves[i].of = a => moves[i].to # "Ended"
            /\ Resolves(a) => Resolves(moves[i].of)
      /\ ~BeginFails(a) =>
            /\ \A i \in 1..Len(moves) : moves[i].to = "Playing"
            /\ \A x : PartOf(a, x) => Touches(moves, x)
      /\ BeginFails(a) =>
            \A x : Touches(moves, x) => ~OutAt(moves, Len(moves), x)
  BY BeginStepsDo
<1>2. Len(moves) \in Nat /\ DOMAIN moves = 1..Len(moves) /\ a \in Objects
  BY <1>1, MovesAre, MainsAre
<1>3. PartOf(a, a) /\ \A j \in DOMAIN components[a] : PartOf(a, components[a][j])
  BY DEF PartOf
<1>4. ASSUME ~BeginFails(a), NEW x, PartOf(a, x) PROVE OutAt(moves, Len(moves), x)
  <2>1. PICK i \in 1..Len(moves) : moves[i].of = x
    BY <1>1, <1>2, <1>4 DEF Touches
  <2>2. \A k \in 1..Len(moves) : moves[k].to = "Playing"
    BY <1>1, <1>4
  <2> QED
    BY <2>1, <2>2 DEF OutAt
<1>5. ASSUME NEW x, ~Touches(moves, x)
      PROVE  OutAt(moves, Len(moves), x) <=> lifecycle[x] = "Playing"
  BY <1>2, <1>5 DEF Touches, OutAt
<1>6. \A j \in DOMAIN components[a] : Resolves(components[a][j]) =>
         (lifecycle[components[a][j]] = "Playing" <=> lifecycle[a] = "Playing")
  BY <1>2, MainsAre DEF IsWhole, Playing, Plays, LifecycleTypeOK
<1>7. ASSUME BeginFails(a), NEW x, PartOf(a, x),
                  lifecycle[x] = "Playing" <=> lifecycle[a] = "Playing"
      PROVE  OutAt(moves, Len(moves), x) <=> lifecycle[a] = "Playing"
  <2>1. CASE lifecycle[a] = "Constructed"
    BY <1>1, <1>5, <1>7, <2>1
  <2>2. CASE lifecycle[a] # "Constructed"
    BY <1>1, <1>2, <1>5, <1>7, <2>2 DEF Touches
  <2> QED
    BY <2>1, <2>2
<1>8. \A j \in DOMAIN components[a] : Resolves(components[a][j]) =>
         (OutAt(moves, Len(moves), components[a][j]) <=> OutAt(moves, Len(moves), a))
  BY <1>3, <1>4, <1>6, <1>7
<1>9. ~BeginFails(a) => OutAt(moves, Len(moves), a)
  BY <1>3, <1>4
<1>10. BeginFails(a) => (OutAt(moves, Len(moves), a) <=> lifecycle[a] = "Playing")
  BY <1>3, <1>7
<1> QED
  BY <1>1, <1>8, <1>9, <1>10

\* The first n registered actors begin.
BeginsFirst(moves, n) ==
    /\ Proper(moves)
    /\ \A k \in 1..Len(moves) : \E i \in DOMAIN registered : PartOf(registered[i], moves[k].of)
    /\ \A a \in Actors : Resolves(a) => IsWhole(OutOf(moves), a)
    /\ OutOf(moves) \cap Subsystems = Playing \cap Subsystems
    /\ \A a \in OutOf(moves) \cap Actors : \E i \in 1..n : registered[i] = a
    /\ \A i \in 1..n : registered[i] \in OutOf(moves)
    /\ \A k \in 1..Len(moves) : \A i \in DOMAIN registered : moves[k].of = registered[i] =>
          /\ moves[k].to # "Ended"
          /\ \A j \in 1..(i - 1) : Resolves(registered[j]) /\ OutAt(moves, k - 1, registered[j])

LEMMA BeginActorsDo ==
    ASSUME LifecycleTypeOK, registered \in Seq(Actors), Differ(registered, DOMAIN registered),
           OwnershipSound, \A a \in Actors : Resolves(a) => IsWhole(Playing, a),
           Playing \cap Actors = {}, NEW moves,
           moves = DispatchInOrder(ActorsThatBegin, [a \in Actors |-> BeginSteps(a)])
    PROVE  BeginsFirst(moves, Len(Prefix(registered, ActorsThatBegin)))
<1> DEFINE each == [a \in Actors |-> BeginSteps(a)]
<1>1. each \in [Actors -> Seq(Steps)] /\ \A a \in Actors : each[a] = BeginSteps(a)
  BY BeginStepsTyped
<1> HIDE DEF each
<1>2. PICK pieces : moves = FlattenSeq(pieces) /\ IsInOrder(pieces, ActorsThatBegin, each)
  BY <1>1, DispatchedInOrder DEF each
<1>3. PICK works : works = Prefix(registered, ActorsThatBegin)
  OBVIOUS
<1>4. PICK n : n = Len(works)
  OBVIOUS
<1>5. /\ n \in 0..Len(registered) /\ Len(registered) \in Nat
      /\ \A i \in 1..n : registered[i] \in ActorsThatBegin
      /\ works = registered <=> n = Len(registered)
      /\ n # Len(registered) => n + 1 \in DOMAIN registered
                                                     /\ registered[n + 1] \notin ActorsThatBegin
      /\ DOMAIN registered = 1..Len(registered)
      /\ \A i \in DOMAIN registered : registered[i] \in Actors
  BY <1>3, <1>4, PrefixAble DEF IsAblePart
<1>6. /\ pieces \in Seq(Seq(Steps)) /\ DOMAIN pieces = 1..Len(pieces) /\ Len(pieces) \in Nat
      /\ Len(pieces) = IF n = Len(registered) THEN n ELSE n + 1
      /\ \A i \in DOMAIN pieces :
            /\ i \in DOMAIN registered
            /\ pieces[i] = IF Resolves(registered[i]) THEN each[registered[i]] ELSE <<>>
  <2>1. /\ pieces \in Seq(Seq(Steps)) /\ DOMAIN pieces = 1..Len(pieces)
        /\ Len(pieces) = IF works = registered THEN Len(registered) ELSE n + 1
        /\ \A i \in DOMAIN pieces :
              /\ i \in DOMAIN registered
              /\ pieces[i] = IF Resolves(registered[i]) THEN each[registered[i]] ELSE <<>>
    BY <1>2, <1>3, <1>4 DEF IsInOrder
  <2>2. Len(pieces) = IF n = Len(registered) THEN n ELSE n + 1
    BY <1>5, <2>1
  <2>3. Len(pieces) \in Nat
    BY <2>1
  <2> QED
    BY <2>1, <2>2, <2>3
<1>6a. /\ n \in Nat /\ Len(pieces) \in Nat /\ Len(registered) \in Nat
       /\ n <= Len(pieces) /\ Len(pieces) <= n + 1 /\ n <= Len(registered)
  <2>1. n \in 0..Len(registered) /\ Len(registered) \in Nat
    BY <1>5
  <2>2. Len(pieces) = IF n = Len(registered) THEN n ELSE n + 1
    BY <1>6
  <2> QED
    BY <2>1, <2>2
<1>6b. /\ \A p : p \in DOMAIN pieces <=> p \in 1..Len(pieces)
       /\ \A p : p \in DOMAIN registered <=> p \in 1..Len(registered)
  BY <1>5, <1>6
<1>7. moves \in Seq(Steps) /\ Len(moves) \in Nat /\ DOMAIN moves = 1..Len(moves)
  BY <1>2, <1>6, Flattened
<1>8. PICK piece, place : Laid(pieces, Len(pieces), moves, piece, place)
  BY <1>2, <1>6, FlattenLaid
<1>9. ASSUME NEW p \in DOMAIN pieces, NEW a, a = registered[p], Resolves(a)
      PROVE  /\ a \in Actors /\ pieces[p] = BeginSteps(a)
             /\ \A i \in 1..Len(pieces[p]) :
                   /\ Resolves(pieces[p][i].of) /\ PartOf(a, pieces[p][i].of)
                   /\ pieces[p][i].of = a => pieces[p][i].to # "Ended"
             /\ \A j \in DOMAIN components[a] : Resolves(components[a][j]) =>
                   (OutAt(pieces[p], Len(pieces[p]), components[a][j]) <=>
                        OutAt(pieces[p], Len(pieces[p]), a))
             /\ OutAt(pieces[p], Len(pieces[p]), a) <=> p <= n
  <2>1. a \in Actors /\ pieces[p] = BeginSteps(a)
    BY <1>1, <1>5, <1>6, <1>9
  <2>2. PICK m : m = pieces[p] /\ m = BeginSteps(a)
    BY <2>1
  <2>3. /\ m \in Seq(Steps)
        /\ \A i \in 1..Len(m) :
              /\ Resolves(m[i].of) /\ PartOf(a, m[i].of)
              /\ lifecycle[a] = "Constructed" /\ lifecycle[m[i].of] = "Constructed"
              /\ m[i].of = a => m[i].to # "Ended"
        /\ \A j \in DOMAIN components[a] : Resolves(components[a][j]) =>
              (OutAt(m, Len(m), components[a][j]) <=> OutAt(m, Len(m), a))
        /\ ~BeginFails(a) => OutAt(m, Len(m), a)
        /\ BeginFails(a) => (OutAt(m, Len(m), a) <=> lifecycle[a] = "Playing")
    BY <1>9, <2>1, <2>2, BeginsWhole
  <2>4. lifecycle[a] # "Playing"
    BY <1>9, <2>1, MainsAre DEF Playing, Plays
  <2>5. ~BeginFails(a) <=> p <= n
    <3>1. p \in 1..Len(pieces) /\ n \in Nat
      BY <1>6a, <1>6b
    <3>2. p > n => p = n + 1 /\ n # Len(registered)
      BY <1>6, <3>1
    <3>3. a \in ActorsThatBegin <=> ~BeginFails(a)
      BY <1>9, <2>1 DEF ActorsThatBegin
    <3>4. p <= n => a \in ActorsThatBegin
      <4>1. p <= n => p \in 1..n
        BY <3>1
      <4> QED
        BY <1>5, <1>9, <4>1
    <3>5. p > n => a \notin ActorsThatBegin
      BY <1>5, <1>9, <3>2
    <3> QED
      BY <3>1, <3>3, <3>4, <3>5
  <2>6. OutAt(m, Len(m), a) <=> p <= n
    BY <2>3, <2>4, <2>5
  <2> QED
    BY <2>1, <2>2, <2>3, <2>6
<1>10. ASSUME NEW p \in DOMAIN pieces, NEW x, Touches(pieces[p], x)
       PROVE  /\ Resolves(registered[p]) /\ Resolves(x) /\ PartOf(registered[p], x)
              /\ registered[p] \in Actors /\ x \in Actors \cup Components
  <2>1. PICK i \in DOMAIN pieces[p] : pieces[p][i].of = x
    BY <1>10 DEF Touches
  <2>2. Resolves(registered[p])
    BY <1>6, <2>1
  <2>3. DOMAIN pieces[p] = 1..Len(pieces[p])
    BY <1>6
  <2>4. Resolves(x) /\ PartOf(registered[p], x) /\ registered[p] \in Actors
    BY <1>9, <2>1, <2>2, <2>3
  <2>5. x \in Actors \cup Components
    BY <2>4 DEF PartOf, LifecycleTypeOK
  <2> QED
    BY <2>2, <2>4, <2>5
<1>11. ASSUME NEW p \in DOMAIN pieces, NEW x \in Actors \cup Components, PartOf(registered[p], x),
              NEW r \in DOMAIN pieces, r # p
       PROVE  ~Touches(pieces[r], x)
  <2>1. registered[p] \in Actors /\ p \in DOMAIN registered /\ r \in DOMAIN registered
    BY <1>5, <1>6
  <2>2. ASSUME Touches(pieces[r], x) PROVE FALSE
    BY <1>10, <1>11, <2>1, <2>2, OneOwner DEF Differ
  <2> QED
    BY <2>2
<1>12. ASSUME NEW k \in 1..Len(moves)
       PROVE  /\ piece[k] \in DOMAIN pieces /\ place[k] \in DOMAIN pieces[piece[k]]
              /\ moves[k] = pieces[piece[k]][place[k]]
              /\ Touches(pieces[piece[k]], moves[k].of)
  <2>1. k \in DOMAIN moves /\ piece \in [DOMAIN moves -> 1..Len(pieces)]
    BY <1>7, <1>8 DEF Laid
  <2>2. piece[k] \in DOMAIN pieces
    BY <1>6, <2>1
  <2>3. place[k] \in DOMAIN pieces[piece[k]] /\ moves[k] = pieces[piece[k]][place[k]]
    BY <1>8, <2>1 DEF Laid
  <2> QED
    BY <2>2, <2>3 DEF Touches
<1>13. Proper(moves)
  BY <1>7, <1>10, <1>12 DEF Mains, Proper
<1>14. ASSUME NEW x, \A p \in DOMAIN pieces : ~Touches(pieces[p], x)
       PROVE  OutAt(moves, Len(moves), x) <=> lifecycle[x] = "Playing"
  BY <1>12, <1>14 DEF OutAt
<1>15. ASSUME NEW p \in DOMAIN pieces, NEW x \in Actors \cup Components, PartOf(registered[p], x),
              NEW k \in 0..Len(moves), \A l \in DOMAIN moves : piece[l] = p => l <= k
       PROVE  OutAt(moves, k, x) <=> OutAt(pieces[p], Len(pieces[p]), x)
  <2>1. \A r \in DOMAIN pieces : r # p => ~Touches(pieces[r], x)
    BY <1>11, <1>15
  <2>2. pieces \in Seq(Seq(Steps)) /\ moves \in Seq(Steps)
    BY <1>6, <1>7
  <2> QED
    BY <1>8, <1>15, <2>1, <2>2, FlattenOut
<1>15a. ASSUME NEW p \in DOMAIN pieces, NEW x \in Actors \cup Components, PartOf(registered[p], x)
        PROVE  OutAt(moves, Len(moves), x) <=> OutAt(pieces[p], Len(pieces[p]), x)
  BY <1>7, <1>15, <1>15a
<1>16. ASSUME NEW a \in Actors, \A p \in DOMAIN pieces : registered[p] # a,
              NEW x \in Actors \cup Components, PartOf(a, x)
       PROVE  OutAt(moves, Len(moves), x) <=> lifecycle[x] = "Playing"
  <2>1. ASSUME NEW p \in DOMAIN pieces, Touches(pieces[p], x) PROVE FALSE
    BY <1>10, <1>16, <2>1, OneOwner
  <2> QED
    BY <1>14, <2>1
<1>17. ASSUME NEW a \in Actors, Resolves(a) PROVE IsWhole(OutOf(moves), a)
  <2>1. SUFFICES ASSUME NEW j \in DOMAIN components[a], NEW c, c = components[a][j], Resolves(c)
                 PROVE  OutAt(moves, Len(moves), c) <=> OutAt(moves, Len(moves), a)
    BY <1>17, MainsAre DEF LifecycleTypeOK, IsWhole, OutOf
  <2>2. c \in Components /\ PartOf(a, c) /\ PartOf(a, a) /\ c \in Objects /\ a \in Objects
    BY <2>1, MainsAre DEF LifecycleTypeOK, PartOf
  <2>3. CASE \E p \in DOMAIN pieces : registered[p] = a
    <3>1. PICK p \in DOMAIN pieces : registered[p] = a
      BY <2>3
    <3>2. /\ OutAt(moves, Len(moves), c) <=> OutAt(pieces[p], Len(pieces[p]), c)
          /\ OutAt(moves, Len(moves), a) <=> OutAt(pieces[p], Len(pieces[p]), a)
      BY <1>15a, <2>2, <3>1
    <3>3. OutAt(pieces[p], Len(pieces[p]), c) <=> OutAt(pieces[p], Len(pieces[p]), a)
      BY <1>9, <1>17, <2>1, <3>1
    <3> QED
      BY <3>2, <3>3
  <2>4. CASE ~ \E p \in DOMAIN pieces : registered[p] = a
    BY <1>16, <1>17, <2>1, <2>2, <2>4 DEF IsWhole, Playing, Plays
  <2> QED
    BY <2>3, <2>4
<1>18. OutOf(moves) \cap Subsystems = Playing \cap Subsystems
  <2>1. ASSUME NEW s \in Subsystems
        PROVE  OutAt(moves, Len(moves), s) <=> lifecycle[s] = "Playing"
    BY <1>10, <1>14, MainsAre
  <2> QED
    BY <2>1 DEF OutOf, Playing, Plays
<1>19. ASSUME NEW a \in OutOf(moves) \cap Actors PROVE \E i \in 1..n : registered[i] = a
  <2>1. a \in Actors /\ PartOf(a, a) /\ OutAt(moves, Len(moves), a) /\ Resolves(a) /\ a \in Objects
    BY DEF PartOf, OutOf
  <2>2. lifecycle[a] # "Playing"
    BY <2>1 DEF Playing, Plays
  <2>3. PICK p \in DOMAIN pieces : registered[p] = a
    BY <1>16, <2>1, <2>2
  <2>4. OutAt(pieces[p], Len(pieces[p]), a)
    BY <1>15a, <2>1, <2>3
  <2>5. p <= n
    BY <1>9, <2>1, <2>3, <2>4
  <2>6. p \in 1..Len(pieces) /\ n \in Nat
    BY <1>6a, <1>6b
  <2>7. p \in 1..n
    BY <2>5, <2>6
  <2> QED
    BY <2>3, <2>7
<1>20. ASSUME NEW i \in 1..n
       PROVE  /\ i \in DOMAIN pieces /\ registered[i] \in Actors /\ Resolves(registered[i])
              /\ OutAt(pieces[i], Len(pieces[i]), registered[i])
  <2>1. i \in DOMAIN pieces /\ i \in DOMAIN registered /\ registered[i] \in Actors
    <3>1. i \in 1..Len(pieces) /\ i \in 1..Len(registered)
      BY <1>6a
    <3>2. i \in DOMAIN pieces /\ i \in DOMAIN registered
      BY <1>6b, <3>1
    <3> QED
      BY <1>5, <3>2
  <2>2. Resolves(registered[i])
    BY <1>5 DEF ActorsThatBegin
  <2> QED
    BY <1>9, <2>1, <2>2
<1>21. ASSUME NEW i \in 1..n PROVE registered[i] \in OutOf(moves)
  BY <1>15a, <1>20, MainsAre DEF PartOf, OutOf
<1>22. ASSUME NEW k \in 1..Len(moves), NEW i \in DOMAIN registered, moves[k].of = registered[i]
       PROVE  /\ moves[k].to # "Ended"
              /\ \A j \in 1..(i - 1) : Resolves(registered[j]) /\ OutAt(moves, k - 1, registered[j])
  <2>1. PICK p \in DOMAIN pieces : p = piece[k] /\ Touches(pieces[p], registered[i])
    BY <1>12, <1>22
  <2>2. /\ Resolves(registered[p]) /\ PartOf(registered[p], registered[i])
        /\ registered[p] \in Actors /\ registered[i] \in Actors /\ p \in DOMAIN registered
    BY <1>5, <1>6, <1>10, <2>1
  <2>3. p = i
    <3>1. registered[p] = registered[i]
      BY <2>2, OneOwner DEF PartOf
    <3> QED
      BY <2>2, <3>1 DEF Differ
  <2>4. place[k] \in 1..Len(pieces[p]) /\ moves[k] = pieces[p][place[k]]
    <3>1. pieces[p] \in Seq(Steps)
      BY <1>6
    <3>2. DOMAIN pieces[p] = 1..Len(pieces[p])
      BY <3>1
    <3> QED
      BY <1>12, <2>1, <3>2
  <2>5. moves[k].to # "Ended"
    BY <1>9, <1>22, <2>2, <2>3, <2>4
  <2>6. ASSUME NEW j \in 1..(i - 1)
        PROVE  Resolves(registered[j]) /\ OutAt(moves, k - 1, registered[j])
    <3>1. j \in 1..n /\ j < p
      BY <1>6a, <1>6b, <2>3
    <3>2. /\ j \in DOMAIN pieces /\ registered[j] \in Actors /\ Resolves(registered[j])
          /\ OutAt(pieces[j], Len(pieces[j]), registered[j])
      BY <1>20, <3>1
    <3>3. PartOf(registered[j], registered[j])
      BY DEF PartOf
    <3>5. ASSUME NEW l \in DOMAIN moves, piece[l] = j PROVE l <= k - 1
      <4>1. l \in 1..Len(moves) /\ k \in DOMAIN moves
        BY <1>7
      <4>2. k < l => piece[k] < piece[l] \/ piece[k] = piece[l]
        BY <1>8, <4>1 DEF Laid
      <4>3. ~(k < l) /\ k # l
        BY <1>6, <2>1, <3>1, <3>5, <4>2
      <4> QED
        BY <4>1, <4>3
    <3>6. k - 1 \in 0..Len(moves)
      BY <1>7
    <3>7. OutAt(moves, k - 1, registered[j]) <=> OutAt(pieces[j], Len(pieces[j]), registered[j])
      BY <1>15, <3>2, <3>3, <3>5, <3>6
    <3> QED
      BY <3>2, <3>7
  <2> QED
    BY <2>5, <2>6
<1>22a. \A k \in 1..Len(moves) : \E i \in DOMAIN registered : PartOf(registered[i], moves[k].of)
  BY <1>6, <1>10, <1>12
<1>23. BeginsFirst(moves, n)
  BY <1>13, <1>17, <1>22a, <1>18, <1>19, <1>21, <1>22 DEF BeginsFirst
<1> QED
  BY <1>3, <1>4, <1>23

-----------------------------------------------------------------------------
(* All subsystems begin, or those that did are undone.                     *)

IsInitialize(moves, ready) ==
    /\ moves \in Seq(Steps)
    /\ Len(ready) \in 0..Len(subsystems) /\ Len(subsystems) \in Nat
    /\ ready = subsystems <=> Len(ready) = Len(subsystems)
    /\ Len(moves) = IF ready = subsystems THEN Len(ready) ELSE Len(ready) + Len(ready)
    /\ \A i \in 1..Len(ready) :
          /\ i \in DOMAIN subsystems /\ Begins(subsystems[i])
          /\ moves[i].of = subsystems[i] /\ moves[i].to = "Playing"
    /\ ready # subsystems => \A i \in 1..Len(ready) :
          /\ moves[Len(ready) + i].of = subsystems[(Len(ready) - i) + 1]
          /\ moves[Len(ready) + i].to = "Ended"

LEMMA InitializeMoves ==
    ASSUME subsystems \in Seq(Subsystems), NEW ready,
           ready = Prefix(subsystems, {s \in Subsystems : Begins(s)}), NEW moves,
           moves = IF ready = subsystems THEN Each(ready, "Playing")
                   ELSE Each(ready, "Playing") \o RollbackSteps(ready)
    PROVE  IsInitialize(moves, ready)
<1> DEFINE able == {s \in Subsystems : Begins(s)}
           starts == Each(ready, "Playing")
           turned == Reverse(ready)
           ends == Each(turned, "Ended")
<1>1. ready \in Seq(Subsystems) /\ IsAblePart(subsystems, able, ready)
  <2> HIDE DEF able
  <2> QED
    BY PrefixIs, PrefixAble DEF able
<1>2. /\ Len(ready) \in 0..Len(subsystems) /\ Len(subsystems) \in Nat
      /\ ready = subsystems <=> Len(ready) = Len(subsystems)
      /\ \A i \in 1..Len(ready) : subsystems[i] \in able /\ ready[i] = subsystems[i]
  <2> HIDE DEF able
  <2> QED
    BY <1>1 DEF IsAblePart
<1>3. ready \in Seq(Objects) /\ Len(ready) \in Nat
  BY <1>1, OfObjects, ObjectKinds
<1>4. /\ starts \in Seq(Steps) /\ Len(starts) = Len(ready)
      /\ \A i \in 1..Len(ready) : starts[i].of = ready[i] /\ starts[i].to = "Playing"
  BY <1>3, EachIs, PhasesAre
<1>5. /\ turned \in Seq(Objects) /\ Len(turned) = Len(ready)
      /\ \A i \in 1..Len(ready) : turned[i] = ready[(Len(ready) - i) + 1]
  BY <1>3, Reversed DEF Reverse
<1> HIDE DEF turned
<1>6. /\ ends \in Seq(Steps) /\ Len(ends) = Len(ready)
      /\ \A i \in 1..Len(ready) : ends[i].of = turned[i] /\ ends[i].to = "Ended"
  BY <1>5, EachIs, PhasesAre
<1>7. moves = IF ready = subsystems THEN starts ELSE starts \o ends
  BY DEF RollbackSteps, turned
<1> HIDE DEF starts, ends
<1>8. \A i \in 1..Len(ready) : i \in DOMAIN subsystems /\ Begins(subsystems[i])
  BY <1>2
<1>9. CASE ready = subsystems
  BY <1>2, <1>4, <1>7, <1>8, <1>9 DEF IsInitialize
<1>10. CASE ready # subsystems
  <2>1. moves = starts \o ends
    BY <1>7, <1>10
  <2>2. moves \in Seq(Steps) /\ IsJoined(moves, starts, ends)
    BY <1>4, <1>6, <2>1, Joined
  <2>3. /\ Len(moves) = Len(ready) + Len(ready)
        /\ \A i \in 1..Len(ready) : moves[i] = starts[i]
        /\ \A i \in 1..Len(ready) : moves[Len(ready) + i] = ends[i]
    <3>1. /\ Len(moves) = Len(starts) + Len(ends)
          /\ \A i \in 1..Len(starts) : moves[i] = starts[i]
          /\ \A i \in 1..Len(ends) : moves[Len(starts) + i] = ends[i]
      BY <2>2 DEF IsJoined
    <3>2. Len(starts) = Len(ready) /\ Len(ends) = Len(ready)
      BY <1>4, <1>6
    <3> QED
      BY <3>1, <3>2
  <2>4. ASSUME NEW i \in 1..Len(ready)
        PROVE  /\ moves[Len(ready) + i].of = subsystems[(Len(ready) - i) + 1]
               /\ moves[Len(ready) + i].to = "Ended"
    <3>1. (Len(ready) - i) + 1 \in 1..Len(ready)
      BY <1>3
    <3>2. turned[i] = subsystems[(Len(ready) - i) + 1]
      BY <1>2, <1>5, <3>1
    <3>3. moves[Len(ready) + i] = ends[i]
      BY <2>3
    <3>4. ends[i].of = turned[i] /\ ends[i].to = "Ended"
      BY <1>6
    <3> QED
      BY <3>2, <3>3, <3>4
  <2>5. \A i \in 1..Len(ready) : moves[i].of = subsystems[i] /\ moves[i].to = "Playing"
    <3> TAKE i \in 1..Len(ready)
    <3>1. moves[i] = starts[i] /\ ready[i] = subsystems[i]
      BY <1>2, <2>3
    <3>2. starts[i].of = ready[i] /\ starts[i].to = "Playing"
      BY <1>4
    <3> QED
      BY <3>1, <3>2
  <2>6. moves \in Seq(Steps) /\ Len(moves) = Len(ready) + Len(ready)
    BY <2>2, <2>3
  <2> QED
    BY <1>2, <1>8, <1>10, <2>4, <2>5, <2>6 DEF IsInitialize
<1> QED
  BY <1>9, <1>10

Initialized(moves, ready) ==
    /\ Proper(moves)
    /\ \A a \in Actors : Resolves(a) => IsWhole(OutOf(moves), a)
    /\ OutOf(moves) \cap Actors = Playing \cap Actors
    /\ \A k \in 1..Len(moves) : moves[k].of \in Subsystems
    /\ ready = subsystems => OutOf(moves) \cap Subsystems = ToSet(subsystems)
    /\ ready # subsystems => OutOf(moves) \cap Subsystems = {}
    /\ \A k \in 1..Len(moves) : moves[k].to = "Ended" =>
          \A i, j \in DOMAIN subsystems : i < j /\ moves[k].of = subsystems[i] =>
              ~(Resolves(subsystems[j]) /\ OutAt(moves, k - 1, subsystems[j]))

LEMMA InitializeDoes ==
    ASSUME LifecycleTypeOK, subsystems \in Seq(Subsystems), Differ(subsystems, DOMAIN subsystems),
           \A a \in Actors : Resolves(a) => IsWhole(Playing, a),
           \A s \in Subsystems : Resolves(s) => ~Plays(s),
           NEW ready, ready = Prefix(subsystems, {s \in Subsystems : Begins(s)}), NEW moves,
           moves = IF ready = subsystems THEN Each(ready, "Playing")
                   ELSE Each(ready, "Playing") \o RollbackSteps(ready)
    PROVE  Initialized(moves, ready)
<1>1. PICK n : n = Len(ready)
  OBVIOUS
<1>2. /\ moves \in Seq(Steps)
      /\ n \in 0..Len(subsystems) /\ Len(subsystems) \in Nat
      /\ ready = subsystems <=> n = Len(subsystems)
      /\ Len(moves) = IF ready = subsystems THEN n ELSE n + n
      /\ \A i \in 1..n : /\ i \in DOMAIN subsystems /\ Begins(subsystems[i])
                         /\ moves[i].of = subsystems[i] /\ moves[i].to = "Playing"
      /\ ready # subsystems => \A i \in 1..n :
            moves[n + i].of = subsystems[(n - i) + 1] /\ moves[n + i].to = "Ended"
  <2>1. IsInitialize(moves, ready)
    BY InitializeMoves
  <2> QED
    BY <1>1, <2>1 DEF IsInitialize
<1>3. /\ DOMAIN subsystems = 1..Len(subsystems) /\ n \in Nat
      /\ \A i \in DOMAIN subsystems : subsystems[i] \in Subsystems /\ subsystems[i] \in Objects
      /\ Len(moves) \in Nat /\ DOMAIN moves = 1..Len(moves)
  BY <1>2, MainsAre
<1>4. ASSUME NEW k \in 1..Len(moves)
      PROVE  \/ k \in 1..n /\ moves[k].of = subsystems[k] /\ moves[k].to = "Playing"
             \/ /\ ready # subsystems /\ k > n /\ moves[k].to = "Ended"
                /\ (2 * n - k) + 1 \in 1..n /\ moves[k].of = subsystems[(2 * n - k) + 1]
  <2>1. CASE k \in 1..n
    BY <1>2, <2>1
  <2>2. CASE k \notin 1..n
    <3>1. ready # subsystems /\ k > n /\ k <= n + n
      <4>1. Len(moves) = IF ready = subsystems THEN n ELSE n + n
        BY <1>2
      <4>2. n \in Nat /\ k \in 1..Len(moves)
        BY <1>3
      <4> QED
        BY <2>2, <4>1, <4>2
    <3>2. PICK i \in 1..n : i = k - n
      BY <1>3, <3>1
    <3>3. moves[n + i].of = subsystems[(n - i) + 1] /\ moves[n + i].to = "Ended"
      BY <1>2, <3>1
    <3>4. n + i = k /\ (n - i) + 1 = (2 * n - k) + 1 /\ (2 * n - k) + 1 \in 1..n
      BY <1>3, <3>1, <3>2
    <3> QED
      BY <3>1, <3>3, <3>4
  <2> QED
    BY <2>1, <2>2
<1>5. ASSUME NEW k \in 1..Len(moves)
      PROVE  \E i \in 1..n : moves[k].of = subsystems[i]
  BY <1>4
<1>6. \A i \in 1..n : i \in DOMAIN subsystems /\ Resolves(subsystems[i])
  BY <1>2 DEF Begins
<1>7. Proper(moves)
  <2>1. \A k \in 1..Len(moves) :
           Resolves(moves[k].of) /\ \E y \in Mains : PartOf(y, moves[k].of)
    <3> TAKE k \in 1..Len(moves)
    <3>1. PICK i \in 1..n : moves[k].of = subsystems[i]
      BY <1>5
    <3>2. subsystems[i] \in Mains /\ Resolves(subsystems[i])
      BY <1>3, <1>6 DEF Mains
    <3>3. PartOf(subsystems[i], subsystems[i])
      BY DEF PartOf
    <3> QED
      BY <3>1, <3>2, <3>3
  <2> QED
    BY <1>2, <2>1 DEF Proper
<1>8. \A k \in 1..Len(moves) : moves[k].of \in Subsystems
  BY <1>3, <1>5, <1>6
<1>9. ASSUME NEW x, x \notin Subsystems
      PROVE  OutAt(moves, Len(moves), x) <=> lifecycle[x] = "Playing"
  BY <1>8, <1>9 DEF OutAt
<1>10. OutOf(moves) \cap Actors = Playing \cap Actors
  BY <1>9, MainsAre DEF OutOf, Playing, Plays
<1>11. ASSUME NEW a \in Actors, Resolves(a) PROVE IsWhole(OutOf(moves), a)
  <2>1. \A j \in DOMAIN components[a] : components[a][j] \in Components
    BY DEF LifecycleTypeOK
  <2>2. \A x \in Actors \cup Components : x \in OutOf(moves) <=> x \in Playing
    BY <1>9, MainsAre DEF OutOf, Playing, Plays
  <2>3. IsWhole(Playing, a)
    BY <1>11
  <2> QED
    BY <2>1, <2>2, <2>3 DEF IsWhole
<1>12. ASSUME ready = subsystems PROVE OutOf(moves) \cap Subsystems = ToSet(subsystems)
  <2>1. n = Len(subsystems) /\ Len(moves) = n /\ \A k \in 1..n : moves[k].to = "Playing"
    BY <1>2, <1>12
  <2>2. ASSUME NEW s \in Subsystems, Resolves(s)
        PROVE  OutAt(moves, Len(moves), s) <=> \E i \in 1..n : subsystems[i] = s
    <3>1. lifecycle[s] # "Playing"
      BY <2>2 DEF Plays
    <3>2. OutAt(moves, n, s) <=> \E i \in 1..n : moves[i].of = s
      BY <2>1, <3>1 DEF OutAt
    <3> QED
      BY <1>2, <2>1, <3>2
  <2>3. \A i \in 1..n : subsystems[i] \in Subsystems
    BY <1>3, <1>6
  <2>4. ToSet(subsystems) = {subsystems[i] : i \in 1..n}
    BY <1>3, <2>1 DEF ToSet
  <2> QED
    BY <1>6, <2>2, <2>3, <2>4, MainsAre DEF OutOf
<1>13. ASSUME ready # subsystems, NEW j \in 1..n, NEW k \in Nat,
                  n + ((n - j) + 1) <= k, k <= Len(moves)
       PROVE  ~OutAt(moves, k, subsystems[j])
  <2>1. PICK r \in 1..n : r = (n - j) + 1 /\ (n - r) + 1 = j
    BY <1>3
  <2>2. PICK i \in 1..k : i = n + r /\ moves[i].of = subsystems[j] /\ moves[i].to = "Ended"
    <3>1. moves[n + r].of = subsystems[j] /\ moves[n + r].to = "Ended"
      <4>1. /\ moves[n + r].of = subsystems[(n - r) + 1]
            /\ moves[n + r].to = "Ended"
        BY <1>2, <1>13
      <4> QED
        BY <2>1, <4>1
    <3>2. n + r \in 1..k
      BY <1>3, <1>13, <2>1
    <3> QED
      BY <3>1, <3>2
  <2>3. ASSUME NEW l \in (i + 1)..k PROVE moves[l].to # "Playing"
    BY <1>3, <1>4, <1>13, <2>2
  <2>4. moves[i].to # "Playing"
    BY <2>2
  <2> QED
    BY <2>2, <2>3, <2>4 DEF OutAt
<1>14. ASSUME NEW j \in DOMAIN subsystems, j > n, NEW k \in 0..Len(moves)
       PROVE  ~OutAt(moves, k, subsystems[j]) \/ ~Resolves(subsystems[j])
  <2>1. \A l \in 1..k : l \in 1..Len(moves)
    BY <1>3
  <2>2. \A l \in 1..k : moves[l].of # subsystems[j]
    <3>1. ASSUME NEW l \in 1..k, moves[l].of = subsystems[j] PROVE FALSE
      <4>1. PICK i \in 1..n : subsystems[i] = subsystems[j]
        <5>1. l \in 1..Len(moves)
          BY <2>1
        <5> QED
          BY <1>5, <3>1, <5>1
      <4>2. i = j
        BY <1>6, <4>1 DEF Differ
      <4> QED
        BY <1>3, <1>14, <4>2
    <3> QED
      BY <3>1
  <2>3. Resolves(subsystems[j]) => lifecycle[subsystems[j]] # "Playing"
    BY <1>3 DEF Plays
  <2> QED
    BY <2>2, <2>3 DEF OutAt
<1>15. ASSUME ready # subsystems PROVE OutOf(moves) \cap Subsystems = {}
  <2>1. SUFFICES ASSUME NEW s \in Subsystems, Resolves(s), OutAt(moves, Len(moves), s) PROVE FALSE
    BY DEF OutOf
  <2>2. lifecycle[s] # "Playing"
    BY <2>1 DEF Plays
  <2>3. PICK i \in 1..Len(moves) : moves[i].of = s
    BY <2>1, <2>2 DEF OutAt
  <2>4. PICK j \in 1..n : s = subsystems[j]
    BY <1>5, <2>3
  <2>5. n + ((n - j) + 1) <= Len(moves)
    <3>1. Len(moves) = n + n /\ n \in Nat
      BY <1>2, <1>3, <1>15
    <3> QED
      BY <3>1
  <2> QED
    BY <1>3, <1>13, <1>15, <2>1, <2>4, <2>5
<1>16. ASSUME NEW k \in 1..Len(moves), moves[k].to = "Ended",
              NEW i \in DOMAIN subsystems, NEW j \in DOMAIN subsystems, i < j,
              moves[k].of = subsystems[i], Resolves(subsystems[j])
       PROVE  ~OutAt(moves, k - 1, subsystems[j])
  <2>1. PICK e \in 1..n : e = (2 * n - k) + 1 /\ k > n /\ ready # subsystems
                          /\ moves[k].of = subsystems[e]
    BY <1>4, <1>16
  <2>2. e = i
    BY <1>6, <1>16, <2>1 DEF Differ
  <2>3. k - 1 \in 0..Len(moves) /\ k - 1 \in Nat /\ k - 1 <= Len(moves)
    BY <1>3
  <2>4. CASE j > n
    BY <1>14, <1>16, <2>3, <2>4
  <2>5. CASE j <= n
    <3>1. j \in 1..n
      BY <1>3, <2>5
    <3>2. n + ((n - j) + 1) <= k - 1
      BY <1>3, <1>16, <2>1, <2>2, <3>1
    <3> QED
      BY <1>13, <2>1, <2>3, <3>1, <3>2
  <2> QED
    BY <1>3, <2>4, <2>5
<1> QED
  BY <1>7, <1>8, <1>10, <1>11, <1>12, <1>15, <1>16 DEF Initialized

-----------------------------------------------------------------------------
(* What the steps of a world make of the invariant.                        *)

LEMMA Basics ==
    ASSUME WorldInvariant
    PROVE  /\ TypeOK /\ LifecycleTypeOK /\ call \in Calls
           /\ registered \in Seq(Actors) /\ Differ(registered, DOMAIN registered)
           /\ DOMAIN registered = 1..Len(registered) /\ Len(registered) \in Nat
           /\ subsystems \in Seq(Subsystems) /\ DOMAIN subsystems = 1..Len(subsystems)
           /\ pendingSpawn \in Seq(ManualActors) /\ pendingDestroy \in Seq(Actors)
           /\ assigned \subseteq Actors
           /\ object \in [Objects -> {"Unborn", "Live", "Dead"}]
           /\ DOMAIN components = Actors
           /\ \A a \in Actors : DOMAIN components[a] = 1..Len(components[a])
           /\ \A a \in Actors : \A j \in DOMAIN components[a] : components[a][j] \in Components
<1>1. TypeOK /\ RegisteredSound
  BY DEF WorldInvariant
<1>2. LifecycleTypeOK
  BY <1>1 DEF TypeOK
<1>3. /\ DOMAIN components = Actors
      /\ \A a \in Actors : DOMAIN components[a] = 1..Len(components[a])
      /\ \A a \in Actors : \A j \in DOMAIN components[a] : components[a][j] \in Components
  BY <1>2, ComponentsAre DEF LifecycleTypeOK
<1>4. object \in [Objects -> {"Unborn", "Live", "Dead"}]
  BY <1>2 DEF LifecycleTypeOK
<1>5. /\ call \in Calls /\ registered \in Seq(Actors) /\ subsystems \in Seq(Subsystems)
      /\ pendingSpawn \in Seq(ManualActors) /\ pendingDestroy \in Seq(Actors)
      /\ assigned \subseteq Actors
  BY <1>1 DEF TypeOK
<1>6. /\ DOMAIN registered = 1..Len(registered) /\ Len(registered) \in Nat
      /\ DOMAIN subsystems = 1..Len(subsystems)
  BY <1>5
<1>7. Differ(registered, DOMAIN registered)
  BY <1>1 DEF RegisteredSound
<1> QED
  BY <1>1, <1>2, <1>3, <1>4, <1>5, <1>6, <1>7

LEMMA Resting ==
    ASSUME PlayInvariant, agenda = <<>>
    PROVE  /\ InPlay = Playing /\ OwnershipSound
           /\ \A a \in Actors : Resolves(a) => IsWhole(Playing, a)
           /\ Playing \cap Actors \subseteq ToSet(registered)
           /\ Playing \cap Subsystems \subseteq ToSet(subsystems)
<1>1. InPlay = Playing
  BY AtRest
<1> QED
  BY <1>1 DEF PlayInvariant, WholeActors, PlaySound

(* User code between two moves, or in a hook, leaves play as it is. *)
LEMMA UserCodeKeepsPlay ==
    ASSUME PlayInvariant, UNCHANGED <<lifecycle, object, components, agenda>>,
           UNCHANGED <<worldState, registered, subsystems, call>>
    PROVE  PlayInvariant'
<1>1. InPlay' = InPlay /\ OwnershipSound' /\ WholeActors'
  BY StillStep DEF PlayInvariant
<1>2. PlaySound'
  BY <1>1 DEF PlayInvariant, PlaySound, Begun, GaveUp, Differ
<1> QED
  BY <1>1, <1>2 DEF PlayInvariant

\* A call that goes on to another stage, or returns.
LEMMA CallGoesOn ==
    ASSUME PlayInvariant, UNCHANGED <<lifecycle, object, components, agenda>>,
           UNCHANGED <<worldState, registered, subsystems>>,
           call'.op # "None" /\ call'.stage # "Return" => worldState = "Playing",
           call'.stage \in {"EndDoomed", "BeginSpawns"} => call'.op = "ApplyPending",
           Begun' \/ GaveUp' => InPlay \cap Mains = {},
           call'.stage \in {"Actors", "FailWorld"} => InPlay \cap Actors = {},
           call'.stage # "RollbackActors"
    PROVE  PlayInvariant'
<1>1. InPlay' = InPlay /\ OwnershipSound' /\ WholeActors'
  BY StillStep DEF PlayInvariant
<1>2. Differ(subsystems, DOMAIN subsystems)'
  BY DEF PlayInvariant, PlaySound, Differ
<1> QED
  BY <1>1, <1>2 DEF PlayInvariant, PlaySound

LEMMA ObserversKeepPlay ==
    ASSUME WorldInvariant, PlayInvariant,
           \/ \E a \in ManualActors : SpawnActor(a)
           \/ \E a \in Actors : DestroyActor(a)
           \/ QueueTypedActor \/ RefusedBarrier \/ ToggleCollection \/ HookReturns
           \/ UNCHANGED vars
    PROVE  PlayInvariant'
<1>1. /\ UNCHANGED <<lifecycle, object, components, agenda>>
      /\ UNCHANGED <<worldState, registered, subsystems, call>>
  BY DEF SpawnActor, DestroyActor, QueueTypedActor, RefusedBarrier, ToggleCollection,
         HookReturns, vars, lifecycleVars, registries
<1> QED
  BY <1>1, UserCodeKeepsPlay

(* A world that advances is playing. *)
AdvanceSound == call.op = "Advance" => call.stage = "Return" /\ worldState = "Playing"

LEMMA AdvancesInPlay ==
    ASSUME WorldInvariant, AdvanceSound, [Next]_vars
    PROVE  AdvanceSound'
<1>1. call \in Calls
  BY Basics
<1>2. CASE BeginPlay \/ Advance \/ EndPlay \/ ApplyPending \/ ApplyBarrierAfterAdvance
  <2>1. CASE Advance
    <3>1. worldState' = worldState /\ worldState = "Playing"
      BY <2>1 DEF Advance
    <3> QED
      BY <2>1, <3>1, AdvanceEntered DEF AdvanceSound
  <2>2. CASE ~Advance
    <3>1. PICK op \in {"BeginPlay", "EndPlay", "ApplyPending"},
               stage \in {"Construct", "Return", "EndDoomed"} : Enter(op, stage)
      BY <1>2, <2>2 DEF BeginPlay, EndPlay, ApplyPending, ApplyBarrierAfterAdvance, BeginBarrier
    <3> QED
      BY <3>1, Entered DEF Ops, Stages, AdvanceSound
  <2> QED
    BY <2>1, <2>2
<1>3. CASE UserStep /\ ~(BeginPlay \/ Advance \/ EndPlay \/ ApplyPending)
  BY <1>3 DEF UserStep, Register, SpawnActor, RegisterComponentOf, RegisterSubsystem, LoseObject,
     DestroyActor, QueueTypedActor, RefusedBarrier, ToggleCollection, AdvanceSound
<1>4. CASE Dispatching \/ HookReturns \/ UNCHANGED vars
  BY <1>4 DEF Dispatching, HookReturns, vars, AdvanceSound
<1>5. CASE FailConstruction \/ FailAtLast \/ CallReturns
  BY <1>5, NoCallIs DEF FailConstruction, FailAtLast, CallReturns, Return, AdvanceSound
<1>6. CASE EndDeferred
  BY <1>1, <1>6, NoCallIs DEF EndDeferred, AtStage, Return, Stage, Calls, AdvanceSound
<1>7. CASE \/ EnterFactory \/ FactoryReturns \/ EndConstruct \/ InitializeSubsystems
           \/ BeginActors \/ RollbackActors \/ FailWorld \/ EndNextDoomed
           \/ MarkAndUnregisterDoomedActors \/ BeginNextSpawn \/ EndSpawns \/ BeginNextDeferred
           \/ CompleteDeferred
  <2>1. call.op # "Advance"
    BY <1>7 DEF EnterFactory, FactoryReturns, EndConstruct, InitializeSubsystems, BeginActors,
       RollbackActors, FailWorld, EndNextDoomed, MarkAndUnregisterDoomedActors, BeginNextSpawn,
       EndSpawns, BeginNextDeferred, CompleteDeferred, AtStage, AdvanceSound
  <2>2. call'.op = call.op
    BY <1>1, <1>7 DEF EnterFactory, FactoryReturns, EndConstruct, InitializeSubsystems,
       BeginActors, RollbackActors, FailWorld, EndNextDoomed, MarkAndUnregisterDoomedActors,
       BeginNextSpawn, EndSpawns, BeginNextDeferred, CompleteDeferred, Stage, Calls
  <2> QED
    BY <2>1, <2>2 DEF AdvanceSound
<1> QED
  BY <1>2, <1>3, <1>4, <1>5, <1>6, <1>7 DEF Next, Defined, Undefined, CallStep

LEMMA PlayMoves ==
    ASSUME WorldInvariant, PlayInvariant, AdvanceSound,
           \/ BeginPlay \/ ApplyPending \/ ApplyBarrierAfterAdvance
           \/ EnterFactory \/ EndConstruct \/ FailAtLast \/ EndSpawns \/ CompleteDeferred \/ CallReturns
    PROVE  PlayInvariant'
<1>1. call \in Calls /\ call.op \in Ops /\ call.at + 1 \in Nat
  BY Basics, CallsAre
<1>2. PlaySound
  BY DEF PlayInvariant
<1>3. CASE BeginPlay
  <2>1. call'.op = "BeginPlay" /\ call'.stage = "Construct"
    BY <1>3, Entered DEF BeginPlay, Ops, Stages
  <2>2. /\ UNCHANGED <<lifecycle, object, components, agenda, registered, subsystems>>
        /\ worldState = "Constructed" /\ worldState' = "Playing"
    BY <1>3 DEF BeginPlay, lifecycleVars, registries
  <2>3. InPlay' = InPlay /\ OwnershipSound' /\ WholeActors'
    BY <2>2, StillStep DEF PlayInvariant
  <2>4. InPlay \cap Mains = {}
    BY <1>2, <2>2 DEF PlaySound, Begun
  <2>5. PlaySound'
    BY <1>2, <2>1, <2>2, <2>3, <2>4 DEF PlaySound, GaveUp, Differ
  <2> QED
    BY <2>3, <2>5 DEF PlayInvariant
<1>4. CASE ApplyPending \/ ApplyBarrierAfterAdvance
  <2>1. PICK stage \in {"EndDoomed", "Return"} : Enter("ApplyPending", stage)
    BY <1>4, BarrierBegins DEF BeginBarrier
  <2>2. call'.op = "ApplyPending" /\ call'.stage = stage
    BY <2>1, Entered DEF Ops, Stages
  <2>3. /\ UNCHANGED <<lifecycle, object, components, agenda, registered, subsystems, worldState>>
        /\ worldState = "Playing"
    BY <1>4, BarrierBegins DEF ApplyPending, ApplyBarrierAfterAdvance, AdvanceSound,
       lifecycleVars, registries
  <2> QED
    BY <2>2, <2>3, CallGoesOn DEF Begun, GaveUp
<1>5. CASE EnterFactory
  BY <1>1, <1>2, <1>5, CallGoesOn DEF EnterFactory, AtStage, registries, Calls, PlaySound,
     Begun, GaveUp
<1>6. CASE EndConstruct
  BY <1>1, <1>2, <1>6, Staged, CallGoesOn DEF EndConstruct, AtStage, lifecycleVars, registries,
     Stages, PlaySound, Begun, GaveUp
<1>7. CASE FailAtLast
  <2>1. /\ UNCHANGED <<lifecycle, object, components, agenda, registered, subsystems>>
        /\ call.stage = "Failed" /\ worldState' = "Failed" /\ call' = NoCall
    BY <1>7 DEF FailAtLast, AtStage, Return, lifecycleVars, registries
  <2>2. InPlay' = InPlay /\ OwnershipSound' /\ WholeActors'
    BY <2>1, StillStep DEF PlayInvariant
  <2>3. InPlay \cap Mains = {}
    BY <1>2, <2>1 DEF PlaySound, GaveUp
  <2>4. PlaySound'
    BY <1>2, <2>1, <2>2, <2>3, NoCallIs DEF PlaySound, Differ
  <2> QED
    BY <2>2, <2>4 DEF PlayInvariant
<1>8. CASE EndSpawns
  BY <1>1, <1>2, <1>8, CallGoesOn DEF EndSpawns, AtStage, lifecycleVars, registries, Calls,
     PlaySound, Begun, GaveUp
<1>9. CASE CompleteDeferred
  BY <1>1, <1>2, <1>9, CallGoesOn DEF CompleteDeferred, AtStage, lifecycleVars, registries,
     Calls, PlaySound, Begun, GaveUp
<1>10. CASE CallReturns
  BY <1>2, <1>10, NoCallIs, CallGoesOn DEF CallReturns, Return, lifecycleVars, registries,
     PlaySound, Begun, GaveUp
<1> QED
  BY <1>3, <1>4, <1>5, <1>6, <1>7, <1>8, <1>9, <1>10

\* What joins a list was not yet there, and is not in play.
LEMMA RegisteringKeepsPlay ==
    ASSUME WorldInvariant, PlayInvariant,
           \/ \E a \in ManualActors : Register(a)
           \/ \E s \in Subsystems : RegisterSubsystem(s)
    PROVE  PlayInvariant'
<1>1. PlaySound
  BY DEF PlayInvariant
<1>2. UNCHANGED <<lifecycle, object, components, agenda, worldState, call>>
  BY DEF Register, RegisterSubsystem, lifecycleVars
<1>3. InPlay' = InPlay /\ OwnershipSound' /\ WholeActors'
  BY <1>2, StillStep DEF PlayInvariant
<1>4. worldState = "Constructed" /\ call.stage = "Return"
  BY IdleIs DEF Register, RegisterSubsystem
<1>5. InPlay \cap Mains = {}
  BY <1>1, <1>4 DEF PlaySound, Begun
<1>6. InPlay \cap Actors = {} /\ InPlay \cap Subsystems = {}
  BY <1>5 DEF Mains
<1>7. Differ(subsystems, DOMAIN subsystems)'
  <2>1. CASE \E a \in ManualActors : Register(a)
    BY <1>1, <2>1 DEF Register, PlaySound, Differ
  <2>2. ASSUME NEW s \in Subsystems, RegisterSubsystem(s)
      PROVE Differ(subsystems, DOMAIN subsystems)'
    <3>1. subsystems \in Seq(Subsystems) /\ \A i \in DOMAIN subsystems : subsystems[i] # s
      BY <2>2, Basics, ContainsIs DEF RegisterSubsystem
    <3>2. subsystems' = Append(subsystems, s)
      BY <2>2 DEF RegisterSubsystem
    <3>3. Differ(subsystems, DOMAIN subsystems)
      BY <1>1 DEF PlaySound
    <3> QED
      BY <3>1, <3>2, <3>3 DEF Differ
  <2> QED
    BY <2>1, <2>2
<1>8. PlaySound'
  BY <1>1, <1>2, <1>3, <1>4, <1>5, <1>6, <1>7 DEF PlaySound
<1> QED
  BY <1>3, <1>8 DEF PlayInvariant

-----------------------------------------------------------------------------
(* The calls that end what plays.                                          *)

(***************************************************************************)
(* Moves in order, whether an object plays when those before the (k+1)-th  *)
(* are made: an actor begins when all subsystems and the actors before it  *)
(* play, and what ends finds nothing still in play that is to end first.   *)
(***************************************************************************)
PlaysAt(moves, k, x) == Resolves(x) /\ OutAt(moves, k, x)

BeginsInOrder(moves, actors) ==
    \A k \in DOMAIN moves : moves[k].to = "Playing" =>
        \A i \in DOMAIN actors : moves[k].of = actors[i] =>
            /\ \A s \in ToSet(subsystems) : PlaysAt(moves, k - 1, s)
            /\ \A j \in 1..(i - 1) : PlaysAt(moves, k - 1, actors[j])

EndsInOrder(moves, actors) ==
    \A k \in DOMAIN moves : moves[k].to = "Ended" =>
        /\ \A i, j \in DOMAIN actors :
              i < j /\ moves[k].of = actors[i] => ~PlaysAt(moves, k - 1, actors[j])
        /\ \A i, j \in DOMAIN subsystems :
              i < j /\ moves[k].of = subsystems[i] => ~PlaysAt(moves, k - 1, subsystems[j])
        /\ moves[k].of \in ToSet(subsystems) =>
              \A a \in ToSet(actors) : ~PlaysAt(moves, k - 1, a)

LEMMA EndsOrdered ==
    ASSUME NEW q \in Seq(Mains), NEW moves \in Seq(Steps), EndsAll(moves, q)
    PROVE  /\ \A k \in 1..Len(moves) : \A x : PlaysAt(moves, k - 1, x) => Plays(x)
           /\ \A k \in 1..Len(moves) : \A i, j \in DOMAIN q :
                 i < j /\ moves[k].of = q[i] => ~PlaysAt(moves, k - 1, q[j])
           /\ \A actors : BeginsInOrder(moves, actors)
<1>1. Len(moves) \in Nat /\ DOMAIN moves = 1..Len(moves)
  BY MovesAre
<1>2. \A k \in 1..Len(moves) : moves[k].to = "Ended" /\ moves[k].to # "Playing"
  BY DEF EndsAll
<1>3. ASSUME NEW k \in 1..Len(moves), NEW x
      PROVE  OutAt(moves, k - 1, x) <=>
                lifecycle[x] = "Playing" /\ \A i \in 1..(k - 1) : moves[i].of # x
  BY <1>1, <1>2, EndingOut
<1>4. \A k \in 1..Len(moves) : \A x : PlaysAt(moves, k - 1, x) => Plays(x)
  BY <1>3 DEF PlaysAt, Plays
<1>5. ASSUME NEW k \in 1..Len(moves), NEW i \in DOMAIN q, NEW j \in DOMAIN q, i < j,
             moves[k].of = q[i], PlaysAt(moves, k - 1, q[j])
      PROVE  FALSE
  <2>1. Plays(q[j])
    BY <1>4, <1>5
  <2>2. PICK l \in 1..(k - 1) : moves[l].of = q[j]
    BY <1>5, <2>1 DEF EndsAll
  <2> QED
    BY <1>3, <1>5, <2>2 DEF PlaysAt
<1>6. \A actors : BeginsInOrder(moves, actors)
  BY <1>1, <1>2 DEF BeginsInOrder
<1> QED
  BY <1>4, <1>5, <1>6

\* What these moves leave in play of what is registered.
EndsSome(moves) ==
    /\ Proper(moves) /\ OutOf(moves) \subseteq Playing
    /\ \A a \in Actors : Resolves(a) => IsWhole(OutOf(moves), a)

LEMMA EndsEverything ==
    ASSUME WorldInvariant, PlayInvariant, agenda = <<>>, NEW moves,
           moves = EndActors(registered) \o DeinitializeSubsystems
    PROVE  /\ EndsSome(moves) /\ OutOf(moves) \cap Mains = {}
           /\ BeginsInOrder(moves, registered) /\ EndsInOrder(moves, registered)
<1>1. PICK m, n : m = EndActors(registered) /\ n = DeinitializeSubsystems
  OBVIOUS
<1>2. /\ InPlay = Playing /\ OwnershipSound
      /\ \A a \in Actors : Resolves(a) => IsWhole(Playing, a)
      /\ Playing \cap Actors \subseteq ToSet(registered)
      /\ Playing \cap Subsystems \subseteq ToSet(subsystems)
  BY Resting
<1>3. /\ LifecycleTypeOK /\ registered \in Seq(Actors) /\ Differ(registered, DOMAIN registered)
      /\ subsystems \in Seq(Subsystems) /\ DOMAIN registered = 1..Len(registered)
      /\ DOMAIN subsystems = 1..Len(subsystems)
  BY Basics
<1>4. Differ(subsystems, DOMAIN subsystems)
  BY DEF PlayInvariant, PlaySound
<1>5. m \in Seq(Steps) /\ EndsAll(m, registered)
  BY <1>1, <1>3, EndActorsDo
<1>6. n \in Seq(Steps) /\ EndsAll(n, subsystems)
  BY <1>1, <1>3, <1>4, DeinitializeDoes
<1>7. PICK all : all = subsystems \o registered
  OBVIOUS
<1>8. moves = m \o n
  BY <1>1
<1>9. moves \in Seq(Steps) /\ all \in Seq(Mains) /\ EndsAll(moves, all)
  BY <1>3, <1>5, <1>6, <1>7, <1>8, EndsJoined
<1>10. /\ Proper(moves) /\ OutOf(moves) \subseteq Playing
       /\ \A a \in Actors : Resolves(a) => IsWhole(OutOf(moves), a)
       /\ \A i \in DOMAIN all : all[i] \notin OutOf(moves)
  BY <1>2, <1>3, <1>9, EndsKeepWhole
<1>11. ASSUME NEW x \in ToSet(registered) \cup ToSet(subsystems)
       PROVE \E i \in DOMAIN all : all[i] = x
  <2>1. /\ \A i \in 1..Len(subsystems) : i \in DOMAIN all /\ all[i] = subsystems[i]
        /\ \A i \in 1..Len(registered) :
              Len(subsystems) + i \in DOMAIN all /\ all[Len(subsystems) + i] = registered[i]
    BY <1>3, <1>7
  <2>2. CASE x \in ToSet(registered)
    <3>1. PICK i \in 1..Len(registered) : registered[i] = x
      BY <1>3, <2>2 DEF ToSet
    <3> QED
      BY <2>1, <3>1
  <2>3. CASE x \in ToSet(subsystems)
    <3>1. PICK i \in 1..Len(subsystems) : subsystems[i] = x
      BY <1>3, <2>3 DEF ToSet
    <3> QED
      BY <2>1, <3>1
  <2> QED
    BY <2>2, <2>3
<1>12. ASSUME NEW x \in Mains, x \in OutOf(moves) PROVE FALSE
  BY <1>2, <1>10, <1>11, <1>12 DEF Mains
<1>13. /\ Len(subsystems) \in Nat /\ Len(registered) \in Nat /\ DOMAIN moves = 1..Len(moves)
       /\ \A i \in DOMAIN subsystems : i \in DOMAIN all /\ all[i] = subsystems[i]
       /\ \A i \in DOMAIN registered :
             Len(subsystems) + i \in DOMAIN all /\ all[Len(subsystems) + i] = registered[i]
  BY <1>3, <1>7, <1>9
<1>14. /\ BeginsInOrder(moves, registered)
       /\ \A k \in 1..Len(moves) : \A i, j \in DOMAIN all :
             i < j /\ moves[k].of = all[i] => ~PlaysAt(moves, k - 1, all[j])
  BY <1>9, EndsOrdered
<1>15. EndsInOrder(moves, registered)
  <2> SUFFICES ASSUME NEW k \in 1..Len(moves)
               PROVE  /\ \A i, j \in DOMAIN registered :
                            i < j /\ moves[k].of = registered[i] =>
                                ~PlaysAt(moves, k - 1, registered[j])
                      /\ \A i, j \in DOMAIN subsystems :
                            i < j /\ moves[k].of = subsystems[i] =>
                                ~PlaysAt(moves, k - 1, subsystems[j])
                      /\ moves[k].of \in ToSet(subsystems) =>
                            \A a \in ToSet(registered) : ~PlaysAt(moves, k - 1, a)
    BY <1>13 DEF EndsInOrder
  <2>1. ASSUME NEW i \in DOMAIN registered, NEW j \in DOMAIN registered, i < j,
               moves[k].of = registered[i]
        PROVE  ~PlaysAt(moves, k - 1, registered[j])
    BY <1>3, <1>13, <1>14, <2>1
  <2>2. \A i, j \in DOMAIN subsystems :
           i < j /\ moves[k].of = subsystems[i] => ~PlaysAt(moves, k - 1, subsystems[j])
    BY <1>13, <1>14
  <2>3. ASSUME NEW i \in DOMAIN subsystems, moves[k].of = subsystems[i],
               NEW j \in DOMAIN registered
        PROVE  ~PlaysAt(moves, k - 1, registered[j])
    BY <1>3, <1>13, <1>14, <2>3
  <2> QED
    BY <2>1, <2>2, <2>3 DEF ToSet
<1> QED
  BY <1>10, <1>12, <1>14, <1>15 DEF EndsSome

LEMMA DeinitializeEnds ==
    ASSUME WorldInvariant, PlayInvariant, agenda = <<>>, NEW moves,
           moves = DeinitializeSubsystems, call.stage = "FailWorld"
    PROVE  /\ EndsSome(moves) /\ OutOf(moves) \cap Subsystems = {}
           /\ BeginsInOrder(moves, registered) /\ EndsInOrder(moves, registered)
<1>2. /\ InPlay = Playing /\ OwnershipSound
      /\ \A a \in Actors : Resolves(a) => IsWhole(Playing, a)
      /\ Playing \cap Subsystems \subseteq ToSet(subsystems)
  BY Resting
<1>3. LifecycleTypeOK /\ subsystems \in Seq(Subsystems) /\ subsystems \in Seq(Mains)
  BY Basics, OfObjects DEF Mains
<1>4. Differ(subsystems, DOMAIN subsystems)
  BY DEF PlayInvariant, PlaySound
<1>5. moves \in Seq(Steps) /\ EndsAll(moves, subsystems)
  BY <1>3, <1>4, DeinitializeDoes
<1>6. /\ Proper(moves) /\ OutOf(moves) \subseteq Playing
      /\ \A a \in Actors : Resolves(a) => IsWhole(OutOf(moves), a)
      /\ \A i \in DOMAIN subsystems : subsystems[i] \notin OutOf(moves)
  BY <1>2, <1>3, <1>5, EndsKeepWhole
<1>7. /\ \A k \in 1..Len(moves) : \A x : PlaysAt(moves, k - 1, x) => Plays(x)
      /\ \A k \in 1..Len(moves) : \A i, j \in DOMAIN subsystems :
            i < j /\ moves[k].of = subsystems[i] => ~PlaysAt(moves, k - 1, subsystems[j])
      /\ BeginsInOrder(moves, registered)
  BY <1>3, <1>5, EndsOrdered
<1>8. DOMAIN moves = 1..Len(moves) /\ registered \in Seq(Actors)
  BY <1>5, MovesAre, Basics
<1>9. \A k \in 1..Len(moves) : moves[k].of \in Subsystems
  BY <1>3, <1>5, MainsAre DEF EndsAll, PartOf
<1>10. \A a \in Actors : ~Plays(a)
  BY <1>2, MainsAre DEF PlayInvariant, PlaySound, Playing
<1>11. EndsInOrder(moves, registered)
  BY <1>7, <1>8, <1>9, <1>10, MainsAre DEF EndsInOrder, ToSet
<1> QED
  BY <1>2, <1>6, <1>7, <1>11 DEF EndsSome, ToSet

LEMMA RollbackEnds ==
    ASSUME WorldInvariant, PlayInvariant, agenda = <<>>, call.stage = "RollbackActors",
           NEW moves, moves = EndActors(SubSeq(registered, 1, call.at))
    PROVE  /\ EndsSome(moves) /\ OutOf(moves) \cap Actors = {}
           /\ BeginsInOrder(moves, registered) /\ EndsInOrder(moves, registered)
<1>1. PICK begun : begun = SubSeq(registered, 1, call.at)
  OBVIOUS
<1>2. /\ InPlay = Playing /\ OwnershipSound
      /\ \A a \in Actors : Resolves(a) => IsWhole(Playing, a)
      /\ Playing \cap Actors \subseteq ToSet(registered)
  BY Resting
<1>3. /\ LifecycleTypeOK /\ registered \in Seq(Actors) /\ Differ(registered, DOMAIN registered)
      /\ DOMAIN registered = 1..Len(registered) /\ call \in Calls /\ Len(registered) \in Nat
  BY Basics
<1>4. call.at \in Nat /\ call.at <= Len(registered)
  BY <1>3, CallsAre DEF WorldInvariant, CallSound
<1>5. /\ begun \in Seq(Actors) /\ Len(begun) = call.at /\ DOMAIN begun = 1..call.at
      /\ \A i \in 1..call.at : begun[i] = registered[i] /\ i \in DOMAIN registered
  BY <1>1, <1>3, <1>4, FirstPart
<1>6. Differ(begun, DOMAIN begun)
  BY <1>3, <1>5 DEF Differ
<1>7. moves \in Seq(Steps) /\ EndsAll(moves, begun)
  BY <1>1, <1>3, <1>5, <1>6, EndActorsDo
<1>8. begun \in Seq(Mains)
  BY <1>5, OfObjects DEF Mains
<1>9. /\ Proper(moves) /\ OutOf(moves) \subseteq Playing
      /\ \A a \in Actors : Resolves(a) => IsWhole(OutOf(moves), a)
      /\ \A i \in DOMAIN begun : begun[i] \notin OutOf(moves)
  BY <1>2, <1>3, <1>7, <1>8, EndsKeepWhole
<1>10. ASSUME NEW x \in Actors, x \in OutOf(moves) PROVE FALSE
  <2>1. x \in Playing
    BY <1>9, <1>10
  <2>2. PICK i \in DOMAIN registered : registered[i] = x
    BY <1>2, <2>1 DEF ToSet
  <2>3. i <= call.at
    BY <1>2, <2>1, <2>2 DEF PlayInvariant, PlaySound
  <2>4. i \in DOMAIN begun /\ begun[i] = x
    BY <1>3, <1>5, <2>2, <2>3
  <2> QED
    BY <1>9, <1>10, <2>4
<1>11. /\ \A k \in 1..Len(moves) : \A x : PlaysAt(moves, k - 1, x) => Plays(x)
       /\ \A k \in 1..Len(moves) : \A i, j \in DOMAIN begun :
             i < j /\ moves[k].of = begun[i] => ~PlaysAt(moves, k - 1, begun[j])
       /\ BeginsInOrder(moves, registered)
  BY <1>7, <1>8, EndsOrdered
<1>12. DOMAIN moves = 1..Len(moves)
  BY <1>7, MovesAre
<1>13. ASSUME NEW k \in 1..Len(moves)
       PROVE  \E p \in DOMAIN begun : PartOf(begun[p], moves[k].of)
  BY <1>7 DEF EndsAll
<1>14. ASSUME NEW k \in 1..Len(moves), NEW i \in DOMAIN registered, NEW j \in DOMAIN registered,
              i < j, moves[k].of = registered[i], PlaysAt(moves, k - 1, registered[j])
       PROVE  FALSE
  <2>1. PICK p \in DOMAIN begun : PartOf(begun[p], registered[i])
    BY <1>13, <1>14
  <2>2. begun[p] = registered[p] /\ p \in DOMAIN registered /\ p \in 1..call.at
    BY <1>5
  <2>3. registered[p] \in Actors /\ registered[i] \in Actors
    BY <1>3, <2>2
  <2>4. registered[p] = registered[i]
    BY <1>3, <2>1, <2>2, <2>3, MainsAre DEF PartOf, LifecycleTypeOK
  <2>5. p = i
    BY <1>3, <2>2, <2>4 DEF Differ
  <2>6. registered[j] \in Playing
    BY <1>3, <1>11, <1>14, MainsAre DEF Playing
  <2>7. j <= call.at
    BY <1>2, <2>6 DEF PlayInvariant, PlaySound
  <2>8. j \in 1..call.at /\ i \in 1..call.at
    BY <1>3, <1>4, <2>2, <2>5, <2>7
  <2>9. begun[j] = registered[j] /\ begun[i] = registered[i]
      /\ i \in DOMAIN begun /\ j \in DOMAIN begun
    BY <1>5, <2>8
  <2> QED
    BY <1>11, <1>14, <2>9
<1>15. ASSUME NEW k \in 1..Len(moves) PROVE moves[k].of \notin Subsystems
  <2>1. PICK p \in DOMAIN begun : PartOf(begun[p], moves[k].of)
    BY <1>13
  <2>2. begun[p] \in Actors
    BY <1>5
  <2> QED
    BY <1>3, <2>1, <2>2, MainsAre DEF PartOf, LifecycleTypeOK
<1>16. EndsInOrder(moves, registered)
  BY <1>12, <1>14, <1>15, Basics DEF EndsInOrder, ToSet
<1> QED
  BY <1>9, <1>10, <1>11, <1>16 DEF EndsSome

\* Moves of actors and subsystems that play already, and of no others.
LEMMA EndsDispatched ==
    ASSUME PlayInvariant, agenda = <<>>, NEW moves, Dispatch(moves), EndsSome(moves)
    PROVE  /\ InPlay' = OutOf(moves) /\ OwnershipSound' /\ WholeActors' /\ InPlay' \subseteq InPlay
<1>1. OwnershipSound /\ InPlay = Playing
  BY Resting
<1>2. InPlay' = OutOf(moves) /\ OwnershipSound' /\ WholeActors'
  BY <1>1, DispatchDoes DEF EndsSome
<1> QED
  BY <1>1, <1>2 DEF EndsSome

LEMMA EndingKeepsPlay ==
    ASSUME WorldInvariant, PlayInvariant,
           RollbackActors \/ FailWorld \/ Advance \/ EndPlay \/ EndNextDoomed
    PROVE  PlayInvariant'
<1>1. PlaySound /\ agenda = <<>> /\ call \in Calls
  BY Basics DEF PlayInvariant, RollbackActors, FailWorld, Advance, EndPlay, EndNextDoomed,
                Idle, AtStage, Quiet
<1>2. UNCHANGED <<registered, subsystems>>
  BY DEF RollbackActors, FailWorld, Advance, EndPlay, EndNextDoomed, registries
<1>3. Differ(subsystems, DOMAIN subsystems)'
  BY <1>1, <1>2 DEF PlaySound, Differ
<1>4. CASE RollbackActors
  <2>1. PICK moves : /\ moves = EndActors(SubSeq(registered, 1, call.at)) /\ Dispatch(moves)
                     /\ call.stage = "RollbackActors" /\ call.op # "None"
                     /\ Stage("FailWorld") /\ worldState' = worldState
    BY <1>4 DEF RollbackActors, AtStage
  <2>2. EndsSome(moves) /\ OutOf(moves) \cap Actors = {}
    BY <1>1, <2>1, RollbackEnds
  <2>3. /\ InPlay' = OutOf(moves) /\ OwnershipSound' /\ WholeActors' /\ InPlay' \subseteq InPlay
    BY <1>1, <2>1, <2>2, EndsDispatched
  <2>4. call'.op = call.op /\ call'.stage = "FailWorld"
    BY <1>1, <2>1, Staged DEF Stages
  <2>5. PlaySound'
    BY <1>1, <1>2, <1>3, <2>1, <2>2, <2>3, <2>4 DEF PlaySound, Begun, GaveUp
  <2> QED
    BY <2>3, <2>5 DEF PlayInvariant
<1>5. CASE FailWorld
  <2>1. PICK moves : /\ moves = DeinitializeSubsystems /\ Dispatch(moves)
                     /\ call.stage = "FailWorld" /\ call.op # "None"
                     /\ Stage("Return") /\ worldState' = "Failed"
    BY <1>5 DEF FailWorld, AtStage
  <2>2. EndsSome(moves) /\ OutOf(moves) \cap Subsystems = {}
    BY <1>1, <2>1, DeinitializeEnds
  <2>3. /\ InPlay' = OutOf(moves) /\ OwnershipSound' /\ WholeActors' /\ InPlay' \subseteq InPlay
    BY <1>1, <2>1, <2>2, EndsDispatched
  <2>4. call'.op = call.op /\ call'.stage = "Return"
    BY <1>1, <2>1, Staged DEF Stages
  <2>5. InPlay \cap Actors = {}
    BY <1>1, <2>1 DEF PlaySound
  <2>6. PlaySound'
    BY <1>1, <1>2, <1>3, <2>1, <2>2, <2>3, <2>4, <2>5 DEF PlaySound, Mains
  <2> QED
    BY <2>3, <2>6 DEF PlayInvariant
<1>6. CASE Advance
  <2>1. PICK moves :
           /\ moves = DispatchInOrder(ActorsThatAdvance, [a \in Actors |-> AdvanceSteps(a)])
           /\ Dispatch(moves)
           /\ worldState' = worldState /\ worldState = "Playing"
    BY <1>6 DEF Advance
  <2>2. LifecycleTypeOK /\ registered \in Seq(Actors)
    BY Basics
  <2>3. Proper(moves) /\ OutOf(moves) = Playing
    BY <2>1, <2>2, AdvanceDoes
  <2>4. EndsSome(moves)
    BY <1>1, <2>3, Resting DEF EndsSome
  <2>5. /\ InPlay' = OutOf(moves) /\ OwnershipSound' /\ WholeActors' /\ InPlay' \subseteq InPlay
    BY <1>1, <2>1, <2>4, EndsDispatched
  <2>6. call'.op = "Advance" /\ call'.stage = "Return"
    BY <1>6, AdvanceEntered
  <2>7. PlaySound'
    BY <1>1, <1>2, <1>3, <2>1, <2>5, <2>6 DEF PlaySound, Begun, GaveUp
  <2> QED
    BY <2>5, <2>7 DEF PlayInvariant
<1>7. CASE EndPlay
  <2>1. PICK moves : /\ moves = EndActors(registered) \o DeinitializeSubsystems
                     /\ Dispatch(moves) /\ Enter("EndPlay", "Return") /\ worldState' = "Ended"
    BY <1>7 DEF EndPlay
  <2>2. EndsSome(moves) /\ OutOf(moves) \cap Mains = {}
    BY <1>1, <2>1, EndsEverything
  <2>3. /\ InPlay' = OutOf(moves) /\ OwnershipSound' /\ WholeActors' /\ InPlay' \subseteq InPlay
    BY <1>1, <2>1, <2>2, EndsDispatched
  <2>4. call'.op = "EndPlay" /\ call'.stage = "Return"
    BY <2>1, Entered DEF Ops, Stages
  <2>5. PlaySound'
    BY <1>1, <1>2, <1>3, <2>1, <2>2, <2>3, <2>4 DEF PlaySound
  <2> QED
    BY <2>3, <2>5 DEF PlayInvariant
<1>8. CASE EndNextDoomed
  <2>1. PICK a : /\ a = pendingDestroy[call.at] /\ call.stage = "EndDoomed" /\ call.op # "None"
                 /\ call.at <= Len(pendingDestroy)
                 /\ Dispatch(IF Resolves(a) THEN EndSteps(a) ELSE <<>>)
                 /\ call' = [call EXCEPT !.at = @ + 1, !.error = @ \/ (Resolves(a) /\ EndFails(a))]
                 /\ worldState' = worldState
    BY <1>8 DEF EndNextDoomed, AtStage
  <2>2. LifecycleTypeOK /\ a \in Actors
    BY <1>1, <2>1, CallsAre, Basics DEF WorldInvariant, CallSound
  <2>3. PICK moves : moves = IF Resolves(a) THEN EndSteps(a) ELSE <<>>
    OBVIOUS
  <2>4. moves \in Seq(Steps) /\ <<a>> \in Seq(Mains) /\ EndsAll(moves, <<a>>)
    BY <2>2, <2>3, EndsOne
  <2>5. EndsSome(moves)
    BY <1>1, <2>2, <2>4, Resting, EndsKeepWhole DEF EndsSome
  <2>6. /\ InPlay' = OutOf(moves) /\ OwnershipSound' /\ WholeActors' /\ InPlay' \subseteq InPlay
    BY <1>1, <2>1, <2>3, <2>5, EndsDispatched
  <2>7. call'.op = call.op /\ call'.stage = "EndDoomed"
    BY <1>1, <2>1, WalkOn
  <2>8. PlaySound'
    BY <1>1, <1>2, <1>3, <2>1, <2>6, <2>7 DEF PlaySound, Begun, GaveUp
  <2> QED
    BY <2>6, <2>8 DEF PlayInvariant
<1> QED
  BY <1>4, <1>5, <1>6, <1>7, <1>8

-----------------------------------------------------------------------------
(* The calls and stages that begin what is to play.                        *)

LEMMA BeginOneDoes ==
    ASSUME LifecycleTypeOK, OwnershipSound, \A b \in Actors : Resolves(b) => IsWhole(Playing, b),
           NEW a \in Actors, Resolves(a), NEW moves, moves = BeginSteps(a)
    PROVE  /\ Proper(moves)
           /\ \A b \in Actors : Resolves(b) => IsWhole(OutOf(moves), b)
           /\ OutOf(moves) \cap Mains \subseteq Playing \cup {a}
<1>1. IsWhole(Playing, a) /\ a \in Objects
  BY MainsAre
<1>2. /\ moves \in Seq(Steps)
      /\ \A i \in 1..Len(moves) :
            /\ Resolves(moves[i].of) /\ PartOf(a, moves[i].of)
            /\ lifecycle[a] = "Constructed" /\ lifecycle[moves[i].of] = "Constructed"
            /\ moves[i].of = a => moves[i].to # "Ended"
      /\ \A j \in DOMAIN components[a] : Resolves(components[a][j]) =>
            (OutAt(moves, Len(moves), components[a][j]) <=> OutAt(moves, Len(moves), a))
  BY <1>1, BeginsWhole
<1>3. Len(moves) \in Nat /\ \A i \in 1..Len(moves) : moves[i].of \in Objects
  BY <1>2, MovesAre
<1>4. Proper(moves)
  BY <1>2 DEF Proper, Mains
<1>5. ASSUME NEW x, ~PartOf(a, x) PROVE OutAt(moves, Len(moves), x) <=> lifecycle[x] = "Playing"
  BY <1>2, <1>3, <1>5, UntouchedOut
<1>6. ASSUME NEW b \in Actors, Resolves(b) PROVE IsWhole(OutOf(moves), b)
  <2>1. b \in Objects /\ \A j \in DOMAIN components[b] :
           components[b][j] \in Components /\ components[b][j] \in Objects
    BY MainsAre DEF LifecycleTypeOK
  <2>2. CASE b = a
    BY <1>2, <1>6, <2>1, <2>2 DEF IsWhole, OutOf
  <2>3. CASE b # a
    <3>1. PartOf(b, b) /\ \A j \in DOMAIN components[b] : PartOf(b, components[b][j])
      BY DEF PartOf
    <3>2. ~PartOf(a, b) /\ \A j \in DOMAIN components[b] : ~PartOf(a, components[b][j])
      BY <2>1, <2>3, <3>1, OneOwner
    <3>3. \A x \in Objects : ~PartOf(a, x) => (x \in OutOf(moves) <=> x \in Playing)
      BY <1>5 DEF OutOf, Playing, Plays
    <3>4. IsWhole(Playing, b)
      BY <1>6
    <3> QED
      BY <2>1, <3>2, <3>3, <3>4 DEF IsWhole
  <2> QED
    BY <2>2, <2>3
<1>7. ASSUME NEW x \in Mains, x \in OutOf(moves), x # a PROVE x \in Playing
  BY <1>5, <1>7, MainsAre DEF PartOf, Mains, LifecycleTypeOK, OutOf, Playing, Plays
<1> QED
  BY <1>4, <1>6, <1>7

\* An actor joins the registry and begins.
LEMMA PublishKeepsPlay ==
    ASSUME WorldInvariant, PlayInvariant, agenda = <<>>, NEW a \in Actors, Resolves(a), Publish(a),
           UNCHANGED <<worldState, subsystems>>, call'.op = call.op, call.op # "None",
           \/ call.stage = "BeginSpawns" /\ call'.stage = "BeginSpawns"
           \/ call.stage = "BeginDeferred" /\ call'.stage = "Published"
    PROVE  PlayInvariant'
<1>1. PICK moves : moves = BeginSteps(a)
  OBVIOUS
<1>2. /\ LifecycleTypeOK /\ InPlay = Playing /\ OwnershipSound
      /\ \A b \in Actors : Resolves(b) => IsWhole(Playing, b)
      /\ registered \in Seq(Actors)
  BY Basics, Resting
<1>3. /\ Proper(moves)
      /\ \A b \in Actors : Resolves(b) => IsWhole(OutOf(moves), b)
      /\ OutOf(moves) \cap Mains \subseteq Playing \cup {a}
  BY <1>1, <1>2, BeginOneDoes
<1>4. Dispatch(moves) /\ registered' = Append(registered, a)
  BY <1>1 DEF Publish
<1>5. InPlay' = OutOf(moves) /\ OwnershipSound' /\ WholeActors'
  BY <1>2, <1>3, <1>4, DispatchDoes
<1>6. ToSet(registered) \cup {a} \subseteq ToSet(registered')
  BY <1>2, <1>4 DEF ToSet
<1>7. PlaySound
  BY DEF PlayInvariant
<1>8. InPlay' \cap Mains \subseteq InPlay \cup {a}
  BY <1>2, <1>3, <1>5
<1>9. InPlay' \cap Actors \subseteq ToSet(registered')
  BY <1>6, <1>7, <1>8 DEF PlaySound, Mains
<1>10. InPlay' \cap Subsystems \subseteq ToSet(subsystems')
  BY <1>7, <1>8, MainsAre DEF PlaySound, Mains
<1>11. /\ worldState' = "Playing" /\ call'.stage \in {"BeginSpawns", "Published"}
       /\ call'.stage = "BeginSpawns" => call'.op = "ApplyPending"
  BY <1>7 DEF PlaySound
<1>12. Differ(subsystems, DOMAIN subsystems)'
  BY <1>7 DEF PlaySound, Differ
<1>13. ~(Begun' \/ GaveUp')
  BY <1>11 DEF Begun, GaveUp
<1>14. PlaySound'
  BY <1>9, <1>10, <1>11, <1>12, <1>13 DEF PlaySound
<1> QED
  BY <1>5, <1>14 DEF PlayInvariant

LEMMA SpawningKeepsPlay ==
    ASSUME WorldInvariant, PlayInvariant, BeginNextSpawn \/ BeginNextDeferred
    PROVE  PlayInvariant'
<1>1. agenda = <<>> /\ PlaySound /\ call \in Calls
  BY Basics DEF BeginNextSpawn, BeginNextDeferred, AtStage, Quiet, PlayInvariant
<1>2. CASE BeginNextSpawn
  <2>1. PICK a : /\ a = pendingSpawn[call.at] /\ call.stage = "BeginSpawns" /\ call.op # "None"
                 /\ call.at <= Len(pendingSpawn) /\ UNCHANGED <<worldState, subsystems>>
                 /\ IF Resolves(a) THEN Publish(a)
                    ELSE UNCHANGED <<lifecycleVars, registered, assigned>>
                 /\ call' = [call EXCEPT !.at = @ + 1,
                                         !.error = @ \/ (Resolves(a) /\ BeginFails(a))]
    BY <1>2 DEF BeginNextSpawn, AtStage
  <2>2. call.at \in Nat /\ call.at # 0
    BY <1>1, <2>1, CallsAre DEF WorldInvariant, CallSound
  <2>3. a \in Actors
    BY <2>1, <2>2, Basics DEF Actors
  <2>4. call'.op = call.op /\ call'.stage = "BeginSpawns"
    BY <1>1, <2>1, WalkOn
  <2>5. CASE Resolves(a)
    BY <1>1, <2>1, <2>3, <2>4, <2>5, PublishKeepsPlay
  <2>6. CASE ~Resolves(a)
    BY <1>1, <2>1, <2>4, <2>6, CallGoesOn DEF lifecycleVars, PlaySound, Begun, GaveUp
  <2> QED
    BY <2>5, <2>6
<1>3. CASE BeginNextDeferred
  <2>1. PICK a : a = GetConstructedActor(sealedPublishes[call.at])
    OBVIOUS
  <2>2. /\ call.stage = "BeginDeferred" /\ call.op # "None" /\ a \in TypedActors /\ Resolves(a)
        /\ Publish(a) /\ call'.op = call.op /\ call'.stage = "Published"
        /\ UNCHANGED <<worldState, subsystems>>
    BY <1>3, <2>1, BeginNextDeferredDoes
  <2> QED
    BY <1>1, <2>2, PublishKeepsPlay DEF Actors
<1> QED
  BY <1>2, <1>3

LEMMA BeginningKeepsPlay ==
    ASSUME WorldInvariant, PlayInvariant, InitializeSubsystems \/ BeginActors \/ EndDeferred
    PROVE  PlayInvariant'
<1>1. /\ agenda = <<>> /\ PlaySound /\ call \in Calls
      /\ UNCHANGED <<worldState, registered, subsystems>>
  BY Basics DEF InitializeSubsystems, BeginActors, EndDeferred, AtStage, Quiet, PlayInvariant,
                registries
<1>2. /\ LifecycleTypeOK /\ InPlay = Playing /\ OwnershipSound
      /\ \A b \in Actors : Resolves(b) => IsWhole(Playing, b)
      /\ registered \in Seq(Actors) /\ Differ(registered, DOMAIN registered)
      /\ subsystems \in Seq(Subsystems) /\ DOMAIN registered = 1..Len(registered)
  BY <1>1, Basics, Resting
<1>3. Differ(subsystems, DOMAIN subsystems) /\ Differ(subsystems, DOMAIN subsystems)'
  BY <1>1 DEF PlaySound, Differ
<1>4. CASE InitializeSubsystems
  <2>1. PICK ready : ready = Prefix(subsystems, {s \in Subsystems : Begins(s)})
    OBVIOUS
  <2>2. PICK moves : moves = IF ready = subsystems THEN Each(ready, "Playing")
                             ELSE Each(ready, "Playing") \o RollbackSteps(ready)
    OBVIOUS
  <2>3. /\ Dispatch(moves) /\ Stage(IF ready = subsystems THEN "Actors" ELSE "Failed")
        /\ call.stage = "Subsystems" /\ call.op # "None"
    BY <1>4, <2>1, <2>2 DEF InitializeSubsystems, AtStage
  <2>4. InPlay \cap Mains = {}
    BY <1>1, <2>3 DEF PlaySound, Begun
  <2>5. \A s \in Subsystems : Resolves(s) => ~Plays(s)
    BY <1>2, <2>4, MainsAre DEF Playing, Mains
  <2>6. Initialized(moves, ready)
    BY <1>2, <1>3, <2>1, <2>2, <2>5, InitializeDoes
  <2>7. /\ Proper(moves)
        /\ \A a \in Actors : Resolves(a) => IsWhole(OutOf(moves), a)
        /\ OutOf(moves) \cap Actors = Playing \cap Actors
        /\ ready = subsystems => OutOf(moves) \cap Subsystems = ToSet(subsystems)
        /\ ready # subsystems => OutOf(moves) \cap Subsystems = {}
    BY <2>6 DEF Initialized
  <2>8. InPlay' = OutOf(moves) /\ OwnershipSound' /\ WholeActors'
    BY <1>1, <1>2, <2>3, <2>7, DispatchDoes
  <2>9. /\ call'.op = call.op /\ call'.stage = IF ready = subsystems THEN "Actors" ELSE "Failed"
    BY <1>1, <2>3, Staged DEF Stages
  <2>10. InPlay' \cap Actors = {} /\ worldState' = "Playing"
    BY <1>1, <1>2, <2>3, <2>4, <2>7, <2>8 DEF Mains, PlaySound
  <2>11. InPlay' \cap Subsystems \subseteq ToSet(subsystems)
    BY <2>7, <2>8
  <2>12. call'.stage = "Failed" => InPlay' \cap Mains = {}
    BY <2>7, <2>8, <2>9, <2>10 DEF Mains
  <2>13. PlaySound'
    BY <1>1, <1>3, <2>9, <2>10, <2>11, <2>12 DEF PlaySound, Begun, GaveUp
  <2> QED
    BY <2>8, <2>13 DEF PlayInvariant
<1>5. CASE BeginActors
  <2>1. PICK moves : moves = DispatchInOrder(ActorsThatBegin, [a \in Actors |-> BeginSteps(a)])
    OBVIOUS
  <2>2. PICK begun : begun = Prefix(registered, ActorsThatBegin)
    OBVIOUS
  <2>3. /\ Dispatch(moves) /\ call.stage = "Actors" /\ call.op # "None"
        /\ IF begun = registered THEN Stage("BeginDeferred")
           ELSE call' = [call EXCEPT !.stage = "RollbackActors", !.at = Len(begun)]
    BY <1>5, <2>1, <2>2 DEF BeginActors, AtStage
  <2>4. Playing \cap Actors = {}
    BY <1>1, <1>2, <2>3 DEF PlaySound
  <2>5. BeginsFirst(moves, Len(begun))
    BY <1>2, <2>1, <2>2, <2>4, BeginActorsDo
  <2>6. /\ Proper(moves)
        /\ \A a \in Actors : Resolves(a) => IsWhole(OutOf(moves), a)
        /\ OutOf(moves) \cap Subsystems = Playing \cap Subsystems
        /\ \A a \in OutOf(moves) \cap Actors : \E i \in 1..Len(begun) : registered[i] = a
    BY <2>5 DEF BeginsFirst
  <2>7. InPlay' = OutOf(moves) /\ OwnershipSound' /\ WholeActors'
    BY <1>1, <1>2, <2>3, <2>6, DispatchDoes
  <2>8. Len(begun) \in 0..Len(registered) /\ Len(registered) \in Nat
    BY <1>2, <2>2, PrefixAble DEF IsAblePart
  <2>9. /\ call'.op = call.op /\ call'.stage \in {"BeginDeferred", "RollbackActors"}
        /\ call'.stage = "RollbackActors" => call'.at = Len(begun)
    <3>1. CASE begun = registered
      BY <1>1, <2>3, <3>1, Staged DEF Stages
    <3>2. CASE begun # registered
      BY <1>1, <2>3, <3>2 DEF Calls
    <3> QED
      BY <3>1, <3>2
  <2>10. worldState' = "Playing"
    BY <1>1, <2>3 DEF PlaySound
  <2>11. ASSUME NEW a \in InPlay' \cap Actors
         PROVE  /\ a \in ToSet(registered)
                /\ \A i \in DOMAIN registered : registered[i] = a => i <= Len(begun)
    <3>1. PICK k \in 1..Len(begun) : registered[k] = a
      BY <2>6, <2>7
    <3>2. k \in DOMAIN registered
      BY <1>2, <2>8
    <3> QED
      BY <1>2, <2>8, <3>1, <3>2 DEF ToSet, Differ
  <2>12. InPlay' \cap Subsystems \subseteq ToSet(subsystems)
    BY <1>1, <1>2, <2>6, <2>7 DEF PlaySound
  <2>13. \A i \in DOMAIN registered : registered[i] \in InPlay' => i <= Len(begun)
    BY <1>2, <2>11
  <2>14. PlaySound'
    BY <1>1, <1>3, <2>9, <2>10, <2>11, <2>12, <2>13 DEF PlaySound, Begun, GaveUp
  <2> QED
    BY <2>7, <2>14 DEF PlayInvariant
<1>6. CASE EndDeferred
  <2>1. /\ call.stage = "BeginDeferred" /\ call.op # "None"
        /\ IF call.op = "BeginPlay" /\ call.error
           THEN Dispatch(EndActors(registered) \o DeinitializeSubsystems) /\ Stage("Failed")
           ELSE Return /\ UNCHANGED lifecycleVars
    BY <1>6 DEF EndDeferred, AtStage
  <2>2. worldState = "Playing"
    BY <1>1, <2>1 DEF PlaySound
  <2>3. CASE call.op = "BeginPlay" /\ call.error
    <3>1. PICK moves : moves = EndActors(registered) \o DeinitializeSubsystems
      OBVIOUS
    <3>2. Dispatch(moves) /\ Stage("Failed")
      BY <2>1, <2>3, <3>1
    <3>3. EndsSome(moves) /\ OutOf(moves) \cap Mains = {}
      BY <1>1, <3>1, EndsEverything
    <3>4. /\ InPlay' = OutOf(moves) /\ OwnershipSound' /\ WholeActors' /\ InPlay' \subseteq InPlay
      BY <1>1, <3>2, <3>3, EndsDispatched
    <3>5. call'.op = call.op /\ call'.stage = "Failed"
      BY <1>1, <3>2, Staged DEF Stages
    <3>6. PlaySound'
      BY <1>1, <1>3, <2>2, <3>3, <3>4, <3>5 DEF PlaySound, Begun, GaveUp
    <3> QED
      BY <3>4, <3>6 DEF PlayInvariant
  <2>4. CASE ~(call.op = "BeginPlay" /\ call.error)
    BY <1>1, <2>1, <2>2, <2>4, NoCallIs, CallGoesOn DEF Return, lifecycleVars, PlaySound, Begun,
       GaveUp
  <2> QED
    BY <2>3, <2>4
<1> QED
  BY <1>4, <1>5, <1>6

-----------------------------------------------------------------------------
(* A move is made: what the call still has to make comes out the same.     *)

LEMMA ShiftOut ==
    ASSUME LifecycleTypeOK, DispatchStep, NEW x \in Objects, NEW k \in Nat, k + 1 <= Len(agenda)
    PROVE  OutAt(agenda, k, x)' <=> OutAt(agenda, k + 1, x)
<1>1. /\ agenda \in Seq(Steps) /\ agenda # <<>> /\ agenda' = Tail(agenda)
      /\ lifecycle \in [Objects -> Phases]
      /\ lifecycle' = [lifecycle EXCEPT ![Head(agenda).of] = Head(agenda).to]
  BY DEF LifecycleTypeOK, DispatchStep
<1>2. Len(agenda) \in Nat /\ Head(agenda) = agenda[1]
  BY <1>1
<1>3. lifecycle'[x] = IF agenda[1].of = x THEN agenda[1].to ELSE lifecycle[x]
  BY <1>1, <1>2
<1>4. \A i \in 1..k : agenda'[i] = agenda[i + 1] /\ i + 1 \in 2..(k + 1)
  BY <1>1, <1>2
<1>5. \A i \in 2..(k + 1) : i - 1 \in 1..k /\ agenda'[i - 1] = agenda[i]
  BY <1>4
<1> DEFINE comes(i) == agenda[i].of = x /\ agenda[i].to = "Playing"
           goes(i) == agenda[i].of = x /\ agenda[i].to # "Playing"
           comesNext(i) == agenda'[i].of = x /\ agenda'[i].to = "Playing"
           goesNext(i) == agenda'[i].of = x /\ agenda'[i].to # "Playing"
<1>6. /\ \A i \in 1..k : (comesNext(i) <=> comes(i + 1)) /\ (goesNext(i) <=> goes(i + 1))
      /\ \A i \in 2..(k + 1) : (comesNext(i - 1) <=> comes(i)) /\ (goesNext(i - 1) <=> goes(i))
  BY <1>4, <1>5
<1>7. /\ OutAt(agenda, k + 1, x) <=>
            /\ lifecycle[x] = "Playing" \/ \E i \in 1..(k + 1) : comes(i)
            /\ \A i \in 1..(k + 1) : goes(i) => \E j \in (i + 1)..(k + 1) : comes(j)
      /\ OutAt(agenda, k, x)' <=>
            /\ lifecycle'[x] = "Playing" \/ \E i \in 1..k : comesNext(i)
            /\ \A i \in 1..k : goesNext(i) => \E j \in (i + 1)..k : comesNext(j)
  BY DEF OutAt
<1>8. /\ comes(1) => lifecycle'[x] = "Playing" /\ ~goes(1)
      /\ goes(1) => lifecycle'[x] # "Playing" /\ ~comes(1)
      /\ ~comes(1) /\ ~goes(1) => lifecycle'[x] = lifecycle[x]
  BY <1>3
<1> HIDE DEF comes, goes, comesNext, goesNext
<1>9. (\E i \in 1..k : comesNext(i)) <=> \E i \in 2..(k + 1) : comes(i)
  BY <1>4, <1>5, <1>6
<1>10. (\E i \in 1..(k + 1) : comes(i)) <=> comes(1) \/ \E i \in 2..(k + 1) : comes(i)
  OBVIOUS
<1>11. (\A i \in 1..(k + 1) : goes(i) => \E j \in (i + 1)..(k + 1) : comes(j)) <=>
          /\ goes(1) => \E j \in 2..(k + 1) : comes(j)
          /\ \A i \in 2..(k + 1) : goes(i) => \E j \in (i + 1)..(k + 1) : comes(j)
  <2>1. \A i \in 1..(k + 1) : i = 1 \/ i \in 2..(k + 1)
    OBVIOUS
  <2>2. 1 \in 1..(k + 1) /\ \A i \in 2..(k + 1) : i \in 1..(k + 1)
    OBVIOUS
  <2>3. 1 + 1 = 2
    OBVIOUS
  <2> QED
    BY <2>1, <2>2, <2>3
<1>12. ASSUME NEW i \in 1..k
       PROVE  (\E j \in (i + 1)..k : comesNext(j)) <=> \E j \in ((i + 1) + 1)..(k + 1) : comes(j)
  <2>1. ASSUME NEW j \in (i + 1)..k, comesNext(j)
        PROVE  j + 1 \in ((i + 1) + 1)..(k + 1) /\ comes(j + 1)
    BY <1>6, <2>1
  <2>2. ASSUME NEW j \in ((i + 1) + 1)..(k + 1), comes(j)
        PROVE  j - 1 \in (i + 1)..k /\ comesNext(j - 1)
    BY <1>6, <2>2
  <2> QED
    BY <2>1, <2>2
<1>13. (\A i \in 1..k : goesNext(i) => \E j \in (i + 1)..k : comesNext(j)) <=>
          \A i \in 2..(k + 1) : goes(i) => \E j \in (i + 1)..(k + 1) : comes(j)
  <2>1. ASSUME \A i \in 1..k : goesNext(i) => \E j \in (i + 1)..k : comesNext(j),
               NEW i \in 2..(k + 1), goes(i)
        PROVE  \E j \in (i + 1)..(k + 1) : comes(j)
    <3>1. PICK p \in 1..k : p = i - 1 /\ p + 1 = i
      BY <1>5
    <3>2. goesNext(p)
      BY <1>6, <2>1, <3>1
    <3> QED
      BY <1>12, <2>1, <3>1, <3>2
  <2>2. ASSUME \A i \in 2..(k + 1) : goes(i) => \E j \in (i + 1)..(k + 1) : comes(j),
               NEW i \in 1..k, goesNext(i)
        PROVE  \E j \in (i + 1)..k : comesNext(j)
    BY <1>4, <1>6, <1>12, <2>2
  <2> QED
    BY <2>1, <2>2
<1> QED
  BY <1>7, <1>8, <1>9, <1>10, <1>11, <1>13

LEMMA MovesLeft ==
    ASSUME LifecycleTypeOK, DispatchStep
    PROVE  /\ InPlay' = InPlay /\ Fresh \subseteq Fresh'
           /\ UNCHANGED <<object, components>>
<1>1. /\ agenda \in Seq(Steps) /\ agenda # <<>> /\ agenda' = Tail(agenda)
      /\ lifecycle \in [Objects -> Phases] /\ UNCHANGED <<object, components>>
      /\ lifecycle' = [lifecycle EXCEPT ![Head(agenda).of] = Head(agenda).to]
  BY DEF LifecycleTypeOK, DispatchStep
<1>2. /\ Len(agenda) \in Nat /\ Len(agenda) # 0 /\ Head(agenda) = agenda[1] /\ 1 \in DOMAIN agenda
      /\ Len(agenda') = Len(agenda) - 1 /\ Len(agenda) - 1 \in Nat
  BY <1>1
<1>3. PICK n \in Nat : n = Len(agenda) - 1
  BY <1>2
<1>4. Len(agenda) = n + 1 /\ Len(agenda') = n
  BY <1>2, <1>3
<1>5. ASSUME NEW x \in Objects PROVE OutAt(agenda, n, x)' <=> OutAt(agenda, n + 1, x)
  BY <1>4, ShiftOut
<1>6. \A x \in Objects : OutAt(agenda, Len(agenda), x)' <=> OutAt(agenda, Len(agenda), x)
  BY <1>4, <1>5 DEF OutAt
<1>7. InPlay' = InPlay
  BY <1>1, <1>6 DEF InPlay, OutOf, Resolves
<1>8. ASSUME NEW x \in Fresh PROVE x \in Fresh'
  <2>1. x \in Objects /\ lifecycle[x] = "Constructed" /\ \A i \in DOMAIN agenda : agenda[i].of # x
    BY DEF Fresh, Touches
  <2>2. lifecycle'[x] = "Constructed"
    BY <1>1, <1>2, <2>1
  <2>3. \A i \in DOMAIN agenda' : agenda'[i] = agenda[i + 1] /\ i + 1 \in DOMAIN agenda
    BY <1>1, <1>2
  <2> QED
    BY <2>1, <2>2, <2>3 DEF Fresh, Touches
<1> QED
  BY <1>1, <1>7, <1>8

LEMMA MoveKeepsPlay ==
    ASSUME WorldInvariant, PlayInvariant, Dispatching
    PROVE  PlayInvariant'
<1>1. /\ DispatchStep /\ LifecycleTypeOK
      /\ UNCHANGED <<worldState, registered, subsystems, call>>
  BY Basics DEF Dispatching, registries
<1>2. InPlay' = InPlay /\ Fresh \subseteq Fresh' /\ UNCHANGED <<object, components>>
  BY <1>1, MovesLeft
<1>3. OwnershipSound'
  <2>1. OwnershipSound /\ UNCHANGED <<object, components>>
    BY <1>2 DEF PlayInvariant
  <2>2. \A x : Owned(x)' <=> Owned(x)
    BY <2>1 DEF Owned
  <2>3. \A c \in Components : (c \in Fresh \/ Owned(c))'
    BY <1>2, <2>1, <2>2 DEF OwnershipSound
  <2>4. \A x \in Objects : object'[x] = "Unborn" =>
           x \in Fresh' /\ ~Owned(x)' /\ (x \in Actors => components'[x] = <<>>)
    BY <1>2, <2>1, <2>2 DEF OwnershipSound
  <2> QED
    BY <2>1, <2>3, <2>4 DEF OwnershipSound, Resolves
<1>4. WholeActors'
  BY <1>2 DEF PlayInvariant, WholeActors, IsWhole, Resolves
<1>5. PlaySound'
  BY <1>1, <1>2 DEF PlayInvariant, PlaySound, Begun, GaveUp, Differ
<1> QED
  BY <1>3, <1>4, <1>5 DEF PlayInvariant

-----------------------------------------------------------------------------
(* Objects are destroyed, while no call is moving any.                     *)

LEMMA DestroyingKeepsPlay ==
    ASSUME WorldInvariant, PlayInvariant, agenda = <<>>, NEW S, object' = Destroyed(S),
           UNCHANGED <<lifecycle, components, agenda>>,
           \A a \in Actors \ Loseable : a \in S => ToSet(components[a]) \subseteq S
    PROVE  InPlay' = InPlay \ S /\ OwnershipSound' /\ WholeActors'
<1>1. \A x \in Objects : object'[x] = IF x \in S THEN "Dead" ELSE object[x]
  BY DEF Destroyed
<1>2. \A x \in Objects : Resolves(x)' <=> Resolves(x) /\ x \notin S
  BY <1>1 DEF Resolves
<1>3. InPlay' = InPlay \ S
  BY <1>2 DEF InPlay, OutOf, OutAt
<1>4. Fresh' = Fresh
  BY DEF Fresh, Touches
<1>5. /\ Actors \subseteq Objects
      /\ \A a \in Actors : \A j \in DOMAIN components[a] : components[a][j] \in Objects
  BY Basics, MainsAre
<1>6. WholeActors'
  BY <1>2, <1>3, <1>5 DEF PlayInvariant, WholeActors, IsWhole
<1>7. OwnershipSound'
  <2>1. OwnershipSound
    BY DEF PlayInvariant
  <2>2. \A x : Owned(x)' <=> Owned(x)
    BY DEF Owned
  <2>3. \A x \in Objects : object'[x] = "Unborn" =>
           x \in Fresh' /\ ~Owned(x)' /\ (x \in Actors => components'[x] = <<>>)
    BY <1>1, <1>4, <2>1, <2>2 DEF OwnershipSound
  <2>4. ASSUME NEW a \in Actors \ Loseable, object'[a] = "Dead", NEW j \in DOMAIN components[a]
        PROVE  ~Resolves(components[a][j])'
    <3>1. a \in Objects /\ components[a][j] \in Objects
      BY <1>5
    <3>2. CASE a \in S
      BY <1>2, <3>1, <3>2 DEF ToSet
    <3>3. CASE a \notin S
      BY <1>1, <1>2, <2>1, <2>4, <3>1, <3>3 DEF OwnershipSound
    <3> QED
      BY <3>2, <3>3
  <2> QED
    BY <1>4, <2>1, <2>2, <2>3, <2>4 DEF OwnershipSound
<1> QED
  BY <1>3, <1>6, <1>7

\* What is destroyed with its components leaves none behind.
LEMMA TakenAlong ==
    ASSUME NEW dead, dead \subseteq Actors, LifecycleTypeOK
    PROVE  /\ \A a \in Actors : a \in WithComponents(dead) => a \in dead
           /\ \A a \in dead : ToSet(components[a]) \subseteq WithComponents(dead)
<1>1. \A a \in Actors : ToSet(components[a]) \subseteq Components
  BY DEF LifecycleTypeOK, ToSet
<1> QED
  BY <1>1, MainsAre DEF WithComponents

LEMMA DestructionKeepsPlay ==
    ASSUME WorldInvariant, PlayInvariant,
           \/ \E x \in Loseable : LoseObject(x)
           \/ FailConstruction \/ MarkAndUnregisterDoomedActors
    PROVE  PlayInvariant'
<1>1. /\ PlaySound /\ agenda = <<>> /\ call \in Calls /\ LifecycleTypeOK
      /\ UNCHANGED <<lifecycle, components, agenda, subsystems>>
  BY Basics DEF PlayInvariant, LoseObject, FailConstruction, MarkAndUnregisterDoomedActors,
                Idle, AtStage, Quiet, registries
<1>2. Differ(subsystems, DOMAIN subsystems)'
  BY <1>1 DEF PlaySound, Differ
<1>3. ASSUME NEW x \in Loseable, LoseObject(x) PROVE PlayInvariant'
  <2>1. object' = Destroyed({x}) /\ UNCHANGED <<worldState, registered, subsystems, call>>
    BY <1>3 DEF LoseObject, registries
  <2>2. InPlay' = InPlay \ {x} /\ OwnershipSound' /\ WholeActors'
    BY <1>1, <2>1, DestroyingKeepsPlay
  <2>3. PlaySound'
    BY <1>1, <1>2, <2>1, <2>2 DEF PlaySound, Begun, GaveUp
  <2> QED
    BY <2>2, <2>3 DEF PlayInvariant
<1>4. CASE FailConstruction
  <2>1. PICK dead : /\ dead \subseteq Actors /\ object' = Destroyed(WithComponents(dead))
                    /\ call.op = "BeginPlay" /\ call.stage = "Construct"
                    /\ worldState' = "Failed" /\ call' = NoCall
                    /\ UNCHANGED <<registered, subsystems>>
    <3>1. PICK made : /\ object' =
                           Destroyed(WithComponents({a \in made \cap TypedActors : Resolves(a)}))
                      /\ call.op = "BeginPlay" /\ call.stage = "Construct"
                      /\ worldState' = "Failed" /\ call' = NoCall
                      /\ UNCHANGED <<registered, subsystems>>
      BY <1>4 DEF FailConstruction, AtStage, Return, registries
    <3>2. {a \in made \cap TypedActors : Resolves(a)} \subseteq Actors
      BY DEF Actors
    <3> QED
      BY <3>1, <3>2
  <2>2. PICK S : S = WithComponents(dead)
    OBVIOUS
  <2>3. \A a \in Actors : a \in S => ToSet(components[a]) \subseteq S
    BY <1>1, <2>1, <2>2, TakenAlong
  <2>4. InPlay' = InPlay \ S /\ OwnershipSound' /\ WholeActors'
    BY <1>1, <2>1, <2>2, <2>3, DestroyingKeepsPlay
  <2>5. InPlay \cap Mains = {}
    BY <1>1, <2>1 DEF PlaySound, Begun
  <2>6. PlaySound'
    BY <1>1, <1>2, <2>1, <2>4, <2>5, NoCallIs DEF PlaySound
  <2> QED
    BY <2>4, <2>6 DEF PlayInvariant
<1>5. CASE MarkAndUnregisterDoomedActors
  <2>1. PICK dead : /\ dead = {a \in ToSet(pendingDestroy) : Resolves(a)}
                    /\ object' = Destroyed(WithComponents(dead))
                    /\ registered' = Kept(registered, Actors \ dead)
                    /\ call.op # "None" /\ call.stage = "EndDoomed"
                    /\ call' = [call EXCEPT !.stage = "BeginSpawns", !.at = 1]
                    /\ UNCHANGED <<worldState, subsystems>>
    BY <1>5 DEF MarkAndUnregisterDoomedActors, AtStage
  <2>2. dead \subseteq Actors
    BY <2>1, Basics DEF ToSet
  <2>3. PICK S : S = WithComponents(dead)
    OBVIOUS
  <2>4. /\ \A a \in Actors : a \in S => ToSet(components[a]) \subseteq S
        /\ dead \subseteq S
    BY <1>1, <2>2, <2>3, TakenAlong DEF WithComponents
  <2>5. InPlay' = InPlay \ S /\ OwnershipSound' /\ WholeActors'
    BY <1>1, <2>1, <2>3, <2>4, DestroyingKeepsPlay
  <2>6. /\ registered' \in Seq(Actors)
        /\ \A a : Contains(registered', a) <=> Contains(registered, a) /\ a \in Actors \ dead
    BY <2>1, Basics, UnregisterDoes
  <2>7. ASSUME NEW a \in InPlay' \cap Actors PROVE a \in ToSet(registered')
    <3>1. a \in ToSet(registered) /\ a \notin dead
      BY <1>1, <2>4, <2>5 DEF PlaySound
    <3>2. Contains(registered, a)
      BY <3>1, Basics, ContainsIs DEF ToSet
    <3>3. Contains(registered', a)
      BY <2>6, <3>1, <3>2
    <3> QED
      BY <2>6, <3>3, ContainsIs DEF ToSet
  <2>8. call'.op = call.op /\ call'.stage = "BeginSpawns"
    BY <1>1, <2>1 DEF Calls
  <2>9. PlaySound'
    BY <1>1, <1>2, <2>1, <2>5, <2>7, <2>8 DEF PlaySound, Begun, GaveUp
  <2> QED
    BY <2>5, <2>9 DEF PlayInvariant
<1> QED
  BY <1>3, <1>4, <1>5

-----------------------------------------------------------------------------
(* Components join their actor.                                            *)

LEMMA JoiningKeepsPlay ==
    ASSUME WorldInvariant, PlayInvariant, NEW a \in Actors, NEW c \in Components,
           RegisterComponentOf(a, c)
    PROVE  PlayInvariant'
<1>1. /\ agenda = <<>> /\ PlaySound /\ OwnershipSound /\ WholeActors
      /\ UNCHANGED <<lifecycle, object, agenda, worldState, registered, subsystems, call>>
      /\ Resolves(a) /\ lifecycle[a] = "Constructed" /\ ~HasOwner(c)
      /\ components' = [components EXCEPT ![a] = Append(@, c)]
  BY DEF RegisterComponentOf, RegisterComponent, Idle, Quiet, PlayInvariant, registries
<1>2. /\ DOMAIN components = Actors /\ a \in Objects /\ c \in Objects
      /\ \A b \in Actors : components[b] \in Seq(Components)
      /\ \A b \in Actors : \A j \in DOMAIN components[b] : components[b][j] \in Components
  BY Basics, MainsAre DEF LifecycleTypeOK
<1>3. /\ \A b \in Actors : b # a => components'[b] = components[b]
      /\ components'[a] = Append(components[a], c)
  BY <1>1, <1>2
<1>4. \A b \in Actors : \A j \in DOMAIN components[b] : components[b][j] # c
  BY <1>1, <1>2, ContainsIs DEF HasOwner
<1>5. ~Owned(c) /\ c \in Fresh
  BY <1>1, <1>4 DEF Owned, OwnershipSound
<1>6. /\ Len(components[a]) \in Nat /\ DOMAIN components[a] = 1..Len(components[a])
      /\ DOMAIN components'[a] = 1..(Len(components[a]) + 1)
      /\ \A j \in DOMAIN components[a] : components'[a][j] = components[a][j]
      /\ components'[a][Len(components[a]) + 1] = c
  BY <1>2, <1>3
<1>7. \A j \in DOMAIN components'[a] :
         \/ j \in DOMAIN components[a] /\ components'[a][j] = components[a][j]
         \/ j = Len(components[a]) + 1 /\ components'[a][j] = c
  BY <1>6
<1>8. Fresh' = Fresh /\ InPlay' = InPlay
  BY <1>1 DEF Fresh, InPlay, OutOf, OutAt, Touches, Resolves
<1>9. a \notin InPlay /\ c \notin InPlay
  BY <1>1, <1>5, AtRest DEF Playing, Plays, Fresh
<1>10. \A x : Owned(x)' => Owned(x) \/ x = c
  BY <1>3, <1>7 DEF Owned
<1>11. \A x : Owned(x) => Owned(x)'
  <2>1. ASSUME NEW x, NEW b \in Actors, NEW j \in DOMAIN components[b], components[b][j] = x
        PROVE  j \in DOMAIN components'[b] /\ components'[b][j] = x
    BY <1>3, <1>6, <2>1
  <2> QED
    BY <2>1 DEF Owned
<1>12. OwnershipSound'
  <2>1. ASSUME NEW b \in Actors, NEW d \in Actors, NEW i \in DOMAIN components'[b],
               NEW j \in DOMAIN components'[d], components'[b][i] = components'[d][j]
        PROVE  b = d /\ i = j
    <3>1. CASE components'[b][i] = c
      <4>1. ASSUME NEW e \in Actors, NEW k \in DOMAIN components'[e], components'[e][k] = c
            PROVE  e = a /\ k = Len(components[a]) + 1
        <5>1. e = a
          BY <1>3, <1>4, <4>1
        <5>2. k \in DOMAIN components'[a] /\ components'[a][k] = c
          BY <4>1, <5>1
        <5>3. ~(k \in DOMAIN components[a] /\ components'[a][k] = components[a][k])
          BY <1>4, <5>2
        <5> QED
          BY <1>7, <5>1, <5>2, <5>3
      <4>2. components'[d][j] = c
        BY <2>1, <3>1
      <4>3. b = a /\ i = Len(components[a]) + 1 /\ d = a /\ j = Len(components[a]) + 1
        BY <3>1, <4>1, <4>2
      <4> QED
        BY <4>3
    <3>2. CASE components'[b][i] # c
      BY <1>1, <1>3, <1>7, <2>1, <3>2 DEF OwnershipSound
    <3> QED
      BY <3>1, <3>2
  <2>2. ASSUME NEW x \in Objects, object'[x] = "Unborn"
        PROVE  x \in Fresh' /\ ~Owned(x)' /\ (x \in Actors => components'[x] = <<>>)
    BY <1>1, <1>3, <1>8, <1>10, <2>2 DEF Resolves, RegisterComponent, RegisterComponentOf,
       OwnershipSound
  <2>3. \A x \in Components : x \in Fresh' \/ Owned(x)'
    BY <1>1, <1>8, <1>11 DEF OwnershipSound
  <2>4. ASSUME NEW b \in Actors \ Loseable, object'[b] = "Dead", NEW j \in DOMAIN components'[b]
        PROVE  ~Resolves(components[b][j])'
    BY <1>1, <1>3, <2>4 DEF Resolves, OwnershipSound
  <2> QED
    BY <2>1, <2>2, <2>3, <2>4 DEF OwnershipSound
<1>13. WholeActors'
  <2>1. ASSUME NEW b \in Actors, Resolves(b)', NEW j \in DOMAIN components'[b],
               Resolves(components[b][j])'
        PROVE  components'[b][j] \in InPlay' <=> b \in InPlay'
    <3>1. CASE j \in DOMAIN components[b] /\ components'[b][j] = components[b][j]
      BY <1>1, <1>8, <2>1, <3>1 DEF WholeActors, IsWhole, Resolves
    <3>2. CASE b = a /\ components'[b][j] = c
      BY <1>8, <1>9, <3>2
    <3> QED
      BY <1>3, <1>7, <2>1, <3>1, <3>2
  <2> QED
    BY <2>1 DEF WholeActors, IsWhole
<1>14. PlaySound'
  BY <1>1, <1>8 DEF PlaySound, Begun, GaveUp, Differ
<1> QED
  BY <1>12, <1>13, <1>14 DEF PlayInvariant

\* An actor is born with its default components.
LEMMA BirthKeepsPlay ==
    ASSUME WorldInvariant, PlayInvariant, agenda = <<>>, NEW a \in TypedActors,
           NEW made \in DefaultSubobjects, Born(a, made)
    PROVE  InPlay' = InPlay /\ OwnershipSound' /\ WholeActors'
<1>1. /\ LifecycleTypeOK /\ PlaySound /\ OwnershipSound /\ WholeActors /\ a \in Actors
      /\ a \in Objects
      /\ \A b \in Actors : \A j \in DOMAIN components[b] :
            components[b][j] \in Components /\ components[b][j] \in Objects
  BY Basics, MainsAre DEF PlayInvariant, Actors
<1>2. /\ made \in Seq(Components)
      /\ \A i \in DOMAIN made : made[i] \in DefaultComponents /\ object[made[i]] = "Unborn"
      /\ \A i, j \in DOMAIN made : made[i] = made[j] => i = j
  BY DefaultSubobjectsAre
<1>3. /\ object[a] = "Unborn" /\ UNCHANGED <<lifecycle, agenda>>
      /\ components'[a] = made /\ \A b \in Actors : b # a => components'[b] = components[b]
  BY <1>1, BornDoes DEF Born
<1>4. \A x \in Objects :
         object'[x] = IF x \in {a} \cup ToSet(made) THEN "Live" ELSE object[x]
  BY DEF Born
<1>5. \A x \in ToSet(made) : x \in Components /\ x \in Objects /\ object[x] = "Unborn"
  BY <1>2, MainsAre DEF ToSet
<1>6. \A x \in {a} \cup ToSet(made) : x \in Objects /\ x \in Fresh /\ ~Owned(x)
  BY <1>1, <1>3, <1>5 DEF OwnershipSound
<1>7. Fresh' = Fresh
  BY <1>3 DEF Fresh, Touches
<1>8. InPlay' = InPlay
  <2>1. \A x \in Objects : OutAt(agenda, Len(agenda), x)' <=> OutAt(agenda, Len(agenda), x)
    BY <1>3 DEF OutAt
  <2>2. \A x \in Fresh : ~OutAt(agenda, Len(agenda), x)
    BY DEF OutAt, Fresh
  <2>3. \A x \in Objects : Resolves(x)' <=> Resolves(x) \/ x \in {a} \cup ToSet(made)
    BY <1>4 DEF Resolves
  <2> QED
    BY <1>6, <2>1, <2>2, <2>3 DEF InPlay, OutOf
<1>9. \A x \in {a} \cup ToSet(made) : x \notin InPlay
  BY <1>6, AtRest DEF Playing, Plays, Fresh
<1>10. \A b \in Actors : \A j \in DOMAIN components[b] : components[b][j] \notin ToSet(made)
  BY <1>6 DEF Owned
<1>11. \A b \in Actors : b \notin ToSet(made)
  BY <1>5, MainsAre
<1>12. \A j \in DOMAIN components'[a] : components'[a][j] \in ToSet(made)
  BY <1>3 DEF ToSet
<1>13. WholeActors'
  <2>1. ASSUME NEW b \in Actors, Resolves(b)', NEW j \in DOMAIN components'[b],
               Resolves(components[b][j])'
        PROVE  components'[b][j] \in InPlay' <=> b \in InPlay'
    <3>1. CASE b = a
      BY <1>8, <1>9, <1>12, <2>1, <3>1
    <3>2. CASE b # a
      BY <1>1, <1>3, <1>4, <1>8, <1>10, <1>11, <2>1, <3>2, MainsAre DEF Resolves, WholeActors,
         IsWhole
    <3> QED
      BY <3>1, <3>2
  <2> QED
    BY <2>1 DEF WholeActors, IsWhole
<1>14. \A x : Owned(x) => Owned(x)'
  <2>1. components[a] = <<>> /\ DOMAIN <<>> = {}
    BY <1>1, <1>3 DEF OwnershipSound
  <2>2. ASSUME NEW x, NEW b \in Actors, NEW j \in DOMAIN components[b], components[b][j] = x
        PROVE  j \in DOMAIN components'[b] /\ components'[b][j] = x
    BY <1>3, <2>1, <2>2
  <2> QED
    BY <2>2 DEF Owned
<1>15. \A x : Owned(x)' => Owned(x) \/ x \in ToSet(made)
  BY <1>3, <1>12 DEF Owned
<1>16. OwnershipSound'
  <2>1. ASSUME NEW b \in Actors, NEW d \in Actors, NEW i \in DOMAIN components'[b],
               NEW j \in DOMAIN components'[d], components'[b][i] = components'[d][j]
        PROVE  b = d /\ i = j
    <3>1. CASE b = a \/ d = a
      <4>1. b = a => components'[b][i] \in ToSet(made)
        BY <1>12
      <4>2. d = a => components'[d][j] \in ToSet(made)
        BY <1>12
      <4>3. b # a => components'[b][i] \notin ToSet(made)
        BY <1>3, <1>10
      <4>4. d # a => components'[d][j] \notin ToSet(made)
        BY <1>3, <1>10
      <4>5. b = a /\ d = a
        BY <2>1, <3>1, <4>1, <4>2, <4>3, <4>4
      <4> QED
        BY <1>2, <1>3, <2>1, <4>5
    <3>2. CASE b # a /\ d # a
      BY <1>1, <1>3, <2>1, <3>2 DEF OwnershipSound
    <3> QED
      BY <3>1, <3>2
  <2>2. ASSUME NEW x \in Objects, object'[x] = "Unborn"
        PROVE  x \in Fresh' /\ ~Owned(x)' /\ (x \in Actors => components'[x] = <<>>)
    BY <1>1, <1>3, <1>4, <1>7, <1>15, <2>2 DEF OwnershipSound
  <2>3. \A x \in Components : x \in Fresh' \/ Owned(x)'
    BY <1>1, <1>7, <1>14 DEF OwnershipSound
  <2>4. ASSUME NEW b \in Actors \ Loseable, object'[b] = "Dead", NEW j \in DOMAIN components'[b]
        PROVE  ~Resolves(components[b][j])'
    BY <1>1, <1>3, <1>4, <1>10, <1>11, <2>4, MainsAre DEF OwnershipSound, Resolves
  <2> QED
    BY <2>1, <2>2, <2>3, <2>4 DEF OwnershipSound
<1> QED
  BY <1>8, <1>13, <1>16

LEMMA FactoryKeepsPlay ==
    ASSUME WorldInvariant, PlayInvariant, FactoryReturns
    PROVE  PlayInvariant'
<1>1. PICK s : s = call.request.index
  OBVIOUS
<1>2. /\ call.stage = "Factory" /\ call.op # "None"
      /\ (\E a : MakesActor(s, a)) \/ MakesNothing(s)
      /\ UNCHANGED <<worldState, registered, subsystems>>
      /\ call'.op = call.op /\ call'.stage = "Construct"
  BY <1>1, FactoryReturnsDoes DEF registries
<1>3. agenda = <<>> /\ PlaySound /\ UNCHANGED <<lifecycle, agenda>>
  BY <1>1, FactoryReturnsDoes DEF FactoryReturns, AtStage, Quiet, PlayInvariant
<1>4. InPlay' = InPlay /\ OwnershipSound' /\ WholeActors'
  <2>1. ASSUME NEW a, MakesActor(s, a) PROVE InPlay' = InPlay /\ OwnershipSound' /\ WholeActors'
    BY <1>3, <2>1, BirthKeepsPlay DEF MakesActor
  <2>2. CASE MakesNothing(s)
    BY <1>3, <2>2, StillStep DEF MakesNothing, PlayInvariant
  <2> QED
    BY <1>2, <2>1, <2>2
<1>5. PlaySound'
  BY <1>2, <1>3, <1>4 DEF PlaySound, Begun, GaveUp, Differ
<1> QED
  BY <1>4, <1>5 DEF PlayInvariant

-----------------------------------------------------------------------------
(* The theorems.                                                           *)

LEMMA PlayBegins == Init => PlayInvariant
<1> SUFFICES ASSUME Init PROVE PlayInvariant
  OBVIOUS
<1>1. /\ lifecycle = [x \in Objects |-> "Constructed"] /\ agenda = <<>>
      /\ components = [a \in Actors |-> <<>>] /\ worldState = "Constructed" /\ call = NoCall
      /\ registered = <<>> /\ subsystems = <<>>
      /\ object = [x \in Objects |->
                      IF x \in TypedActors \cup DefaultComponents THEN "Unborn" ELSE "Live"]
  BY DEF Init, LifecycleInit
<1>2. Fresh = Objects /\ InPlay = {}
  BY <1>1, AtRest DEF Playing, Plays
<1>3. DOMAIN <<>> = {}
  OBVIOUS
<1>4. \A a \in Actors : components[a] = <<>> /\ DOMAIN components[a] = {}
  BY <1>1, <1>3
<1>5. OwnershipSound
  BY <1>1, <1>2, <1>4, MainsAre DEF OwnershipSound, Owned
<1>6. WholeActors
  BY <1>4 DEF WholeActors, IsWhole
<1>7. PlaySound
  BY <1>1, <1>2, <1>3, NoCallIs DEF PlaySound, Differ
<1> QED
  BY <1>5, <1>6, <1>7 DEF PlayInvariant

LEMMA PlayKept ==
    WorldInvariant /\ PlayInvariant /\ AdvanceSound /\ [Next]_vars => PlayInvariant'
<1> SUFFICES ASSUME WorldInvariant, PlayInvariant, AdvanceSound, [Next]_vars PROVE PlayInvariant'
  OBVIOUS
<1>1. CASE UserStep
  <2>1. CASE \E a \in ManualActors : Register(a) \/ SpawnActor(a)
    BY <2>1, RegisteringKeepsPlay, ObserversKeepPlay
  <2>2. CASE \E a \in Actors, c \in Components : RegisterComponentOf(a, c)
    BY <2>2, JoiningKeepsPlay
  <2>3. CASE \E s \in Subsystems : RegisterSubsystem(s)
    BY <2>3, RegisteringKeepsPlay
  <2>4. CASE \E x \in Loseable : LoseObject(x)
    BY <2>4, DestructionKeepsPlay
  <2>5. CASE \/ \E a \in Actors : DestroyActor(a)
             \/ QueueTypedActor \/ RefusedBarrier \/ ToggleCollection
    BY <2>5, ObserversKeepPlay
  <2>6. CASE BeginPlay \/ ApplyPending
    BY <2>6, PlayMoves
  <2>7. CASE Advance \/ EndPlay
    BY <2>7, EndingKeepsPlay
  <2> QED
    BY <1>1, <2>1, <2>2, <2>3, <2>4, <2>5, <2>6, <2>7 DEF UserStep
<1>2. CASE CallStep
  <2>1. CASE Dispatching
    BY <2>1, MoveKeepsPlay
  <2>2. CASE FactoryReturns
    BY <2>2, FactoryKeepsPlay
  <2>3. CASE FailConstruction \/ MarkAndUnregisterDoomedActors
    BY <2>3, DestructionKeepsPlay
  <2>4. CASE \/ ApplyBarrierAfterAdvance \/ EnterFactory \/ EndConstruct \/ FailAtLast \/ EndSpawns
             \/ CompleteDeferred \/ CallReturns
    BY <2>4, PlayMoves
  <2>5. CASE InitializeSubsystems \/ BeginActors \/ EndDeferred
    BY <2>5, BeginningKeepsPlay
  <2>6. CASE RollbackActors \/ FailWorld \/ EndNextDoomed
    BY <2>6, EndingKeepsPlay
  <2>7. CASE BeginNextSpawn \/ BeginNextDeferred
    BY <2>7, SpawningKeepsPlay
  <2> QED
    BY <1>2, <2>1, <2>2, <2>3, <2>4, <2>5, <2>6, <2>7 DEF CallStep
<1>3. CASE HookReturns \/ UNCHANGED vars
  BY <1>3, ObserversKeepPlay
<1> QED
  BY <1>1, <1>2, <1>3 DEF Next, Defined, Undefined

LEMMA PlayStaysSound == Spec => [](WorldInvariant /\ PlayInvariant)
<1>1. Init => PlayInvariant /\ AdvanceSound
  BY PlayBegins, NoCallIs DEF Init, AdvanceSound
<1>2. /\ WorldInvariant /\ PlayInvariant /\ AdvanceSound /\ [Next]_vars => PlayInvariant'
      /\ WorldInvariant /\ AdvanceSound /\ [Next]_vars => AdvanceSound'
  BY PlayKept, AdvancesInPlay
<1>3. Spec => []WorldInvariant
  BY InvariantAlways
<1> QED
  BY <1>1, <1>2, <1>3, PTL DEF Spec

(***************************************************************************)
(* However hooks and failing components interleave with registering,       *)
(* spawning, destroying, rolling back and ending: between two calls no     *)
(* actor is half in play, what the world destroyed took its components     *)
(* along, and a world that ended or failed has left nothing in play but    *)
(* what belonged to an actor destroyed behind its back.                    *)
(***************************************************************************)
THEOREM NoActorIsHalfInPlay == Spec => []NoHalfPlay
<1>1. WorldInvariant /\ PlayInvariant => NoHalfPlay
  <2> SUFFICES ASSUME WorldInvariant, PlayInvariant, Idle
               PROVE  /\ \A a \in Actors : Resolves(a) =>
                            \A c \in ToSet(components[a]) : Resolves(c) => (Plays(c) <=> Plays(a))
                      /\ \A a \in Actors \ Loseable : object[a] = "Dead" =>
                            \A c \in ToSet(components[a]) : ~Resolves(c)
                      /\ worldState \in {"Failed", "Ended"} =>
                            \A x \in Objects : Plays(x) => IsOrphan(x)
    BY DEF NoHalfPlay
  <2>1. agenda = <<>> /\ PlaySound /\ OwnershipSound
    BY DEF Idle, Quiet, PlayInvariant
  <2>2. /\ InPlay = Playing
        /\ \A a \in Actors : Resolves(a) => IsWhole(Playing, a)
    BY <2>1, Resting
  <2>3. Fresh = {x \in Objects : lifecycle[x] = "Constructed"}
    BY <2>1, AtRest
  <2>4. /\ \A a \in Actors : \A j \in DOMAIN components[a] : components[a][j] \in Components
        /\ object \in [Objects -> {"Unborn", "Live", "Dead"}]
        /\ \A a \in Actors : components[a] \in Seq(Components)
    BY Basics DEF LifecycleTypeOK
  <2>5. ASSUME NEW a \in Actors, Resolves(a), NEW c \in ToSet(components[a]), Resolves(c)
        PROVE  Plays(c) <=> Plays(a)
    <3>1. PICK j \in DOMAIN components[a] : components[a][j] = c
      BY DEF ToSet
    <3>2. c \in Playing <=> a \in Playing
      BY <2>2, <2>5, <3>1 DEF IsWhole
    <3> QED
      BY <2>4, <3>1, <3>2, MainsAre DEF Playing
  <2>6. ASSUME NEW a \in Actors \ Loseable, object[a] = "Dead", NEW c \in ToSet(components[a])
        PROVE  ~Resolves(c)
    BY <2>1, <2>6 DEF OwnershipSound, ToSet
  <2>7. ASSUME worldState \in {"Failed", "Ended"}, NEW x \in Objects, Plays(x) PROVE IsOrphan(x)
    <3>1. x \in Playing
      BY <2>7 DEF Playing
    <3>2. Playing \cap Mains = {}
      BY <2>1, <2>2, <2>7 DEF PlaySound, GaveUp
    <3>3. x \in Components
      BY <3>1, <3>2, MainsAre
    <3>4. x \notin Fresh
      BY <2>3, <2>7 DEF Plays
    <3>5. PICK a \in Actors : \E j \in DOMAIN components[a] : components[a][j] = x
      BY <2>1, <3>3, <3>4 DEF OwnershipSound, Owned
    <3>6. PICK j \in DOMAIN components[a] : components[a][j] = x
      BY <3>5
    <3>7. Resolves(x) /\ a \in Objects
      BY <2>7, MainsAre DEF Plays
    <3>8. ~Resolves(a)
      <4>1. ASSUME Resolves(a) PROVE FALSE
        BY <2>2, <3>1, <3>2, <3>6, <3>7, <4>1 DEF IsWhole, Mains
      <4> QED
        BY <4>1
    <3>9. object[a] # "Unborn"
      BY <2>1, <3>6, <3>7 DEF OwnershipSound
    <3>10. object[a] = "Dead"
      BY <2>4, <3>7, <3>8, <3>9 DEF Resolves
    <3>11. a \in Loseable
      BY <2>1, <3>6, <3>7, <3>10 DEF OwnershipSound
    <3>12. Contains(components[a], x)
      BY <2>4, <3>6, ContainsIs
    <3> QED
      BY <3>10, <3>11, <3>12 DEF IsOrphan
  <2> QED
    BY <2>5, <2>6, <2>7
<1> QED
  BY <1>1, PlayStaysSound, PTL

-----------------------------------------------------------------------------
(***************************************************************************)
(* The order in which play starts and stops.  What a call has still to do  *)
(* it does in order; all subsystems play before an actor begins, and all   *)
(* that is registered plays before a typed actor does, which begins for    *)
(* certain: until it is published, nothing but its constructor has touched *)
(* it or its components.                                                   *)
(***************************************************************************)
MovesInOrder(moves, op, actors) ==
    /\ op = "BeginPlay" => BeginsInOrder(moves, actors)
    /\ op \in {"BeginPlay", "EndPlay"} => EndsInOrder(moves, actors)

AgendaInOrder == MovesInOrder(agenda, call.op, registered)

Made(i) == spawnSlots[i].state = "ConstructedPendingPublish"

IsReady(a) ==
    /\ a \in Fresh
    /\ \A j \in DOMAIN components[a] :
          Resolves(components[a][j]) /\ components[a][j] \in Fresh

BeginStages == {"Construct", "Factory", "Subsystems", "Actors", "BeginDeferred", "Published"}

MadeReady ==
    \A i \in SpawnSlots : Made(i) /\ spawnSlots[i].actor \notin assigned =>
        IsReady(spawnSlots[i].actor)

OrderSound ==
    /\ call.op # "None" => worldState # "Constructed"
    /\ call.op = "None" => agenda = <<>>
    /\ worldState = "Constructed" => \A i \in SpawnSlots : ~Made(i)
    /\ call.stage = "Actors" => ToSet(subsystems) \subseteq InPlay
    /\ call.op = "BeginPlay" /\ call.stage \in {"BeginDeferred", "Published"} =>
          ToSet(registered) \cup ToSet(subsystems) \subseteq InPlay
    /\ call.op = "BeginPlay" /\ call.stage \in BeginStages => MadeReady

OrderInvariant == OrderSound /\ AgendaInOrder

\* No slot comes to hold a constructed actor.
NoneMade ==
    \A i \in SpawnSlots : Made(i)' => Made(i) /\ spawnSlots'[i].actor = spawnSlots[i].actor

LEMMA NothingToOrder == agenda = <<>> => AgendaInOrder
<1>1. DOMAIN <<>> = {}
  OBVIOUS
<1> QED
  BY <1>1 DEF AgendaInOrder, MovesInOrder, BeginsInOrder, EndsInOrder

LEMMA NothingToOrderNext == agenda' = <<>> => AgendaInOrder'
<1>1. (agenda = <<>> => AgendaInOrder)'
  BY NothingToOrder, PTL
<1> QED
  BY <1>1

LEMMA NoneMadeBy ==
    ASSUME WorldInvariant,
           \/ QueueTypedActor \/ RefusedBarrier \/ CompleteDeferred
           \/ FailConstruction \/ MarkAndUnregisterDoomedActors \/ UNCHANGED spawnSlots
    PROVE  NoneMade
<1>1. spawnSlots \in [SpawnSlots -> FSlot]
  BY DEF WorldInvariant, TypeOK, SpawnTypeOK
<1>2. CASE UNCHANGED spawnSlots
  BY <1>2 DEF NoneMade, Made
<1>3. CASE RefusedBarrier
  BY <1>2, <1>3 DEF RefusedBarrier, SealAndRestore, SealBarrier
<1>4. CASE CompleteDeferred
  <2>1. PICK i : /\ i = call.request.index
                 /\ spawnSlots' = spawnSlots
                    \/ spawnSlots' = [spawnSlots EXCEPT ![i].state = "Spawned"]
    BY <1>4 DEF CompleteDeferred, CompletePublish
  <2> QED
    BY <1>1, <1>2, <2>1 DEF NoneMade, Made, FSlot
<1>5. \A n : \A j \in SpawnSlots :
         RetiredBefore(n)[j] = spawnSlots[j] \/ RetiredBefore(n)[j].state = "Retired"
  BY <1>1 DEF FSlot, RetiredBefore
<1>6. CASE QueueTypedActor
  <2>1. CASE QueueFactory
    <3>1. PICK i \in SpawnSlots :
             spawnSlots' = [RetiredBefore(i) EXCEPT
                ![i] = [generation |-> @.generation + 1, state |-> "Queued", actor |-> NoActor]]
      BY <2>1 DEF QueueFactory
    <3>2. PICK g : spawnSlots' = [RetiredBefore(i) EXCEPT
                      ![i] = [generation |-> g, state |-> "Queued", actor |-> NoActor]]
      BY <3>1
    <3>3. DOMAIN RetiredBefore(i) = SpawnSlots
      BY DEF RetiredBefore
    <3>4. \A j \in SpawnSlots : IF j = i THEN spawnSlots'[j].state = "Queued"
                                ELSE spawnSlots'[j] = RetiredBefore(i)[j]
      BY <3>2, <3>3
    <3> QED
      BY <1>5, <3>4 DEF NoneMade, Made
  <2>2. CASE ReserveNothing
    BY <1>5, <2>2 DEF ReserveNothing, NoneMade, Made
  <2> QED
    BY <1>6, <2>1, <2>2 DEF QueueTypedActor
<1>7. CASE FailConstruction
  BY <1>1, <1>7 DEF FailConstruction, AbortSealedBatch, FSlot, NoneMade, Made
<1>8. CASE MarkAndUnregisterDoomedActors
  <2>1. PICK gone : spawnSlots' = Released(gone)
    BY <1>8 DEF MarkAndUnregisterDoomedActors
  <2>2. \A i \in SpawnSlots :
           [spawnSlots[i] EXCEPT !.state = "Released", !.actor = NoActor].state = "Released"
    BY <1>1 DEF FSlot
  <2> QED
    BY <2>1, <2>2 DEF Released, NoneMade, Made
<1> QED
  BY <1>2, <1>3, <1>4, <1>6, <1>7, <1>8

\* What stays fresh stays ready.
LEMMA ReadyStays ==
    ASSUME NEW a, IsReady(a), UNCHANGED <<object, components>>,
           a \in Fresh => a \in Fresh',
           \A j \in DOMAIN components[a] :
              components[a][j] \in Fresh => components[a][j] \in Fresh'
    PROVE  IsReady(a)'
  BY DEF IsReady, Resolves

LEMMA MadeStaysReady ==
    ASSUME MadeReady, NoneMade, UNCHANGED <<object, components>>, Fresh \subseteq Fresh',
           assigned \subseteq assigned'
    PROVE  MadeReady'
<1>1. ASSUME NEW i \in SpawnSlots, Made(i)', spawnSlots'[i].actor \notin assigned'
      PROVE  IsReady(spawnSlots[i].actor)'
  <2>1. PICK a : a = spawnSlots[i].actor
    OBVIOUS
  <2>2. spawnSlots'[i].actor = a /\ IsReady(a)
    BY <1>1, <2>1 DEF NoneMade, MadeReady
  <2>3. IsReady(a)'
    BY <2>2, ReadyStays DEF IsReady
  <2> QED
    BY <2>2, <2>3 DEF IsReady
<1> QED
  BY <1>1 DEF MadeReady

(* User code between two moves, or in a hook. *)
LEMMA UserCodeKeepsOrder ==
    ASSUME OrderInvariant, NoneMade,
           UNCHANGED <<lifecycle, object, components, agenda, worldState, assigned>>,
           UNCHANGED <<registered, subsystems, call>>
    PROVE  OrderInvariant'
<1>1. AgendaInOrder'
  BY DEF OrderInvariant, AgendaInOrder, MovesInOrder, BeginsInOrder, EndsInOrder, PlaysAt, OutAt,
         Resolves
<1>2. InPlay' = InPlay /\ Fresh' = Fresh
  BY StillStep
<1>3. MadeReady => MadeReady'
  BY <1>2, MadeStaysReady
<1>4. (\A i \in SpawnSlots : ~Made(i)) => \A i \in SpawnSlots : ~Made(i)'
  BY DEF NoneMade
<1>5. OrderSound'
  BY <1>2, <1>3, <1>4 DEF OrderInvariant, OrderSound
<1> QED
  BY <1>1, <1>5 DEF OrderInvariant

\* A step that ends with nothing to do, and not in a call that begins play.
LEMMA RestingKeepsOrder ==
    ASSUME OrderInvariant, agenda' = <<>>, call'.op # "BeginPlay", call'.stage # "Actors",
           call'.op # "None" => worldState' # "Constructed",
           worldState' = "Constructed" => worldState = "Constructed" /\ NoneMade
    PROVE  OrderInvariant'
<1>1. AgendaInOrder'
  BY NothingToOrderNext
<1>2. worldState' = "Constructed" => \A i \in SpawnSlots : ~Made(i)'
  BY DEF OrderInvariant, OrderSound, NoneMade
<1>3. OrderSound'
  BY <1>2 DEF OrderSound
<1> QED
  BY <1>1, <1>3 DEF OrderInvariant

\* A call that begins play goes on.
LEMMA BeginningGoesOn ==
    ASSUME OrderInvariant, agenda' = <<>>, NoneMade,
           UNCHANGED <<lifecycle, object, components, agenda, assigned, registered, subsystems>>,
           call'.op = "BeginPlay", call'.stage # "Actors", worldState' # "Constructed",
           call'.stage \in {"BeginDeferred", "Published"} =>
              call.op = "BeginPlay" /\ call.stage \in {"BeginDeferred", "Published"},
           \/ call.op = "BeginPlay" /\ call.stage \in BeginStages
           \/ worldState = "Constructed"
    PROVE  OrderInvariant'
<1>1. AgendaInOrder'
  BY NothingToOrderNext
<1>2. InPlay' = InPlay /\ Fresh' = Fresh
  BY StillStep
<1>3. OrderSound
  BY DEF OrderInvariant
<1>4. MadeReady
  BY <1>3 DEF MadeReady, OrderSound
<1>5. MadeReady'
  BY <1>2, <1>4, MadeStaysReady
<1>6. OrderSound'
  BY <1>2, <1>3, <1>5 DEF OrderSound
<1> QED
  BY <1>1, <1>6 DEF OrderInvariant

LEMMA ObserversKeepOrder ==
    ASSUME WorldInvariant, OrderInvariant,
           \/ \E a \in ManualActors : SpawnActor(a)
           \/ \E a \in Actors : DestroyActor(a)
           \/ QueueTypedActor \/ RefusedBarrier \/ ToggleCollection \/ HookReturns
           \/ UNCHANGED vars
    PROVE  OrderInvariant'
<1>1. /\ UNCHANGED <<lifecycle, object, components, agenda, worldState, assigned>>
      /\ UNCHANGED <<registered, subsystems, call>>
  BY DEF SpawnActor, DestroyActor, QueueTypedActor, RefusedBarrier, ToggleCollection,
         HookReturns, vars, lifecycleVars, registries
<1>2. QueueTypedActor \/ RefusedBarrier \/ UNCHANGED spawnSlots
  BY DEF SpawnActor, DestroyActor, ToggleCollection, HookReturns, vars, spawnVars
<1>3. NoneMade
  BY <1>2, NoneMadeBy
<1> QED
  BY <1>1, <1>3, UserCodeKeepsOrder

LEMMA IdleKeepsOrder ==
    ASSUME WorldInvariant, OrderInvariant,
           \/ \E a \in ManualActors : Register(a)
           \/ \E s \in Subsystems : RegisterSubsystem(s)
           \/ \E a \in Actors, c \in Components : RegisterComponentOf(a, c)
           \/ \E x \in Loseable : LoseObject(x)
    PROVE  OrderInvariant'
<1>1. /\ Idle /\ UNCHANGED <<agenda, worldState, call, spawnSlots>>
  BY DEF Register, RegisterSubsystem, RegisterComponentOf, LoseObject, RegisterComponent,
         lifecycleVars, spawnVars
<1>2. call.op = "None" /\ call.stage = "Return" /\ agenda = <<>>
  BY <1>1, IdleIs, NoCallIs DEF Idle, Quiet
<1>3. NoneMade
  BY <1>1, NoneMadeBy
<1> QED
  BY <1>1, <1>2, <1>3, RestingKeepsOrder

LEMMA CallsKeepOrder ==
    ASSUME WorldInvariant, PlayInvariant, OrderInvariant,
           \/ BeginPlay \/ ApplyPending \/ ApplyBarrierAfterAdvance
           \/ EnterFactory \/ EndConstruct \/ FailAtLast \/ EndSpawns \/ CompleteDeferred \/ CallReturns
    PROVE  OrderInvariant'
<1>1. /\ call \in Calls /\ call.op \in Ops /\ OrderSound /\ PlaySound
      /\ agenda = <<>> /\ agenda' = <<>>
      /\ UNCHANGED <<lifecycle, object, components, agenda, assigned, registered, subsystems>>
  BY Basics, CallsAre, BarrierBegins DEF OrderInvariant, PlayInvariant, BeginPlay, EnterFactory,
     EndConstruct, FailAtLast, EndSpawns, CompleteDeferred, CallReturns, Idle, AtStage, Quiet,
     lifecycleVars, registries
<1>2. NoneMade
  BY NoneMadeBy, BarrierBegins DEF BeginPlay, SealBarrier, EnterFactory, EndConstruct,
     FailAtLast, EndSpawns, CallReturns, spawnVars
<1>3. CASE BeginPlay
  BY <1>1, <1>2, <1>3, Entered, BeginningGoesOn DEF BeginPlay, Ops, Stages
<1>4. CASE ApplyPending \/ ApplyBarrierAfterAdvance
  <2>1. PICK stage \in {"EndDoomed", "Return"} : Enter("ApplyPending", stage)
    BY <1>4, BarrierBegins DEF BeginBarrier
  <2>2. call'.op = "ApplyPending" /\ call'.stage = stage
    BY <2>1, Entered DEF Ops, Stages
  <2>3. worldState' # "Constructed"
    BY <1>1, <1>4, BarrierBegins DEF ApplyPending, ApplyBarrierAfterAdvance, AtStage, OrderSound
  <2> QED
    BY <1>1, <2>2, <2>3, RestingKeepsOrder
<1>5. CASE EnterFactory
  <2>1. /\ worldState' = worldState /\ call.op # "None" /\ call.stage = "Construct"
        /\ call' = [call EXCEPT !.stage = "Factory", !.request = sealedFactories[call.at]]
    BY <1>5 DEF EnterFactory, AtStage
  <2>2. call'.op = call.op /\ call'.stage = "Factory"
    BY <1>1, <2>1 DEF Calls
  <2>3. worldState' # "Constructed"
    BY <1>1, <2>1 DEF OrderSound
  <2>4. CASE call.op = "BeginPlay"
    BY <1>1, <1>2, <2>1, <2>2, <2>3, <2>4, BeginningGoesOn DEF BeginStages
  <2>5. CASE call.op # "BeginPlay"
    BY <1>1, <2>2, <2>3, <2>5, RestingKeepsOrder
  <2> QED
    BY <2>4, <2>5
<1>6. CASE EndConstruct
  <2>1. /\ worldState' = worldState /\ call.op # "None" /\ call.stage = "Construct"
        /\ Stage(IF call.op = "BeginPlay" THEN "Subsystems" ELSE "BeginDeferred")
    BY <1>6 DEF EndConstruct, AtStage
  <2>2. /\ call'.op = call.op
        /\ call'.stage = IF call.op = "BeginPlay" THEN "Subsystems" ELSE "BeginDeferred"
    BY <1>1, <2>1, Staged DEF Stages
  <2>3. worldState' # "Constructed"
    BY <1>1, <2>1 DEF OrderSound
  <2>4. CASE call.op = "BeginPlay"
    BY <1>1, <1>2, <2>1, <2>2, <2>3, <2>4, BeginningGoesOn DEF BeginStages
  <2>5. CASE call.op # "BeginPlay"
    BY <1>1, <2>2, <2>3, <2>5, RestingKeepsOrder
  <2> QED
    BY <2>4, <2>5
<1>7. CASE FailAtLast \/ CallReturns
  BY <1>1, <1>2, <1>7, NoCallIs, RestingKeepsOrder DEF FailAtLast, CallReturns, Return
<1>8. CASE EndSpawns
  <2>1. /\ worldState' = worldState /\ call.op # "None" /\ call.stage = "BeginSpawns"
        /\ call' = [call EXCEPT !.stage = "Construct", !.at = 1]
    BY <1>8 DEF EndSpawns, AtStage
  <2>2. call'.op = call.op /\ call'.stage = "Construct"
    BY <1>1, <2>1 DEF Calls
  <2>3. worldState' # "Constructed" /\ call.op = "ApplyPending"
    BY <1>1, <2>1 DEF OrderSound, PlaySound
  <2> QED
    BY <1>1, <2>2, <2>3, RestingKeepsOrder
<1>9. CASE CompleteDeferred
  <2>1. /\ worldState' = worldState /\ call.op # "None" /\ call.stage = "Published"
        /\ call' = [call EXCEPT !.stage = "BeginDeferred", !.at = @ + 1, !.request = NoRequest]
    BY <1>9 DEF CompleteDeferred, AtStage
  <2>2. call'.op = call.op /\ call'.stage = "BeginDeferred"
    BY <1>1, <2>1 DEF Calls
  <2>3. worldState' # "Constructed"
    BY <1>1, <2>1 DEF OrderSound
  <2>4. CASE call.op = "BeginPlay"
    BY <1>1, <1>2, <2>1, <2>2, <2>3, <2>4, BeginningGoesOn DEF BeginStages
  <2>5. CASE call.op # "BeginPlay"
    BY <1>1, <2>2, <2>3, <2>5, RestingKeepsOrder
  <2> QED
    BY <2>4, <2>5
<1> QED
  BY <1>3, <1>4, <1>5, <1>6, <1>7, <1>8, <1>9

LEMMA DestructionKeepsOrder ==
    ASSUME WorldInvariant, PlayInvariant, OrderInvariant,
           FailConstruction \/ MarkAndUnregisterDoomedActors
    PROVE  OrderInvariant'
<1>1. call \in Calls /\ OrderSound /\ PlaySound /\ agenda' = <<>>
  BY Basics DEF OrderInvariant, PlayInvariant, FailConstruction, MarkAndUnregisterDoomedActors,
                AtStage, Quiet
<1>2. CASE FailConstruction
  BY <1>1, <1>2, NoCallIs, RestingKeepsOrder DEF FailConstruction, Return
<1>3. CASE MarkAndUnregisterDoomedActors
  <2>1. /\ worldState' = worldState /\ call.op # "None" /\ call.stage = "EndDoomed"
        /\ call' = [call EXCEPT !.stage = "BeginSpawns", !.at = 1]
    BY <1>3 DEF MarkAndUnregisterDoomedActors, AtStage
  <2>2. call'.op = call.op /\ call'.stage = "BeginSpawns"
    BY <1>1, <2>1 DEF Calls
  <2>3. worldState' # "Constructed" /\ call.op = "ApplyPending"
    BY <1>1, <2>1 DEF OrderSound, PlaySound
  <2> QED
    BY <1>1, <2>2, <2>3, RestingKeepsOrder
<1> QED
  BY <1>2, <1>3

\* A factory hands over an actor that nothing has touched.
LEMMA FactoryKeepsOrder ==
    ASSUME WorldInvariant, PlayInvariant, OrderInvariant, FactoryReturns
    PROVE  OrderInvariant'
<1>1. PICK s : s = call.request.index
  OBVIOUS
<1>2. /\ call.stage = "Factory" /\ call.op # "None" /\ s \in SpawnSlots
      /\ \A i \in SpawnSlots : i # s => spawnSlots'[i] = spawnSlots[i]
      /\ (\E a : MakesActor(s, a)) \/ MakesNothing(s)
      /\ UNCHANGED <<lifecycle, agenda, worldState, registered, subsystems, assigned>>
      /\ call'.op = call.op /\ call'.stage = "Construct"
  BY <1>1, FactoryReturnsDoes DEF registries
<1>3. agenda = <<>> /\ agenda' = <<>> /\ OrderSound /\ OwnershipSound
  BY <1>2 DEF FactoryReturns, AtStage, Quiet, OrderInvariant, PlayInvariant
<1>4. worldState' # "Constructed"
  BY <1>2, <1>3 DEF OrderSound
<1>5. CASE call.op # "BeginPlay"
  BY <1>2, <1>3, <1>4, <1>5, RestingKeepsOrder
<1>6. CASE call.op = "BeginPlay"
  <2>1. Fresh' = Fresh
    BY <1>2 DEF Fresh, Touches
  <2>2. MadeReady
    BY <1>2, <1>3, <1>6 DEF OrderSound, BeginStages
  <2>3. CASE MakesNothing(s)
    <3>1. UNCHANGED <<object, components>> /\ ~Made(s)'
      BY <2>3 DEF MakesNothing, Made
    <3>2. NoneMade
      BY <1>2, <3>1 DEF NoneMade, Made
    <3>3. MadeReady'
      BY <1>2, <2>1, <2>2, <3>1, <3>2, MadeStaysReady
    <3> QED
      BY <1>2, <1>3, <1>4, <3>3, NothingToOrderNext DEF OrderInvariant, OrderSound
  <2>4. ASSUME NEW a, MakesActor(s, a) PROVE OrderInvariant'
    <3>1. PICK made \in DefaultSubobjects : Born(a, made)
      BY <2>4 DEF MakesActor
    <3>2. /\ a \in TypedActors /\ a \in Actors /\ a \in Objects /\ object[a] = "Unborn"
          /\ spawnSlots'[s].actor = a /\ LifecycleTypeOK /\ SlotSound
      BY <2>4, Basics, MainsAre DEF MakesActor, Actors, WorldInvariant
    <3>3. /\ components'[a] = made
          /\ \A b \in Actors : b # a => components'[b] = components[b]
          /\ \A x \in Objects : Resolves(x) => Resolves(x)'
      BY <3>1, <3>2, BornDoes
    <3>4. \A x \in ToSet(made) : x \in Objects /\ object[x] = "Unborn" /\ Resolves(x)'
      BY <3>1, DefaultSubobjectsAre, MainsAre DEF ToSet, Born, Resolves
    <3>5. IsReady(a)'
      BY <1>3, <2>1, <3>2, <3>3, <3>4 DEF OwnershipSound, ToSet, IsReady, Resolves
    <3>6. ASSUME NEW i \in SpawnSlots, i # s, Made(i)', spawnSlots'[i].actor \notin assigned'
          PROVE  IsReady(spawnSlots[i].actor)'
      <4>1. PICK b : b = spawnSlots[i].actor
        OBVIOUS
      <4>2. spawnSlots'[i].actor = b /\ Made(i) /\ b \notin assigned
        BY <1>2, <3>6, <4>1 DEF Made
      <4>3. IsReady(b)
        BY <2>2, <4>1, <4>2 DEF MadeReady
      <4>4. b \in Actors /\ b # a
        <5>1. b # NoActor /\ object[b] # "Unborn"
          BY <3>2, <4>1, <4>2 DEF SlotSound, Made
        <5>2. spawnSlots \in [SpawnSlots -> FSlot]
          BY DEF WorldInvariant, TypeOK, SpawnTypeOK
        <5>3. b \in TypedActors \cup {NoActor}
          BY <4>1, <5>2 DEF FSlot
        <5> QED
          BY <3>2, <5>1, <5>3 DEF Actors
      <4>5. components'[b] = components[b]
        BY <3>3, <4>4
      <4>6. \A j \in DOMAIN components[b] : components[b][j] \in Objects
        BY <4>4, Basics, MainsAre
      <4>7. IsReady(b)'
        BY <2>1, <3>3, <4>3, <4>5, <4>6 DEF IsReady
      <4> QED
        BY <4>2, <4>7 DEF IsReady
    <3>7. MadeReady'
      <4>1. ASSUME NEW i \in SpawnSlots, Made(i)', spawnSlots'[i].actor \notin assigned'
            PROVE  IsReady(spawnSlots[i].actor)'
        <5>1. CASE i = s
          BY <3>2, <3>5, <5>1 DEF IsReady
        <5>2. CASE i # s
          BY <3>6, <4>1, <5>2
        <5> QED
          BY <5>1, <5>2
      <4> QED
        BY <4>1 DEF MadeReady
    <3> QED
      BY <1>2, <1>3, <1>4, <3>7, NothingToOrderNext DEF OrderInvariant, OrderSound
  <2> QED
    BY <1>2, <2>3, <2>4
<1> QED
  BY <1>5, <1>6

(* A batch of moves is dispatched. *)
LEMMA DispatchedOrder ==
    ASSUME NEW moves, NEW actors, NEW op, Dispatch(moves), UNCHANGED subsystems,
           registered' = actors, call'.op = op, MovesInOrder(moves, op, actors)
    PROVE  AgendaInOrder'
<1>1. agenda' = moves /\ UNCHANGED <<lifecycle, object>>
  BY DEF Dispatch
<1> QED
  BY <1>1 DEF AgendaInOrder, MovesInOrder, BeginsInOrder, EndsInOrder, PlaysAt, OutAt, Resolves

\* A call that does not begin play, or no longer.
LEMMA DispatchKeepsOrder ==
    ASSUME OrderInvariant, NEW moves, Dispatch(moves), UNCHANGED subsystems,
           MovesInOrder(moves, call'.op, registered'), call'.op # "None",
           worldState' # "Constructed", call'.stage # "Actors",
           call'.op # "BeginPlay" \/ call'.stage \notin BeginStages
    PROVE  OrderInvariant'
<1>1. AgendaInOrder'
  BY DispatchedOrder
<1>2. OrderSound'
  BY DEF OrderSound, BeginStages
<1> QED
  BY <1>1, <1>2 DEF OrderInvariant

LEMMA EndingKeepsOrder ==
    ASSUME WorldInvariant, PlayInvariant, OrderInvariant,
           RollbackActors \/ FailWorld \/ Advance \/ EndPlay \/ EndNextDoomed
    PROVE  OrderInvariant'
<1>1. /\ agenda = <<>> /\ call \in Calls /\ OrderSound /\ PlaySound
      /\ UNCHANGED <<registered, subsystems>>
  BY Basics DEF OrderInvariant, PlayInvariant, RollbackActors, FailWorld, Advance, EndPlay,
                EndNextDoomed, Idle, AtStage, Quiet, registries
<1>2. CASE RollbackActors
  <2>1. PICK moves : /\ moves = EndActors(SubSeq(registered, 1, call.at)) /\ Dispatch(moves)
                     /\ call.stage = "RollbackActors" /\ call.op # "None"
                     /\ Stage("FailWorld") /\ worldState' = worldState
    BY <1>2 DEF RollbackActors, AtStage
  <2>2. BeginsInOrder(moves, registered) /\ EndsInOrder(moves, registered)
    BY <1>1, <2>1, RollbackEnds
  <2>3. call'.op = call.op /\ call'.stage = "FailWorld"
    BY <1>1, <2>1, Staged DEF Stages
  <2>4. worldState' # "Constructed"
    BY <1>1, <2>1 DEF OrderSound
  <2>5. MovesInOrder(moves, call'.op, registered')
    BY <1>1, <2>2 DEF MovesInOrder
  <2> QED
    BY <1>1, <2>1, <2>3, <2>4, <2>5, DispatchKeepsOrder DEF BeginStages
<1>3. CASE FailWorld
  <2>1. PICK moves : /\ moves = DeinitializeSubsystems /\ Dispatch(moves)
                     /\ call.stage = "FailWorld" /\ call.op # "None"
                     /\ Stage("Return") /\ worldState' = "Failed"
    BY <1>3 DEF FailWorld, AtStage
  <2>2. BeginsInOrder(moves, registered) /\ EndsInOrder(moves, registered)
    BY <1>1, <2>1, DeinitializeEnds
  <2>3. call'.op = call.op /\ call'.stage = "Return"
    BY <1>1, <2>1, Staged DEF Stages
  <2>4. MovesInOrder(moves, call'.op, registered')
    BY <1>1, <2>2 DEF MovesInOrder
  <2> QED
    BY <1>1, <2>1, <2>3, <2>4, DispatchKeepsOrder DEF BeginStages
<1>4. CASE Advance
  <2>1. PICK moves : Dispatch(moves) /\ worldState' = "Playing"
    BY <1>4 DEF Advance
  <2>2. call'.op = "Advance" /\ call'.stage = "Return"
    BY <1>4, AdvanceEntered
  <2>3. MovesInOrder(moves, call'.op, registered')
    BY <2>2 DEF MovesInOrder
  <2> QED
    BY <1>1, <2>1, <2>2, <2>3, DispatchKeepsOrder
<1>5. CASE EndPlay
  <2>1. PICK moves : /\ moves = EndActors(registered) \o DeinitializeSubsystems
                     /\ Dispatch(moves) /\ Enter("EndPlay", "Return") /\ worldState' = "Ended"
    BY <1>5 DEF EndPlay
  <2>2. BeginsInOrder(moves, registered) /\ EndsInOrder(moves, registered)
    BY <1>1, <2>1, EndsEverything
  <2>3. call'.op = "EndPlay" /\ call'.stage = "Return"
    BY <2>1, Entered DEF Ops, Stages
  <2>4. MovesInOrder(moves, call'.op, registered')
    BY <1>1, <2>2 DEF MovesInOrder
  <2> QED
    BY <1>1, <2>1, <2>3, <2>4, DispatchKeepsOrder
<1>6. CASE EndNextDoomed
  <2>1. PICK a : /\ a = pendingDestroy[call.at] /\ call.stage = "EndDoomed" /\ call.op # "None"
                 /\ Dispatch(IF Resolves(a) THEN EndSteps(a) ELSE <<>>)
                 /\ call' = [call EXCEPT !.at = @ + 1, !.error = @ \/ (Resolves(a) /\ EndFails(a))]
                 /\ worldState' = worldState
    BY <1>6 DEF EndNextDoomed, AtStage
  <2>2. PICK moves : Dispatch(moves)
    BY <2>1
  <2>3. call'.op = "ApplyPending" /\ call'.stage = "EndDoomed"
    BY <1>1, <2>1, WalkOn DEF PlaySound
  <2>4. worldState' # "Constructed"
    BY <1>1, <2>1 DEF OrderSound
  <2>5. MovesInOrder(moves, call'.op, registered')
    BY <2>3 DEF MovesInOrder
  <2> QED
    BY <1>1, <2>2, <2>3, <2>4, <2>5, DispatchKeepsOrder
<1> QED
  BY <1>2, <1>3, <1>4, <1>5, <1>6

LEMMA SpawnsKeepOrder ==
    ASSUME WorldInvariant, PlayInvariant, OrderInvariant, BeginNextSpawn \/ EndDeferred
    PROVE  OrderInvariant'
<1>1. agenda = <<>> /\ call \in Calls /\ OrderSound /\ PlaySound /\ UNCHANGED subsystems
  BY Basics DEF OrderInvariant, PlayInvariant, BeginNextSpawn, EndDeferred, AtStage, Quiet,
                registries
<1>2. CASE BeginNextSpawn
  <2>1. PICK a : /\ a = pendingSpawn[call.at] /\ call.stage = "BeginSpawns" /\ call.op # "None"
                 /\ worldState' = worldState
                 /\ IF Resolves(a) THEN Publish(a)
                    ELSE UNCHANGED <<lifecycleVars, registered, assigned>>
                 /\ call' = [call EXCEPT !.at = @ + 1,
                                         !.error = @ \/ (Resolves(a) /\ BeginFails(a))]
    BY <1>2 DEF BeginNextSpawn, AtStage
  <2>2. call'.op = "ApplyPending" /\ call'.stage = "BeginSpawns"
    BY <1>1, <2>1, WalkOn DEF PlaySound
  <2>3. worldState' # "Constructed"
    BY <1>1, <2>1 DEF OrderSound
  <2>4. CASE Resolves(a)
    <3>1. PICK moves : Dispatch(moves)
      BY <2>1, <2>4 DEF Publish
    <3>2. MovesInOrder(moves, call'.op, registered')
      BY <2>2 DEF MovesInOrder
    <3> QED
      BY <1>1, <2>2, <2>3, <3>1, <3>2, DispatchKeepsOrder
  <2>5. CASE ~Resolves(a)
    BY <1>1, <2>1, <2>2, <2>3, <2>5, RestingKeepsOrder DEF lifecycleVars
  <2> QED
    BY <2>4, <2>5
<1>3. CASE EndDeferred
  <2>1. /\ call.stage = "BeginDeferred" /\ call.op # "None" /\ UNCHANGED <<worldState, registered>>
        /\ IF call.op = "BeginPlay" /\ call.error
           THEN Dispatch(EndActors(registered) \o DeinitializeSubsystems) /\ Stage("Failed")
           ELSE Return /\ UNCHANGED lifecycleVars
    BY <1>3 DEF EndDeferred, AtStage, registries
  <2>2. worldState' # "Constructed"
    BY <1>1, <2>1 DEF OrderSound
  <2>3. CASE call.op = "BeginPlay" /\ call.error
    <3>1. PICK moves : moves = EndActors(registered) \o DeinitializeSubsystems
      OBVIOUS
    <3>2. Dispatch(moves) /\ Stage("Failed")
      BY <2>1, <2>3, <3>1
    <3>3. BeginsInOrder(moves, registered) /\ EndsInOrder(moves, registered)
      BY <1>1, <3>1, EndsEverything
    <3>4. call'.op = call.op /\ call'.stage = "Failed"
      BY <1>1, <3>2, Staged DEF Stages
    <3>5. MovesInOrder(moves, call'.op, registered')
      BY <2>1, <3>3 DEF MovesInOrder
    <3> QED
      BY <1>1, <2>1, <2>2, <3>2, <3>4, <3>5, DispatchKeepsOrder DEF BeginStages
  <2>4. CASE ~(call.op = "BeginPlay" /\ call.error)
    BY <1>1, <2>1, <2>2, <2>4, NoCallIs, RestingKeepsOrder DEF Return, lifecycleVars
  <2> QED
    BY <2>3, <2>4
<1> QED
  BY <1>2, <1>3

\* What a made actor is made of, none of the registered actors has.
LEMMA MadeApart ==
    ASSUME WorldInvariant, NEW i \in SpawnSlots, Made(i), NEW b, b = spawnSlots[i].actor,
           b \notin assigned
    PROVE  /\ b \in Actors
           /\ \A k \in DOMAIN registered : registered[k] \in Actors /\ registered[k] # b
<1>1. SlotSound /\ RegisteredSound /\ spawnSlots \in [SpawnSlots -> FSlot]
  BY DEF WorldInvariant, TypeOK, SpawnTypeOK
<1>2. b # NoActor /\ b \in TypedActors \cup {NoActor}
  BY <1>1 DEF SlotSound, Made, FSlot
<1>3. \A k \in DOMAIN registered : registered[k] \in Actors /\ registered[k] \in assigned
  BY <1>1, Basics DEF RegisteredSound
<1> QED
  BY <1>2, <1>3 DEF Actors

\* Moves of actors that none of the made ones is leave those ready.
LEMMA MovesLeaveReady ==
    ASSUME WorldInvariant, PlayInvariant, MadeReady, agenda = <<>>, NEW moves, Dispatch(moves),
           Proper(moves), \A x \in Fresh : ~Touches(moves, x) => x \in Fresh',
           UNCHANGED spawnSlots, assigned \subseteq assigned',
           \A i \in SpawnSlots : Made(i) /\ spawnSlots[i].actor \notin assigned' =>
               \A k \in 1..Len(moves) : ~PartOf(spawnSlots[i].actor, moves[k].of)
    PROVE  MadeReady'
<1>1. DOMAIN moves = 1..Len(moves)
  BY MovesAre DEF Proper
<1>2. UNCHANGED <<object, components>>
  BY DEF Dispatch
<1>3. ASSUME NEW i \in SpawnSlots, Made(i)', spawnSlots'[i].actor \notin assigned'
      PROVE  IsReady(spawnSlots[i].actor)'
  <2>1. PICK b : b = spawnSlots[i].actor
    OBVIOUS
  <2>2. spawnSlots'[i].actor = b /\ Made(i) /\ b \notin assigned'
    BY <1>3, <2>1 DEF Made
  <2>3. IsReady(b)
    BY <2>1, <2>2 DEF MadeReady
  <2>4. \A x : PartOf(b, x) => ~Touches(moves, x)
    BY <1>1, <2>1, <2>2 DEF Touches
  <2>5. b \in Actors
    BY <2>1, <2>2, MadeApart
  <2>5a. PartOf(b, b) /\ \A j \in DOMAIN components[b] : PartOf(b, components[b][j])
    BY <2>5 DEF PartOf
  <2>6. IsReady(b)'
    BY <1>2, <2>3, <2>4, <2>5, <2>5a, ReadyStays
  <2> QED
    BY <2>2, <2>6 DEF IsReady
<1> QED
  BY <1>3 DEF MadeReady

LEMMA InitializingKeepsOrder ==
    ASSUME WorldInvariant, PlayInvariant, OrderInvariant, InitializeSubsystems
    PROVE  OrderInvariant'
<1>1. /\ agenda = <<>> /\ PlaySound /\ OrderSound /\ call \in Calls
      /\ call.stage = "Subsystems" /\ call.op # "None"
      /\ UNCHANGED <<worldState, registered, subsystems, assigned, spawnSlots>>
  BY Basics DEF InitializeSubsystems, AtStage, Quiet, PlayInvariant, OrderInvariant,
                registries, spawnVars
<1>2. /\ LifecycleTypeOK /\ InPlay = Playing /\ OwnershipSound
      /\ \A b \in Actors : Resolves(b) => IsWhole(Playing, b)
      /\ registered \in Seq(Actors) /\ DOMAIN registered = 1..Len(registered)
      /\ subsystems \in Seq(Subsystems)
  BY <1>1, Basics, Resting
<1>3. Differ(subsystems, DOMAIN subsystems)
  BY <1>1 DEF PlaySound
<1>4. PICK ready : ready = Prefix(subsystems, {s \in Subsystems : Begins(s)})
  OBVIOUS
<1>5. PICK moves : moves = IF ready = subsystems THEN Each(ready, "Playing")
                           ELSE Each(ready, "Playing") \o RollbackSteps(ready)
  OBVIOUS
<1>6. Dispatch(moves) /\ Stage(IF ready = subsystems THEN "Actors" ELSE "Failed")
  BY <1>4, <1>5 DEF InitializeSubsystems
<1>7. InPlay \cap Mains = {}
  BY <1>1 DEF PlaySound, Begun
<1>8. \A s \in Subsystems : Resolves(s) => ~Plays(s)
  BY <1>2, <1>7, MainsAre DEF Playing, Mains
<1>9. Initialized(moves, ready)
  BY <1>2, <1>3, <1>4, <1>5, <1>8, InitializeDoes
<1>10. /\ Proper(moves) /\ \A a \in Actors : Resolves(a) => IsWhole(OutOf(moves), a)
       /\ ready = subsystems => OutOf(moves) \cap Subsystems = ToSet(subsystems)
       /\ \A k \in 1..Len(moves) : moves[k].of \in Subsystems
  BY <1>9 DEF Initialized
<1>11. /\ InPlay' = OutOf(moves)
       /\ \A x \in Fresh : ~Touches(moves, x) => x \in Fresh'
  BY <1>1, <1>2, <1>6, <1>10, DispatchDoes
<1>12. call'.op = call.op /\ call'.stage = IF ready = subsystems THEN "Actors" ELSE "Failed"
  BY <1>1, <1>6, Staged DEF Stages
<1>13. Len(moves) \in Nat /\ DOMAIN moves = 1..Len(moves)
  BY <1>10, MovesAre DEF Proper
<1>14. \A a \in Actors : \A k \in 1..Len(moves) : moves[k].of # a /\ ~PartOf(a, moves[k].of)
  BY <1>10, Basics, MainsAre DEF PartOf
<1>15. \A i \in DOMAIN registered : registered[i] \in Actors
  BY <1>2
<1>16. \A a \in Actors : \A k \in 1..Len(moves) : ~PlaysAt(moves, k - 1, a)
  <2> TAKE a \in Actors
  <2> TAKE k \in 1..Len(moves)
  <2>1. k - 1 \in Nat /\ \A i \in 1..(k - 1) : i \in 1..Len(moves)
    BY <1>13
  <2>2. OutAt(moves, k - 1, a) <=> lifecycle[a] = "Playing"
    BY <1>14, <2>1, UntouchedOut
  <2>3. ~Plays(a)
    BY <1>2, <1>7, MainsAre DEF Playing, Mains
  <2> QED
    BY <2>2, <2>3 DEF Plays, PlaysAt
<1>17. BeginsInOrder(moves, registered)
  BY <1>13, <1>14, <1>15 DEF BeginsInOrder
<1>18. EndsInOrder(moves, registered)
  <2>1. ASSUME NEW k \in DOMAIN moves, moves[k].to = "Ended"
        PROVE  \A i, j \in DOMAIN subsystems :
                 i < j /\ moves[k].of = subsystems[i] => ~PlaysAt(moves, k - 1, subsystems[j])
    BY <1>9, <1>13, <2>1 DEF Initialized, PlaysAt
  <2>2. \A k \in DOMAIN moves : \A i \in DOMAIN registered : moves[k].of # registered[i]
    BY <1>13, <1>14, <1>15
  <2>3. \A k \in DOMAIN moves : \A a \in ToSet(registered) : ~PlaysAt(moves, k - 1, a)
    BY <1>13, <1>15, <1>16 DEF ToSet
  <2> QED
    BY <2>1, <2>2, <2>3 DEF EndsInOrder
<1>19. AgendaInOrder'
  BY <1>1, <1>6, <1>12, <1>17, <1>18, DispatchedOrder DEF MovesInOrder
<1>20. call.op = "BeginPlay" => MadeReady'
  <2> SUFFICES ASSUME call.op = "BeginPlay" PROVE MadeReady'
    OBVIOUS
  <2>1. MadeReady
    BY <1>1 DEF OrderSound, BeginStages
  <2>2. \A i \in SpawnSlots : Made(i) /\ spawnSlots[i].actor \notin assigned' =>
           \A k \in 1..Len(moves) : ~PartOf(spawnSlots[i].actor, moves[k].of)
    BY <1>1, <1>14, MadeApart
  <2>3. UNCHANGED spawnSlots /\ assigned \subseteq assigned'
    BY <1>1
  <2> QED
    BY <1>1, <1>6, <1>10, <1>11, <2>1, <2>2, <2>3, MovesLeaveReady
<1>21. call'.stage = "Actors" => ToSet(subsystems') \subseteq InPlay'
  BY <1>1, <1>10, <1>11, <1>12
<1>22. OrderSound'
  BY <1>1, <1>12, <1>20, <1>21 DEF OrderSound
<1> QED
  BY <1>19, <1>22 DEF OrderInvariant

LEMMA BeginningKeepsOrder ==
    ASSUME WorldInvariant, PlayInvariant, OrderInvariant, BeginActors
    PROVE  OrderInvariant'
<1>1. /\ agenda = <<>> /\ PlaySound /\ OrderSound /\ call \in Calls
      /\ call.stage = "Actors" /\ call.op # "None"
      /\ UNCHANGED <<worldState, registered, subsystems, assigned, spawnSlots>>
  BY Basics DEF BeginActors, AtStage, Quiet, PlayInvariant, OrderInvariant, registries, spawnVars
<1>2. /\ LifecycleTypeOK /\ InPlay = Playing /\ OwnershipSound
      /\ \A b \in Actors : Resolves(b) => IsWhole(Playing, b)
      /\ registered \in Seq(Actors) /\ Differ(registered, DOMAIN registered)
      /\ DOMAIN registered = 1..Len(registered) /\ Len(registered) \in Nat
      /\ subsystems \in Seq(Subsystems)
  BY <1>1, Basics, Resting
<1>3. PICK moves : moves = DispatchInOrder(ActorsThatBegin, [a \in Actors |-> BeginSteps(a)])
  OBVIOUS
<1>4. PICK begun : begun = Prefix(registered, ActorsThatBegin)
  OBVIOUS
<1>5. /\ Dispatch(moves)
      /\ IF begun = registered THEN Stage("BeginDeferred")
         ELSE call' = [call EXCEPT !.stage = "RollbackActors", !.at = Len(begun)]
  BY <1>3, <1>4 DEF BeginActors
<1>6. Playing \cap Actors = {} /\ ToSet(subsystems) \subseteq Playing
  BY <1>1, <1>2 DEF PlaySound, OrderSound
<1>7. BeginsFirst(moves, Len(begun))
  BY <1>2, <1>3, <1>4, <1>6, BeginActorsDo
<1>8. /\ Proper(moves) /\ \A a \in Actors : Resolves(a) => IsWhole(OutOf(moves), a)
      /\ \A k \in 1..Len(moves) : \E i \in DOMAIN registered : PartOf(registered[i], moves[k].of)
      /\ OutOf(moves) \cap Subsystems = Playing \cap Subsystems
      /\ \A i \in 1..Len(begun) : registered[i] \in OutOf(moves)
  BY <1>7 DEF BeginsFirst
<1>9. /\ InPlay' = OutOf(moves)
      /\ \A x \in Fresh : ~Touches(moves, x) => x \in Fresh'
  BY <1>1, <1>2, <1>5, <1>8, DispatchDoes
<1>10. /\ call'.op = call.op /\ call'.stage \in {"BeginDeferred", "RollbackActors"}
       /\ call'.stage = "BeginDeferred" => begun = registered
  <2>1. CASE begun = registered
    BY <1>1, <1>5, <2>1, Staged DEF Stages
  <2>2. CASE begun # registered
    BY <1>1, <1>5, <2>2 DEF Calls
  <2> QED
    BY <2>1, <2>2
<1>11. Len(moves) \in Nat /\ DOMAIN moves = 1..Len(moves)
  BY <1>8, MovesAre DEF Proper
<1>12. \A s \in Subsystems : \A k \in 1..Len(moves) : moves[k].of # s
  BY <1>2, <1>8, Basics, MainsAre DEF PartOf
<1>13. \A s \in ToSet(subsystems) : s \in Subsystems /\ s \in Playing
  BY <1>2, <1>6 DEF ToSet
<1>14. \A k \in 1..Len(moves) : \A s \in ToSet(subsystems) : PlaysAt(moves, k - 1, s)
  <2> TAKE k \in 1..Len(moves)
  <2> TAKE s \in ToSet(subsystems)
  <2>1. k - 1 \in Nat /\ \A i \in 1..(k - 1) : i \in 1..Len(moves)
    BY <1>11
  <2>2. \A i \in 1..(k - 1) : moves[i].of # s
    BY <1>12, <1>13, <2>1
  <2>3. OutAt(moves, k - 1, s) <=> lifecycle[s] = "Playing"
    BY <2>1, <2>2, UntouchedOut
  <2> QED
    BY <1>13, <2>3 DEF Playing, Plays, PlaysAt
<1>15. \A k \in 1..Len(moves) : \A i \in DOMAIN registered : moves[k].of = registered[i] =>
          /\ moves[k].to # "Ended"
          /\ \A j \in 1..(i - 1) : PlaysAt(moves, k - 1, registered[j])
  BY <1>7 DEF BeginsFirst, PlaysAt
<1>16. BeginsInOrder(moves, registered)
  BY <1>11, <1>14, <1>15 DEF BeginsInOrder
<1>17. EndsInOrder(moves, registered)
  BY <1>11, <1>12, <1>13, <1>15 DEF ToSet, EndsInOrder
<1>18. AgendaInOrder'
  BY <1>1, <1>5, <1>10, <1>16, <1>17, DispatchedOrder DEF MovesInOrder
<1>19. call.op = "BeginPlay" => MadeReady'
  <2> SUFFICES ASSUME call.op = "BeginPlay" PROVE MadeReady'
    OBVIOUS
  <2>1. MadeReady
    BY <1>1 DEF OrderSound, BeginStages
  <2>2. ASSUME NEW i \in SpawnSlots, Made(i), spawnSlots[i].actor \notin assigned',
               NEW k \in 1..Len(moves)
        PROVE  ~PartOf(spawnSlots[i].actor, moves[k].of)
    <3>1. PICK b : b = spawnSlots[i].actor
      OBVIOUS
    <3>2. b \in Actors /\ \A j \in DOMAIN registered : registered[j] \in Actors /\ registered[j] # b
      BY <1>1, <2>2, <3>1, MadeApart
    <3>3. PICK j \in DOMAIN registered : PartOf(registered[j], moves[k].of)
      BY <1>8
    <3>4. moves[k].of \in Components \cup Actors
      BY <3>2, <3>3, Basics DEF PartOf
    <3>5. ~PartOf(b, moves[k].of)
      BY <1>2, <3>2, <3>3, <3>4, OneOwner
    <3> QED
      BY <3>1, <3>5
  <2>3. UNCHANGED spawnSlots /\ assigned \subseteq assigned'
    BY <1>1
  <2>4. \A i \in SpawnSlots : Made(i) /\ spawnSlots[i].actor \notin assigned' =>
           \A k \in 1..Len(moves) : ~PartOf(spawnSlots[i].actor, moves[k].of)
    BY <2>2
  <2> QED
    BY <1>1, <1>5, <1>8, <1>9, <2>1, <2>3, <2>4, MovesLeaveReady
<1>20. call'.stage = "BeginDeferred" => ToSet(registered') \cup ToSet(subsystems') \subseteq InPlay'
  <2> SUFFICES ASSUME call'.stage = "BeginDeferred"
               PROVE  ToSet(registered) \cup ToSet(subsystems) \subseteq OutOf(moves)
    BY <1>1, <1>9
  <2>1. \A i \in DOMAIN registered : registered[i] \in OutOf(moves)
    BY <1>2, <1>8, <1>10
  <2>2. \A s \in ToSet(subsystems) : s \in OutOf(moves)
    BY <1>8, <1>13
  <2> QED
    BY <2>1, <2>2 DEF ToSet
<1>21. OrderSound'
  BY <1>1, <1>10, <1>19, <1>20 DEF OrderSound
<1> QED
  BY <1>18, <1>21 DEF OrderInvariant

LEMMA PublishingKeepsOrder ==
    ASSUME WorldInvariant, PlayInvariant, OrderInvariant, BeginNextDeferred
    PROVE  OrderInvariant'
<1>1. /\ agenda = <<>> /\ PlaySound /\ OrderSound /\ call \in Calls /\ RegisteredSound /\ TypeOK
  BY Basics DEF BeginNextDeferred, AtStage, Quiet, PlayInvariant, OrderInvariant, WorldInvariant
<1>2. /\ LifecycleTypeOK /\ InPlay = Playing /\ OwnershipSound
      /\ \A b \in Actors : Resolves(b) => IsWhole(Playing, b)
      /\ registered \in Seq(Actors) /\ DOMAIN registered = 1..Len(registered)
      /\ Len(registered) \in Nat /\ subsystems \in Seq(Subsystems)
  BY <1>1, Basics, Resting
<1>3. PICK s, a : /\ s = sealedPublishes[call.at].index
                  /\ a = GetConstructedActor(sealedPublishes[call.at])
  OBVIOUS
<1>4. /\ call.stage = "BeginDeferred" /\ call.op # "None" /\ s \in SpawnSlots
      /\ Made(s) /\ spawnSlots[s].actor = a /\ a \in Actors /\ Resolves(a) /\ a \notin assigned
      /\ Publish(a) /\ call'.op = call.op /\ call'.stage = "Published"
      /\ UNCHANGED <<spawnSlots, worldState, subsystems>>
  BY <1>3, BeginNextDeferredDoes DEF Made, Actors, spawnVars
<1>5. /\ assigned' = assigned \cup {a} /\ registered' \in Seq(Actors)
      /\ Differ(registered, DOMAIN registered)'
  BY <1>1, <1>4, PublishDoes
<1>6. PICK moves : moves = BeginSteps(a)
  OBVIOUS
<1>7. Dispatch(moves) /\ registered' = Append(registered, a)
  BY <1>4, <1>6 DEF Publish
<1>8. /\ Proper(moves) /\ \A b \in Actors : Resolves(b) => IsWhole(OutOf(moves), b)
  BY <1>2, <1>4, <1>6, BeginOneDoes
<1>9. /\ InPlay' = OutOf(moves)
      /\ \A x \in Fresh : ~Touches(moves, x) => x \in Fresh'
  BY <1>1, <1>2, <1>7, <1>8, DispatchDoes
<1>10. /\ \A k \in 1..Len(moves) : PartOf(a, moves[k].of)
                                        /\ (moves[k].of = a => moves[k].to # "Ended")
       /\ ~BeginFails(a) => OutAt(moves, Len(moves), a)
  BY <1>2, <1>4, <1>6, BeginsWhole
<1>11. Len(moves) \in Nat /\ DOMAIN moves = 1..Len(moves)
  BY <1>8, MovesAre DEF Proper
<1>12. \A x \in Mains : x # a => \A k \in 1..Len(moves) : moves[k].of # x
  BY <1>10, Basics, MainsAre DEF PartOf, Mains
<1>13. /\ DOMAIN registered' = 1..(Len(registered) + 1) /\ registered'[Len(registered) + 1] = a
       /\ \A i \in 1..Len(registered) : registered'[i] = registered[i]
       /\ \A i \in DOMAIN registered' : registered'[i] \in Mains
  BY <1>2, <1>5, <1>7 DEF Mains
<1>14. \A x \in ToSet(subsystems) : x \in Mains /\ x # a /\ x \in Objects
  BY <1>2, <1>4, MainsAre DEF ToSet, Mains
<1>15. \A i \in 1..Len(registered) : registered'[i] \in Mains /\ registered'[i] # a
  BY <1>1, <1>2, <1>4, <1>13 DEF RegisteredSound
<1>16. EndsInOrder(moves, registered')
  <2>1. ASSUME NEW k \in DOMAIN moves, moves[k].to = "Ended", NEW x \in Mains, moves[k].of = x
        PROVE  FALSE
    BY <1>10, <1>11, <1>12, <2>1
  <2>2. \A i \in DOMAIN subsystems : subsystems[i] \in ToSet(subsystems)
    BY DEF ToSet
  <2> QED
    BY <1>13, <1>14, <2>1, <2>2 DEF EndsInOrder
<1>17. worldState' # "Constructed"
  BY <1>1, <1>4 DEF OrderSound
<1>18. CASE call.op # "BeginPlay"
  BY <1>4, <1>7, <1>16, <1>17, <1>18, DispatchKeepsOrder DEF MovesInOrder
<1>19. CASE call.op = "BeginPlay"
  <2>1. MadeReady /\ ToSet(registered) \cup ToSet(subsystems) \subseteq Playing
    BY <1>1, <1>2, <1>4, <1>19 DEF OrderSound, BeginStages
  <2>2. IsReady(a)
    BY <1>4, <2>1 DEF MadeReady
  <2>3. ~BeginFails(a)
    BY <2>2 DEF IsReady, Fresh, BeginFails, Begins
  <2>4. a \in OutOf(moves)
    BY <1>4, <1>10, <2>3, MainsAre DEF OutOf
  <2>5. ASSUME NEW x \in Mains, x # a, x \in Playing, NEW k \in 0..Len(moves)
        PROVE  PlaysAt(moves, k, x)
    <3>1. k \in Nat /\ \A i \in 1..k : moves[i].of # x
      BY <1>11, <1>12, <2>5
    <3>2. OutAt(moves, k, x) <=> lifecycle[x] = "Playing"
      BY <3>1, UntouchedOut
    <3> QED
      BY <2>5, <3>2 DEF Playing, Plays, PlaysAt
  <2>6. \A x \in ToSet(subsystems) : x \in Playing
    BY <2>1
  <2>7. \A i \in 1..Len(registered) : registered'[i] \in Playing
    BY <1>2, <1>13, <2>1 DEF ToSet
  <2>8. \A k \in 1..Len(moves) : k - 1 \in 0..Len(moves)
    BY <1>11
  <2>9. BeginsInOrder(moves, registered')
    <3>1. \A k \in DOMAIN moves : \A x \in ToSet(subsystems) : PlaysAt(moves, k - 1, x)
      BY <1>11, <1>14, <2>5, <2>6, <2>8
    <3>2. ASSUME NEW i \in DOMAIN registered', NEW j \in 1..(i - 1)
          PROVE  j \in 1..Len(registered)
      BY <1>2, <1>13
    <3>3. \A k \in DOMAIN moves : \A i \in DOMAIN registered' : \A j \in 1..(i - 1) :
             PlaysAt(moves, k - 1, registered'[j])
      BY <1>11, <1>15, <2>5, <2>7, <2>8, <3>2
    <3> QED
      BY <1>4, <3>1, <3>3 DEF BeginsInOrder
  <2>10. AgendaInOrder'
    BY <1>4, <1>7, <1>16, <2>9, DispatchedOrder DEF MovesInOrder
  <2>11. MadeReady'
    <3>1. ASSUME NEW i \in SpawnSlots, Made(i), spawnSlots[i].actor \notin assigned',
                 NEW k \in 1..Len(moves)
          PROVE  ~PartOf(spawnSlots[i].actor, moves[k].of)
      <4>1. PICK b : b = spawnSlots[i].actor
        OBVIOUS
      <4>2. b \in Actors /\ b # a
        BY <1>5, <3>1, <4>1, MadeApart
      <4>3. PartOf(a, moves[k].of) /\ moves[k].of \in Components \cup Actors
        BY <1>4, <1>10, Basics DEF PartOf
      <4>4. ~PartOf(b, moves[k].of)
        BY <1>2, <1>4, <4>2, <4>3, OneOwner
      <4> QED
        BY <4>1, <4>4
    <3>2. UNCHANGED spawnSlots /\ assigned \subseteq assigned'
      BY <1>4, <1>5
    <3>3. \A i \in SpawnSlots : Made(i) /\ spawnSlots[i].actor \notin assigned' =>
             \A k \in 1..Len(moves) : ~PartOf(spawnSlots[i].actor, moves[k].of)
      BY <3>1
    <3> QED
      BY <1>1, <1>7, <1>8, <1>9, <2>1, <3>2, <3>3, MovesLeaveReady
  <2>12. ToSet(registered') \cup ToSet(subsystems') \subseteq InPlay'
    <3>1. Len(moves) \in 0..Len(moves)
      BY <1>11
    <3>2. \A x \in Mains : x # a /\ x \in Playing => x \in OutOf(moves)
      BY <2>5, <3>1, MainsAre DEF PlaysAt, OutOf
    <3>3. \A x \in ToSet(subsystems) : x \in OutOf(moves)
      BY <1>14, <2>6, <3>2
    <3>4. \A i \in 1..Len(registered) : registered'[i] \in OutOf(moves)
      BY <1>15, <2>7, <3>2
    <3>5. \A i \in DOMAIN registered' : i \in 1..Len(registered) \/ i = Len(registered) + 1
      BY <1>2, <1>13
    <3>6. \A i \in DOMAIN registered' : registered'[i] \in OutOf(moves)
      BY <1>13, <2>4, <3>4, <3>5
    <3>7. \A x \in ToSet(registered') : x \in OutOf(moves)
      BY <3>6 DEF ToSet
    <3> QED
      BY <1>4, <1>9, <3>3, <3>7
  <2>13. OrderSound'
    BY <1>4, <1>17, <1>19, <2>11, <2>12 DEF OrderSound
  <2> QED
    BY <2>10, <2>13 DEF OrderInvariant
<1> QED
  BY <1>18, <1>19

(* A move is made: those that are left come in the same order. *)
LEMMA MoveKeepsOrder ==
    ASSUME WorldInvariant, PlayInvariant, OrderInvariant, Dispatching
    PROVE  OrderInvariant'
<1>1. /\ DispatchStep /\ LifecycleTypeOK /\ OrderSound /\ AgendaInOrder
      /\ UNCHANGED <<worldState, registered, subsystems, assigned, spawnSlots, call>>
  BY Basics DEF Dispatching, registries, spawnVars, OrderInvariant
<1>2. InPlay' = InPlay /\ Fresh \subseteq Fresh' /\ UNCHANGED <<object, components>>
  BY <1>1, MovesLeft
<1>3. /\ agenda' = Tail(agenda) /\ agenda # <<>> /\ agenda \in Seq(Steps)
  BY <1>1 DEF DispatchStep, LifecycleTypeOK
<1>4. /\ Len(agenda) \in Nat /\ DOMAIN agenda = 1..Len(agenda)
      /\ DOMAIN agenda' = 1..(Len(agenda) - 1)
      /\ \A k \in DOMAIN agenda' : agenda'[k] = agenda[k + 1]
  BY <1>3
<1>5. \A k \in DOMAIN agenda' : /\ k + 1 \in DOMAIN agenda /\ (k + 1) - 1 = k
                                /\ k - 1 \in Nat /\ (k - 1) + 1 = k /\ k <= Len(agenda)
  BY <1>4
<1>6. ASSUME NEW k \in DOMAIN agenda', NEW x \in Objects
      PROVE  PlaysAt(agenda, k - 1, x)' <=> PlaysAt(agenda, (k + 1) - 1, x)
  <2>1. PICK l \in Nat : l = k - 1 /\ l + 1 = k
    BY <1>5
  <2>2. OutAt(agenda, l, x)' <=> OutAt(agenda, l + 1, x)
    BY <1>1, <1>5, <2>1, ShiftOut
  <2>3. OutAt(agenda, k - 1, x)' <=> OutAt(agenda, (k + 1) - 1, x)
    BY <1>1, <1>5, <2>1, <2>2 DEF OutAt
  <2> QED
    BY <1>2, <2>3 DEF PlaysAt, Resolves
<1>7. AgendaInOrder'
  <2>1. /\ \A i \in DOMAIN registered : registered[i] \in Objects
        /\ \A i \in DOMAIN subsystems : subsystems[i] \in Objects
        /\ \A x \in ToSet(registered) \cup ToSet(subsystems) : x \in Objects
    BY Basics, MainsAre DEF ToSet
  <2>2. call.op = "BeginPlay" => BeginsInOrder(agenda, registered)'
    <3>1. ASSUME call.op = "BeginPlay", NEW k \in DOMAIN agenda', agenda'[k].to = "Playing",
                 NEW i \in DOMAIN registered, agenda'[k].of = registered[i]
          PROVE  /\ \A s \in ToSet(subsystems) : PlaysAt(agenda, k - 1, s)'
                 /\ \A j \in 1..(i - 1) : PlaysAt(agenda, k - 1, registered[j])'
      <4>1. /\ k + 1 \in DOMAIN agenda /\ agenda[k + 1].to = "Playing"
            /\ agenda[k + 1].of = registered[i]
        BY <1>4, <1>5, <3>1
      <4>2. /\ \A s \in ToSet(subsystems) : PlaysAt(agenda, (k + 1) - 1, s)
            /\ \A j \in 1..(i - 1) : PlaysAt(agenda, (k + 1) - 1, registered[j])
        BY <1>1, <3>1, <4>1 DEF AgendaInOrder, MovesInOrder, BeginsInOrder
      <4>3. \A s \in ToSet(subsystems) : PlaysAt(agenda, k - 1, s)'
        BY <1>6, <2>1, <4>2
      <4>4. ASSUME NEW j \in 1..(i - 1) PROVE PlaysAt(agenda, k - 1, registered[j])'
        <5>1. PICK x : x = registered[j]
          OBVIOUS
        <5>2. x \in Objects
          <6>1. j \in DOMAIN registered
            BY <3>1, Basics
          <6> QED
            BY <2>1, <5>1, <6>1
        <5>3. PlaysAt(agenda, k - 1, x)'
          BY <1>6, <4>2, <5>1, <5>2
        <5> QED
          BY <1>1, <5>1, <5>3 DEF PlaysAt, OutAt, Resolves
      <4> QED
        BY <4>3, <4>4
    <3> QED
      BY <1>1, <3>1 DEF BeginsInOrder
  <2>3. call.op \in {"BeginPlay", "EndPlay"} => EndsInOrder(agenda, registered)'
    <3>1. ASSUME call.op \in {"BeginPlay", "EndPlay"}, NEW k \in DOMAIN agenda',
                 agenda'[k].to = "Ended"
          PROVE  /\ \A i, j \in DOMAIN registered : i < j /\ agenda'[k].of = registered[i] =>
                       ~PlaysAt(agenda, k - 1, registered[j])'
                 /\ \A i, j \in DOMAIN subsystems : i < j /\ agenda'[k].of = subsystems[i] =>
                       ~PlaysAt(agenda, k - 1, subsystems[j])'
                 /\ agenda'[k].of \in ToSet(subsystems) =>
                       \A a \in ToSet(registered) : ~PlaysAt(agenda, k - 1, a)'
      <4>1. k + 1 \in DOMAIN agenda /\ agenda[k + 1].to = "Ended" /\ agenda'[k] = agenda[k + 1]
        BY <1>4, <1>5, <3>1
      <4>2. /\ \A i, j \in DOMAIN registered : i < j /\ agenda'[k].of = registered[i] =>
                  ~PlaysAt(agenda, (k + 1) - 1, registered[j])
            /\ \A i, j \in DOMAIN subsystems : i < j /\ agenda'[k].of = subsystems[i] =>
                  ~PlaysAt(agenda, (k + 1) - 1, subsystems[j])
            /\ agenda'[k].of \in ToSet(subsystems) =>
                  \A a \in ToSet(registered) : ~PlaysAt(agenda, (k + 1) - 1, a)
        BY <1>1, <3>1, <4>1 DEF AgendaInOrder, MovesInOrder, EndsInOrder
      <4>3. /\ \A j \in DOMAIN registered :
                  PlaysAt(agenda, k - 1, registered[j])'
                      => PlaysAt(agenda, (k + 1) - 1, registered[j])
            /\ \A j \in DOMAIN subsystems :
                  PlaysAt(agenda, k - 1, subsystems[j])'
                      => PlaysAt(agenda, (k + 1) - 1, subsystems[j])
        <5>1. \A j \in DOMAIN registered :
                 PlaysAt(agenda, k - 1, registered[j])'
                     => PlaysAt(agenda, (k + 1) - 1, registered[j])
          <6> TAKE j \in DOMAIN registered
          <6>1. PICK x \in Objects : x = registered[j]
            BY <2>1
          <6>2. PlaysAt(agenda, k - 1, registered[j])' => PlaysAt(agenda, k - 1, x)'
            BY <1>1, <6>1 DEF PlaysAt, OutAt, Resolves
          <6> QED
            BY <1>6, <6>1, <6>2
        <5>2. \A j \in DOMAIN subsystems :
                 PlaysAt(agenda, k - 1, subsystems[j])'
                     => PlaysAt(agenda, (k + 1) - 1, subsystems[j])
          <6> TAKE j \in DOMAIN subsystems
          <6>1. PICK x \in Objects : x = subsystems[j]
            BY <2>1
          <6>2. PlaysAt(agenda, k - 1, subsystems[j])' => PlaysAt(agenda, k - 1, x)'
            BY <1>1, <6>1 DEF PlaysAt, OutAt, Resolves
          <6> QED
            BY <1>6, <6>1, <6>2
        <5> QED
          BY <5>1, <5>2
      <4>4. \A a \in ToSet(registered) :
               PlaysAt(agenda, k - 1, a)' => PlaysAt(agenda, (k + 1) - 1, a)
        BY <1>6, <2>1
      <4> QED
        BY <4>2, <4>3, <4>4
    <3> QED
      BY <1>1, <3>1 DEF EndsInOrder
  <2> QED
    BY <1>1, <2>2, <2>3 DEF AgendaInOrder, MovesInOrder
<1>8. MadeReady => MadeReady'
  BY <1>1, <1>2, NoneMadeBy, MadeStaysReady
<1>9. call.op # "None"
  BY <1>1, <1>3 DEF OrderSound
<1>10. OrderSound'
  BY <1>1, <1>2, <1>8, <1>9 DEF OrderSound
<1> QED
  BY <1>7, <1>10 DEF OrderInvariant

LEMMA OrderBegins == Init => OrderInvariant
<1> SUFFICES ASSUME Init PROVE OrderInvariant
  OBVIOUS
<1>1. agenda = <<>> /\ worldState = "Constructed" /\ call = NoCall /\ SpawnInit
  BY DEF Init, LifecycleInit
<1>2. AgendaInOrder
  BY <1>1, NothingToOrder
<1>3. \A i \in SpawnSlots : ~Made(i)
  BY <1>1 DEF SpawnInit, Made
<1>4. OrderSound
  BY <1>1, <1>3, NoCallIs DEF OrderSound
<1> QED
  BY <1>2, <1>4 DEF OrderInvariant

LEMMA OrderKept ==
    WorldInvariant /\ PlayInvariant /\ OrderInvariant /\ [Next]_vars => OrderInvariant'
<1> SUFFICES ASSUME WorldInvariant, PlayInvariant, OrderInvariant, [Next]_vars
             PROVE  OrderInvariant'
  OBVIOUS
<1>1. CASE UserStep
  <2>1. CASE \E a \in ManualActors : Register(a) \/ SpawnActor(a)
    BY <2>1, IdleKeepsOrder, ObserversKeepOrder
  <2>2. CASE \/ \E a \in Actors, c \in Components : RegisterComponentOf(a, c)
             \/ \E s \in Subsystems : RegisterSubsystem(s)
             \/ \E x \in Loseable : LoseObject(x)
    BY <2>2, IdleKeepsOrder
  <2>3. CASE \/ \E a \in Actors : DestroyActor(a)
             \/ QueueTypedActor \/ RefusedBarrier \/ ToggleCollection
    BY <2>3, ObserversKeepOrder
  <2>4. CASE BeginPlay \/ ApplyPending
    BY <2>4, CallsKeepOrder
  <2>5. CASE Advance \/ EndPlay
    BY <2>5, EndingKeepsOrder
  <2> QED
    BY <1>1, <2>1, <2>2, <2>3, <2>4, <2>5 DEF UserStep
<1>2. CASE CallStep
  <2>1. CASE Dispatching
    BY <2>1, MoveKeepsOrder
  <2>2. CASE FactoryReturns
    BY <2>2, FactoryKeepsOrder
  <2>3. CASE FailConstruction \/ MarkAndUnregisterDoomedActors
    BY <2>3, DestructionKeepsOrder
  <2>4. CASE \/ ApplyBarrierAfterAdvance \/ EnterFactory \/ EndConstruct \/ FailAtLast \/ EndSpawns
             \/ CompleteDeferred \/ CallReturns
    BY <2>4, CallsKeepOrder
  <2>5. CASE InitializeSubsystems
    BY <2>5, InitializingKeepsOrder
  <2>6. CASE BeginActors
    BY <2>6, BeginningKeepsOrder
  <2>7. CASE RollbackActors \/ FailWorld \/ EndNextDoomed
    BY <2>7, EndingKeepsOrder
  <2>8. CASE BeginNextSpawn \/ EndDeferred
    BY <2>8, SpawnsKeepOrder
  <2>9. CASE BeginNextDeferred
    BY <2>9, PublishingKeepsOrder
  <2> QED
    BY <1>2, <2>1, <2>2, <2>3, <2>4, <2>5, <2>6, <2>7, <2>8, <2>9 DEF CallStep
<1>3. CASE HookReturns \/ UNCHANGED vars
  BY <1>3, ObserversKeepOrder
<1> QED
  BY <1>1, <1>2, <1>3 DEF Next, Defined, Undefined

\* No object starts or stops but by a move of the agenda.
LEMMA MovesAlone ==
    ASSUME [Next]_vars
    PROVE  Dispatching \/ UNCHANGED lifecycle
<1>1. CASE UserStep
  BY <1>1 DEF UserStep, Register, SpawnActor, RegisterComponentOf, RegisterComponent,
              RegisterSubsystem, LoseObject, DestroyActor, QueueTypedActor, RefusedBarrier,
              BeginPlay, Advance, Dispatch, ApplyPending, BeginBarrier, EndPlay, ToggleCollection, lifecycleVars
<1>2. CASE CallStep
  <2>0. CASE ApplyBarrierAfterAdvance
    BY <2>0 DEF ApplyBarrierAfterAdvance, BeginBarrier, lifecycleVars
  <2>1. CASE FactoryReturns
    BY <2>1 DEF FactoryReturns, Construct, Born, lifecycleVars
  <2>2. CASE EnterFactory \/ FailConstruction \/ EndConstruct \/ InitializeSubsystems \/ BeginActors
    BY <2>2 DEF EnterFactory, FailConstruction, EndConstruct, InitializeSubsystems, BeginActors,
                Dispatch, lifecycleVars
  <2>3. CASE RollbackActors \/ FailWorld \/ FailAtLast \/ EndNextDoomed
             \/ MarkAndUnregisterDoomedActors \/ EndSpawns \/ CompleteDeferred \/ CallReturns
    BY <2>3 DEF RollbackActors, FailWorld, FailAtLast, EndNextDoomed,
                MarkAndUnregisterDoomedActors, EndSpawns, CompleteDeferred, CallReturns,
                Dispatch, lifecycleVars
  <2>4. CASE BeginNextSpawn \/ BeginNextDeferred \/ EndDeferred
    BY <2>4 DEF BeginNextSpawn, BeginNextDeferred, EndDeferred, Publish, Dispatch, lifecycleVars
  <2> QED
    BY <1>2, <2>0, <2>1, <2>2, <2>3, <2>4 DEF CallStep
<1>3. CASE HookReturns \/ UNCHANGED vars
  BY <1>3 DEF HookReturns, vars, lifecycleVars
<1> QED
  BY <1>1, <1>2, <1>3 DEF Next, Defined, Undefined

(***************************************************************************)
(* Whatever hooks request and whichever objects fail: while a world begins *)
(* an actor begins only after all subsystems and all the actors registered *)
(* before it, and what ends finds nothing in play that is to end first.    *)
(***************************************************************************)
THEOREM PlayStartsAndStopsInOrder == Spec => StartAndStopInOrder
<1> DEFINE InOrder ==
        /\ call.op = "BeginPlay" =>
             \A i \in DOMAIN registered : Started(registered[i]) =>
                 /\ \A s \in ToSet(subsystems) : Plays(s)
                 /\ \A j \in 1..(i - 1) : Plays(registered[j])
        /\ call.op \in {"BeginPlay", "EndPlay"} =>
             /\ StopsInReverse(registered) /\ StopsInReverse(subsystems)
             /\ \A s \in ToSet(subsystems) : Stopped(s) =>
                     \A a \in ToSet(registered) : ~Plays(a)
<1>1. Spec => [](WorldInvariant /\ PlayInvariant /\ OrderInvariant)
  BY PlayStaysSound, OrderBegins, OrderKept, PTL DEF Spec
<1>2. ASSUME WorldInvariant, OrderInvariant, [Next]_vars PROVE [InOrder]_vars
  <2>2. CASE Dispatching
    <3>1. /\ DispatchStep /\ AgendaInOrder /\ LifecycleTypeOK
      BY <1>2, <2>2, Basics DEF Dispatching, OrderInvariant
    <3>2. PICK x, phase : x = Head(agenda).of /\ phase = Head(agenda).to
      OBVIOUS
    <3>3. /\ lifecycle' = [lifecycle EXCEPT ![x] = phase]
          /\ 1 \in DOMAIN agenda /\ agenda[1].of = x /\ agenda[1].to = phase
          /\ lifecycle \in [Objects -> Phases]
      BY <3>1, <3>2 DEF DispatchStep, LifecycleTypeOK
    <3>4. \A y \in Objects : /\ Started(y) => y = x /\ phase = "Playing"
                             /\ Stopped(y) => y = x /\ phase = "Ended"
      BY <3>3 DEF Started, Stopped
    <3>5. \A y : PlaysAt(agenda, 1 - 1, y) <=> Plays(y)
      <4>1. ASSUME NEW y PROVE OutAt(agenda, 0, y) <=> lifecycle[y] = "Playing"
        BY DEF OutAt
      <4> QED
        BY <4>1 DEF PlaysAt, Plays
    <3>6. /\ \A i \in DOMAIN registered : registered[i] \in Objects
          /\ \A i \in DOMAIN subsystems : subsystems[i] \in Objects
          /\ \A s \in ToSet(subsystems) : s \in Objects
      BY <1>2, Basics, MainsAre DEF ToSet
    <3>7. ASSUME call.op = "BeginPlay", NEW i \in DOMAIN registered, Started(registered[i])
          PROVE  /\ \A s \in ToSet(subsystems) : Plays(s)
                 /\ \A j \in 1..(i - 1) : Plays(registered[j])
      <4>1. agenda[1].of = registered[i] /\ agenda[1].to = "Playing"
        BY <3>3, <3>4, <3>6, <3>7
      <4>2. BeginsInOrder(agenda, registered)
        BY <3>1, <3>7 DEF AgendaInOrder, MovesInOrder
      <4>3. /\ \A s \in ToSet(subsystems) : PlaysAt(agenda, 1 - 1, s)
            /\ \A j \in 1..(i - 1) : PlaysAt(agenda, 1 - 1, registered[j])
        BY <3>3, <3>7, <4>1, <4>2 DEF BeginsInOrder
      <4> QED
        BY <3>5, <4>3
    <3>8. ASSUME call.op \in {"BeginPlay", "EndPlay"}
          PROVE  /\ StopsInReverse(registered) /\ StopsInReverse(subsystems)
                 /\ \A s \in ToSet(subsystems) : Stopped(s) =>
                         \A a \in ToSet(registered) : ~Plays(a)
      <4>1. EndsInOrder(agenda, registered)
        BY <3>1, <3>8 DEF AgendaInOrder, MovesInOrder
      <4>2. phase = "Ended" =>
              /\ \A i, j \in DOMAIN registered : i < j /\ x = registered[i] => ~Plays(registered[j])
              /\ \A i, j \in DOMAIN subsystems : i < j /\ x = subsystems[i] => ~Plays(subsystems[j])
              /\ x \in ToSet(subsystems) => \A a \in ToSet(registered) : ~Plays(a)
        BY <3>3, <3>5, <4>1 DEF EndsInOrder
      <4>3. StopsInReverse(registered)
        BY <1>2, <3>4, <3>6, <4>2, Basics DEF StopsInReverse
      <4>4. StopsInReverse(subsystems)
        BY <1>2, <3>4, <3>6, <4>2, Basics DEF StopsInReverse
      <4> QED
        BY <3>4, <3>6, <4>2, <4>3, <4>4
    <3> QED
      BY <3>7, <3>8
  <2>3. UNCHANGED lifecycle => InOrder
    <3> SUFFICES ASSUME UNCHANGED lifecycle PROVE InOrder
      OBVIOUS
    <3>1. \A y : ~Started(y) /\ ~Stopped(y)
      BY DEF Started, Stopped
    <3> QED
      BY <3>1 DEF StopsInReverse
  <2> QED
    BY <1>2, <2>2, <2>3, MovesAlone
<1> QED
  BY <1>1, <1>2, PTL DEF Spec, StartAndStopInOrder
=============================================================================
