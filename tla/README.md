# MicroWorld in TLA+

A verification project for MicroWorld, a C++17 engine of fixed capacities for microcontrollers:
TLA+ models of its managed objects, its world and frame, its callbacks, its network sessions,
its messaging, its transports and its memory, TLC configurations that check them, and TLAPS
proofs about the objects, the frame, the world, the callbacks, the sessions, the messaging and the memory.
Paths are relative to `src/Modules/MicroWorld/` unless they start with `src/`.

1. [Inventory](#inventory)
2. [Modules and how they correspond to the code](#modules)
3. [Runs and bounds](#runs-and-bounds)
4. [What the runs found](#what-the-runs-found)
5. [Fairness](#fairness)
6. [Proofs](#proofs)
7. [Assumptions and abstractions](#assumptions-and-abstractions)
8. [What is not modelled](#what-is-not-modelled)
9. [Plan](#plan)

## Inventory

Everything runs on one thread: the engine has no lock and no atomic. What makes
it hard is of another kind. User code runs *inside* its operations (subscribers,
delegates, timers, `BeginPlay`, `BeginDestroy`, reference traversal) and may call
back into the tables being walked; work is cut by budgets and continued in a
later frame; capacities are fixed, so every table fills and every counter ends;
and several devices talk over radio and UDP, which lose, delay and repeat.

| Component | State it keeps | Operations | Talks to | What makes it correct |
| --- | --- | --- | --- | --- |
| Object store (`Engine/ObjectStore*`, `ObjectInitializer.h`) | slot table (state, generation, mark), root table, pending-destroy count and scan cursor, three locks | construction transaction (reserve, commit, roll back), mark pending, budgeted barrier, root and unroot, dispatch guard | user callbacks, collector, weak owners of Messaging | a handle never names a second object; roots die with their object; the pending count is exact; no mutation under a walk |
| Garbage collector (`Engine/GarbageCollector*`) | phase, root/sweep cursors, worklist, budget | request, budgeted advance (seed, mark, sweep), cancel, collect in full | store, traversal callbacks | nothing reachable is reclaimed, garbage at the request is, the worklist never overflows |
| Networking (`Networking/NetworkSystem*`) | client: state, attempt, peer, ages. server: peer slots with generation, route, attempt, ages | connect, disconnect, auto-connect, handshake, heartbeat, timeout, routed messages, admission limit | Messaging routes, peer-event listeners | client and server agree on a session; half-open sessions end; an old message is not taken for a new session's |
| Messaging: channels and dispatch (`Messaging/MessagingSystem.cpp`) | channel table, subscription slots with generation and sequence | create and destroy channel, subscribe, unsubscribe, send (local delivery), reclaim dead owners | subscribers, weak owners | a running callable is never overwritten; each delivery reaches whom it must; handles release their own registration |
| Messaging: reliable delivery (`MessagingSystem*.cpp`) | pending frames with age, sends and id; id counter | send, retry, acknowledge, cancel, abandon | transport devices, subscribers | acknowledged means delivered; every accepted frame has one fate, and gets it |
| Typed codec and names (`Messaging/*Codec*`, `NetworkSystem_Protocol.cpp`, `NameId.h`) | none | pack, unpack, hash | callers | what is decoded is what was packed; nothing else is half decoded |
| Timers (`Core/TimerManager.h`) | slots, insertion order, dispatch lock | schedule, cancel, advance | callbacks | each timer fires when due, once an instant, in order |
| Delegates (`Core/Delegates/*`) | binding slots, generations, order | add, remove, broadcast | callbacks | a broadcast calls all the bindings it began with, once, in order |
| Tick functions, lifecycle guard (`Core/TickFunction.cpp`, `LifecycleGuard.h`) | enabled, next due, last tick; phase | begin, end, enable, interval, advance | world | ticks when due, deltas add up |
| World lifecycle (`Engine/World_Lifecycle.cpp`, `World_Subsystems.cpp`) | actor list, subsystems, phase | initialise and begin with rollback, advance, end in reverse | actors, subsystems, store | who began ends, once, in reverse |
| World barrier (`Engine/World_SpawnDestroy.cpp`, `TDeferredActorSpawnStorage.h`) | pending spawns and destroys, typed requests, sealed batches | queue, apply, restore | actors, store, collector | every request applied once |
| Actors and components (`Engine/Actor.cpp`, `ActorComponent.cpp`) | components, phase | begin with rollback, tick, end cascade | world | no actor half in play |
| Engine frame (`Engine/EngineHost.h`) | systems, frame order, suspended collection | configure, begin, tick, end | everything above | budgets make progress in each frame; no callback sees a suspended cycle |
| Class registry (`Engine/ClassRegistry.h`, `ClassDescriptor.h`) | descriptors, automatic id cursor | register, resolve on first use, look up, ancestry | store | lookups never change their answer; ids are unique |
| Memory and smart pointers (`Core/Memory/*`) | range marks, counts | allocate, deallocate, retain, release | all | last release destroys, once; blocks are lost or shared by nobody |
| Containers (`Core/Containers/*`) | values | push, erase, index | all | sequential |
| Transport framing (`Transport/TFrameDecoder.h`, `FrameCodec.h`) | partial frame | feed, resynchronise | devices | a good frame after garbage is found |
| Loopbacks and transport manager (`Transport/*Loopback*`, `TransportManager.h`) | rings, open devices | send, receive, drop | Messaging | FIFO, bounded |
| LoRa and Wi-Fi (`Transport/Lora`, `Transport/Wifi`) | frame in transmission, decoder | frame at a time, address packing | hardware | framing |
| Application loop (`Application/`) | phase | run frames | engine | ticks until stopped, ends what it began |
| Platform bindings (`Platform/*`) | handles, rings, windows | I/O | OS, SDK | a held frame is never overwritten; a link that is up is served |
| Log (`Core/Log*`) | sink | print | all | output only |

How they interact: `TEngine::Tick` completes the collection cycle of the frame before, runs the
`PreAdvance` of Messaging, then that of Networking (which is itself a subscriber of Messaging),
advances timers and world, applies the world's barrier unless the world failed to advance, reclaims pending objects with one
budget and begins a collection with another, before the `PostAdvance` turns.
The hazards this gives rise to are listed, each at its line, in `PROJECT.json`.

## Modules

| Module | Models | Kind |
| --- | --- | --- |
| `ManagedHeap` | what store and collector promise together | abstract specification |
| `ObjectStore` | `FObjectStore`, its construction transaction and dispatch guard | component |
| `GarbageCollector` | `FGarbageCollector` composed with the store; refines `ManagedHeap` | composition |
| `MCGarbageCollector` | the bound on objects, and a memory of what was garbage | for TLC |
| `EngineFrame` | `TEngine` under `FApplication`, over store and collector | composition |
| `EngineFrame_proofs` | the store and the collector, that they implement `ManagedHeap`, and the frame over them | proofs |
| `ActorLifecycle` | `AActor`, `UActorComponent`, `UWorldSubsystem`, `FLifecycleGuard` | component |
| `DeferredSpawns` | `TDeferredActorSpawnStorage` | component |
| `World` | `UWorld` over both | composition |
| `World_proofs` | its requests and registry; its play: who is in it, and the order it begins and ends in | proofs |
| `CallbackList` | what a table of callbacks promises | abstract specification |
| `TimerManager`, `MulticastDelegate` | `TTimerManager`, `TMulticastDelegate` | components |
| `TickFunction` | `FTickFunction` | component |
| `Callbacks`, `Callbacks_proofs` | a timer manager and a delegate whose callbacks use both; both refine `CallbackList`; tick functions | composition, proofs |
| `SequenceFilter` | the compaction of an array in place, by position | operators |
| `NetworkWire` | peers, messages, the unreliable route | shared by client and server |
| `NetworkClient`, `NetworkServer` | the two roles of `FNetworkSystem` | components |
| `SessionRegistry` | what the peer table promises | abstract specification |
| `NetworkSession` | clients and a server on one route; refines `SessionRegistry` | composition |
| `MCNetworkSession`, `NetworkSession_proofs` | | for TLC, proofs |
| `MessageDispatch`, `MCMessageDispatch` | channels, subscriptions, nested deliveries | component, for TLC |
| `ReliableMessaging`, `MCReliableMessaging` | reliable channels on several devices | component, for TLC |
| `MessageDispatch_proofs`, `ReliableMessaging_proofs` | | proofs |
| `TableLemmas` | the first slot a search finds, how many entries tables can hold, what a compaction keeps, where the entries of a flattened sequence come from | lemmas for the proofs |
| `PacketRing` | the ring of every packet queue | operators |
| `FrameDecoder` | `EncodeFrame`, `TFrameDecoder` | operators |
| `LoopbackLink` | `THostLoopback`, `TLoopbackNetwork` | component |
| `SerialLink` | E32 radio, UART, both directions of I2C | component |
| `SpiLink` | the SPI master and slave | component |
| `UdpLink`, `WifiLink` | the UDP devices, the ESP32 Wi-Fi link and its event loop | components |
| `Transport` | `TTransportManager` and `FPacketDropDevice` over any of those devices | composition |
| `FixedArena`, `SmartPointers` | `TFixedArena`; `TSharedPtr`, `TWeakPtr`, `TUniquePtr` over it | components |
| `ClassRegistry` | `TClassRegistry`, `FClassDescriptor`, the resolver | component |
| `MessageCodec` | `FMessageWriter`, `FMessageReader`, the six protocol messages | component |
| `FixedStorage` | the four above side by side | composition |
| `CoreLibrary` | `Callbacks` and `FixedStorage` side by side, for one run | composition |
| `FixedStorage_proofs` | the pointers and their arena; the registry of classes | proofs |

### Store and collector

`state`, `generation`, `marked` are the slot metadata; `roots` the root table in
its order; `pendingDestroyCount`, `pendingDestroyScanCursor` and the locks
`mutationLocked`, `dispatchLocked`, `activeCollector` are the members of the same
names. `references` stands for the traced fields of the objects. `call` says
which operation of the store is on the C++ stack, `destroying` whose callbacks
run: `DestroySlot` is two actions, `BeginDestroySlot` up to the callbacks and
`EndDestroySlot` after them, because user code runs between them and looks at the
store. A construction is `BeginConstruction`, one `Reserve` for each object and
default subobject, then `Commit` or `RollbackConstruction`. The barrier visits one
slot a step. Handles are records of index and generation, and `Matches`,
`Resolves` and `NextPublishGeneration` are the functions of the code;
`HandleOf` is the handle a slot gives out.

The collector's `phase`, cursors and `worklist` are its members and `Advance` is
`BeginAdvance` and one action for each unit of budget (`SeedRoot`, `PopWorklist`,
`ReportReference`, `SweepSlot`), so that a budget ends at each of the places it can
end; `ReturnFromAdvance` leaves the call with work left. Between two calls the
mutator goes on: it roots nothing (the store is locked), but it can remove roots,
it can cancel the cycle, and it can assign traced fields (`MutatorStep`), of which no
write barrier tells the collector. `rewired` remembers that a field got a new target in the present
cycle: what depends on the references (`DiscoveryComplete`, `SurvivorsClosed`) is claimed of the other cycles only, and
the abstract collection may then take whatever is not rooted itself.

### Engine frame

`EngineFrame` extends the store and the collector with the engine. A call of the application
(`BeginPlay`, `Advance`, `EndPlay`, or the owner's collection calls) is a record `frame` of
a stage, a place in the frame order and whether a *turn* is being given. A turn is code of which
the engine knows nothing: a bound system, Messaging, Network, the timers, the world's hooks, the
application's overrides. During it, and between two calls, `UseStore` does whatever the
store's public operations allow, so the engine is checked against all users and not
against one. `ConfigureNetworking` binds the device and makes Messaging with its link and then Network; each step
but the first can fail, and `Unwound` is what is then left of the layers made: nothing
(`NetworkIsWhole` of `EngineSound`). A world is an object of the store, rooted by the engine.

### World

A call of the world (`BeginPlay`, `Advance`, `ApplyPending`, `EndPlay`) runs in stages, each an
action. Inside a stage `agenda` is the sequence of moves and hooks the stage performs: the store's
dispatch guard refuses whatever could change them meanwhile, so they are known when the stage begins
(`BeginSteps`, `EndSteps`, `AdvanceSteps`, `RollbackSteps` of `ActorLifecycle` compute them). Hooks are
where user code runs (`inHook`): it queues spawns and destroys, and calls `ApplyPending`, whose
guard refuses it after it has sealed the batch, over the seal of a barrier in progress (`RefusedBarrier`). The requests a
call had still to serve then are remembered in `overwritten`. `Register` asks only how many actors
are registered, as the code does; that an actor so took the room of a typed request is remembered in `overbooked`. Where the registry
overruns its storage (`Overrun`), the program is undefined and the model stops (`Undefined`).
The engine goes on from `Advance` to `ApplyPending` within a tick if the former succeeded (`ApplyBarrierAfterAdvance`); an owner who
drives the world himself may call each alone.
`DeferredSpawns` keeps the slots of typed requests with their generations, the two queues
and the sealed batches; a factory is a choice of its outcomes. When it constructs, the actor comes into being with
the components its constructor created (`Born`, `DefaultSubobjects`); when the world destroys an actor, the registered
components go with it (`WithComponents`). `Loseable` objects may be
destroyed behind the world's back, through the store, at most `MaxLost` of them in one behaviour.

### Callbacks

`TimerManager` and `MulticastDelegate` keep the members of the classes; their walks are one
action for each callback entered and returned from. `Callbacks` puts one of each on one thread: the
dispatches in progress are a stack (`dispatches`), the innermost runs, and whatever it calls is an action guarded by
the code's locks. Both are shown to implement `CallbackList`: a walk meets exactly the entries
it began with, in order. Schedules are numbered in history, so a stale handle can be told from a
good one. `TickFunction` has `pending` for the time nobody has been told of yet; time
ends at `EndOfTime`, where the code saturates.

### Transport

`Transport` is the manager's queue over a device, `medium`. A packet is its number, a frame on a
byte stream is a sequence of bytes with an ideal CRC, and the decoder takes them one
at a time: a payload, CRC or noise byte is read as any value, the magic too (`Readings`), with the states, the resynchronisation and the shared storage of `TFrameDecoder`. A call of
`TryReceive` may have room for the frame or not (`fits`). The media differ where the code does: the
E32 radio sends a byte at a time and gives up on failure, a UART writes whole frames or a part,
an I2C transaction of the master can fail after the slave has taken a part of the frame or all of it, and the manager
sends the frame again, the I2C slave's inbox drops bytes and its transmit ring is reset when it is full, an SPI exchange sends
and receives at once, a UDP socket is peeked before it is read. `WifiLink` runs the join against
the event loop's task, step by step. `sent`, `received`, `lost` and `watch` are history.

### Memory, classes, messages

`FixedArena` is the two bit sets of the code (first and last byte of a range) and the scans over
them; it does not know whom a range belongs to, the properties do. `SmartPointers` has control
blocks with both counts and a sequence `dying` of the destructors in progress: between the begin and the
end of a destructor the program uses any pointer, those inside the dying value too. `ClassRegistry` is
the descriptor array and the cursor of automatic ids, of which there are few here, so the
probes wrap and collide. `MessageCodec` packs each schema field by field into bytes, and the
receiver gets the bytes whole, cut, lengthened or from another program.

### Sessions

One module for each role of `FNetworkSystem`. Members of the client carry the
code's names; a slot of the server is the record `FPeerSlot`. A frame is one
action (`SessionFrame`, `ServerFrame`), as is each handler, with every message it
sends; the messages are sent only when the route has room. Times are ages, the
time since the stamp the code keeps, because the code compares nothing else. The
route is a set of messages, which may be lost, delivered in any order and (with
`Duplicates`) delivered again. `RestartClient` is a program that ends play and
starts over; messages of its former life stay on the route.

### Messaging

`MessageDispatch` keeps the C++ stack of `DeliverToMatchingSubscribers` as `stack`:
each entry has its cursor, and a *running* one is inside the subscriber of the slot
at the cursor. Every public operation is an action enabled wherever user code runs
(`InUserCode`), so a subscriber can unsubscribe itself, reuse its slot, destroy its
channel, or start a delivery inside the delivery. A slot's `sequence` stands for the
callable that lies in it: releasing a slot leaves it there, registering overwrites it. A slot's generation comes round, as in the code.

`ReliableMessaging` gives each device a channel table *in its order* (a destruction
compacts it, and the code keeps a reference into it across a delivery), the pending
table, and the turn `PreAdvance`, reception, `PostAdvance`. Reception is one action
for a frame with no subscriber to call and two for a message: `ProcessReliableMessage`
enters the subscribers, `SendAcknowledgement` follows their return. `sent`,
`outcome`, `attempts` and `delivered` are history that only the properties read.

## Runs and bounds

| Run | What it asks | Bounds |
| --- | --- | --- |
| `collector` | Does every way of cutting a cycle, cancelling it and dropping roots keep the tri-colour invariant, does a completed cycle reclaim what was garbage at its request, do store and collector implement `ManagedHeap`, do root tokens die with their objects? | three slots of two generations and three objects a behaviour (`MaxObjects`), with one reference each: chains, cycles and reuse; two roots |
| `frame` | Does the frame keep callbacks out of cycles, give every system its turns in turn, keep the world, and reclaim in the end? (safety and liveness) | two slots, one root, a budget of one unit a frame, so that a cycle takes several frames |
| `world` | Are actors and subsystems begun and ended in order, is every request accounted for and served? (safety and liveness) | two actors of the application and a typed one, which comes with one component (`DefaultCounts`) from its constructor, a component to register, two subsystems, room for two actors, one typed request; one of a component, an actor and a subsystem is lost (`Loseable`, `MaxLost`) |
| `nested_barrier`, `destroy_channel`, `pop_list` | violations, see below | as small as shows them |
| `core_library` | Do callbacks that use the tables they are called from meet the promises of `CallbackList`, do timers fire, are ticks told the right time? Do counts, blocks and bit sets agree whatever destructors do; do class lookups keep their answers; does decoding invert packing and refuse the rest? | two timers, two bindings, two lives of a timer slot, times 0 to 2; ticks to the end of time, 4; five bytes of arena, two owners of each kind, counts to two; three classes over six ids; bytes of three values, routed payloads of one byte |
| `session` | Do clients and server agree, does the peer of a routed message stand for its attempt, does the peer table implement `SessionRegistry`? | two clients and one of another version, one slot, two attempts and two generations each, two messages in flight, duplicates |
| `session_recovery` | Do half-open sessions end on both sides, is an attempt answered? (liveness) | one client that restarts, two attempts, two messages in flight |
| `dispatch` | Can subscribers that change the tables under a dispatch break it? | two slots of two generations, so that three registrations bring one round; two channels, two message names, an owner, two nested deliveries |
| `reliable` | Is what is acknowledged delivered, does every frame have one fate and meet it? (safety and liveness) | two ids, two names in a table of one entry, two attempts, two packets in flight, one retry interval a turn |
| `transport` | Is what each medium delivers what was sent, in order, is nothing overwritten, does a decoder recover? (safety and liveness) | four packets of one byte, eight media, one fault of the stream and two dropped bytes of the I2C ring, two network mishaps, every third send dropped, two starts of the radio |

Why they are enough to be of use: reuse needs a second generation and retirement a
last one, and two give both. A cycle of references takes two objects and a white
one hidden behind a grey one takes three. A stale attempt takes two attempts, a
stale peer two generations, a contest two clients. A slot reused inside a dispatch
needs two deliveries and three registrations. For the reliable table: two slots are
the fewest in which one frame can be mistaken for another, and one table entry with two
names is what makes a compaction move another name under a kept reference.
With two table entries the safety invariants of `reliable` were checked as well
(3.4 million states); the liveness run keeps to one to stay within minutes. A rollback
in the world needs something begun before what fails, on each of the two levels, and a barrier
something queued while it runs. With one typed request at a time the *order* in which `BarrierIsFrozen` keeps requests is empty; the theorem
`BarriersAreFrozen` has it for any number. A false frame that a decoder begins at the end of a fault takes at most a header, the longest payload and a CRC,
which `RecoveryFrames` computes in frames from `MaxPayloadBytes`; three in the run, so four packets are enough for a
fault and the frames after it. With the 58 or 120 bytes of the real media it is more frames, by the same sum. Of the
six ids a class may have, 0 is invalid, two belong to the engine, and programs may choose any, so the
automatic cursor wraps and has ids to step over.
The theorems below hold for every value of the constants.

Each bound has a name: `MaxGeneration`, `MaxAttempt`, `MaxSequence`, `MaxId`, `MaxTime`, `EndOfTime`,
`MaxReferenceCount`, `TypeIdCount` (code: integer limits, and the code's own checks at them are
modelled where it has any), `MaxDepth`, `WireCapacity`, `MaxFaults`, `MaxDrops`, `MaxMishaps`, `MaxLost`, `MaxStarts`, `MaxRequests`,
`MaxPackets`, `DefaultCounts`, `FrameLengths`, `TurnLengths`, `Senders`, `Numbers`, `Radix`.

`transport` is the one run that does not check for deadlock: when all packets are delivered
and no fault is left, a transport has nothing to do. `CoreLibrary`, `Callbacks` and `FixedStorage` choose in `Init` which
of the parts that share no state a behaviour steps (`part`, `about`, `subject`).

What the exceptions in the properties stand for: `RegistrySound` allows an overrun where the owner overbooked,
`RequestsAccounted` and `EveryRequestIsServed` except the requests a nested barrier overwrote, the latter also a world that can never
advance again, `HandlesNameTheirOwn` a slot registered `MaxGeneration` times since, `PayloadsIntactInOrder` a repetition for each failed
I2C transaction, `DecoderRecovers` bytes inside frames mistaken for starts, `CycleReclaimsGarbage` and `FramesReclaim` a cycle under which fields were
rewired. Each is a behaviour of the code that the model has and the run reaches; without its exception the property is violated.

The properties, by the question they answer:

- *Identity.* `HeapRefinement`, `RegistryRefinement`, `HandlesNameTheirOwn`,
  `SessionsAgree`, `TrafficMatchesAttempt`, `AcknowledgedWasDelivered`, `TablesSound`, `ClassesStayResolved`:
  a name kept from earlier never takes effect on something later.
- *Walks with callbacks in them.* `CallbacksFreezeStore`, `RunningSubscribersIntact`,
  `DeliveryComplete`, `TimersFireInTurn`, `BroadcastReachesAll`, `BarrierIsFrozen`, `CallbacksSeeNoCycle`.
- *Beginning and ending.* `StartAndStopInOrder`, `NoHalfPlay`, `TurnsAlternate`, `RequestsAccounted`.
- *Incremental work.* `CycleInvariant` (locks, marks, worklist and cursors fit the
  phase; nothing reachable is lost sight of), `CycleReclaimsGarbage`.
- *Accounts and capacities.* `RootsNameOccupants`, `FramesAccounted`, `SubscriptionsHaveChannels`,
  `PendingHaveChannels`, `RegistrySound`, `EngineSound`, `TransportSound`, `MemorySound`.
- *Data.* `PayloadsIntactInOrder`, `DecodesExactly`, `TicksOnTime`.
- *Ends.* `AbandonedSessionsEnd`, `DeadSessionsEnd`, `AttemptsEnd`, `PendingEnds`, `EveryTimerFires`,
  `EveryRequestIsServed`, `FramesReclaim`, `DecoderRecovers`.

## What the runs found

| Run | What the program does | What the repository says |
| --- | --- | --- |
| `destroy_channel` | a subscriber that unsubscribed itself can destroy the channel it runs for; the send it is called from dereferences a null pointer | "no live or dispatching subscriptions" (`Messaging/MessagingSystem.h:170`) |
| `nested_barrier` | a hook that runs inside a barrier calls `ApplyPending`, which seals anew before it is refused (`World_SpawnDestroy.cpp:188`): a typed request of the outer batch is reported as queued and is in no queue | "Apply every queued change and return the first end or begin failure while still applying the rest" (`Engine/World.h:276`) |
| `pop_list` | `Head = std::move(Head.Get()->Next)`: assignment releases the target first, and the destructor it runs takes the source with it, so the list is lost | "Release any current owner, then adopt the source handle and leave the source empty" (`Core/Memory/SharedPtr.h:77`) |

### Observed while modelling

These are not checked by a run of their own. The models do what the code does; a reader of the
code may want to know. Where two paths stand, the first is the code, the second what is written about it.

Objects and world
: `CancelCollection` from a callback of a sweep would leave the sweep on a heap without
  marks (`Engine/GarbageCollector.h:87`); no caller in the library does so. A
  construction that is rolled back frees the slot at the same generation, so a handle its constructor kept names the next
  object (ADR 0002:22). The last object of a slot dies without its generation changing: a weak owner takes it for alive
  (`Engine/ObjectStore.h:188`). An actor registered before play takes the room of a
  typed request that was accepted, for registration looks at the registered actors alone (`World_ActorRegistration.cpp:86`, against the
  comment at `World_SpawnDestroy.cpp:104`), and `BeginPlay` writes behind the registry (`EngineRegistryView.h:142`). An actor that fails to begin at a
  barrier, or that was destroyed through the store, stays registered, every later `Advance` fails, and the engine skips the
  barrier of such a tick (`EngineHost.h:577-592`), so requests wait for ever. A traced field assigned while a cycle is suspended can cost a reachable
  object its life (`EngineHost.h:618-631`): there is no write barrier, though mutations that change reachability are said to be
  refused (`src/Modules/tests/Engine/GarbageCollectorConcurrencySafetyTests.cpp:170`). A failed `CreateWorld` uses up the registry's one-shot references. Driving
  `TEngine` without `FApplication` gives up `TurnsAlternate` and `CallbacksSeeNoCycle`.

Messaging and sessions
: After a server restart a routed message of the old session can count for the new one, for it carries no attempt
  (ADR 0015:73). The 16-bit generation of a subscription slot wraps (`MessagingSystem.cpp:111-119`): after 65535 more registrations in its slot
  an old handle names a new one (`MessagingSystem.h:108`). The 32-bit sequence of subscriptions wraps without a check (`MessagingSystem.cpp:407`). Handlers
  stamp activity with the time of the frame before (`NetworkSystem.cpp:283`). A peer event inside a peer
  event is not broadcast (`:641`). A restarted sender numbers from zero again (`MessagingSystem.h:631`).

Ticks and delegates
: `SetInterval` called in every frame with the same interval makes the tick fire in every advance, with a
  zero delta.

Transport
: The SPI master drops a reply clocked in by a send while its decoder holds a frame (`Esp32SpiDevice.cpp:160`,
  `Esp32SpiMasterDevice.h:85`). The SPI slave drops its staged frame when the driver refuses the transaction
  (`Esp32SpiDevice.cpp:257`, `Esp32SpiSlaveDevice.h:81`). The I2C ring holds 251 bytes, one less than the two windows that
  are said to fit (`I2cReceiveInbox.h:36`). The I2C slave's reset of its transmit ring discards frames it had
  accepted (`I2cWriteOutcome.h:84`), and the master drops what follows the first frame of a window
  (`Esp32I2cDevice.cpp:201`). A short UART write leaves part of a frame on the line though a failed send is said to leave
  "UART state unchanged". The I2C master's write can
  fail after the slave took the frame, and the manager sends it again: it arrives twice (`I2cWriteOutcome.h:56-65`). A decoder that lost its place
  takes any magic byte inside a frame for a start, and frames that hold one can keep it lost for as long as they come
  (`TFrameDecoder.h:137`, against "Resync on the next well-formed frame after corruption", line 18). A packet addressed
  to no port stays at the head of the manager's queue, and the drop device counts refused calls. `HostLoopback.h:248`
  says of zero-length heads what the code does not do. A Wi-Fi join that times out leaves the radio started with
  `bIsUp` false, so that `Stop` does nothing (`Esp32WifiLink.cpp:138-163`, `Esp32WifiLink.h:32`), and a lease announced
  before line 131 is forgotten.

Memory and classes
: `TSharedPtr`'s assignment also leaks when the destructor run by its `Reset` fills the target. Explicit registration
  does not look for a second descriptor of the same type; lookups keep the first.

## Fairness

Safety runs assume none. The others use:

- *Devices are ticked for ever.* Weak fairness of `ServerTicks`, `ClientTicks(c)`, of
  each node's `TurnStep` and of the transport's `AdvanceSend`, writes and `SerialReceive(TRUE)`; strong fairness of
  `BeginTick` in `frame`, of the world's `Advance` and of `OwnerAdvances`: `FApplication` loops over `Tick` until it is
  stopped, every tick advances the timers and the world, and time advances between frames. Strong, because
  the program may do other things between two frames, and must not do them for ever.
- *The barrier follows an `Advance` that succeeds, and no other.* Strong fairness of `ApplyBarrierAfterAdvance`, which is enabled only
  behind a successful `Advance` (`EngineHost.h:577-592`). A call of `ApplyPending` on its own is not fair: the host makes none.
- *Calls go on and callbacks return.* Weak fairness of the code's own steps (`EngineStep`, `CallStep`,
  `TimerStep`, `BindingStep`), and fairness of the returns (`TurnReturns`, `HookReturns`,
  `TimerCallbackReturns`, ...): there is one thread, and user code that never returned would stop everything. Strong
  where a return is enabled only when what the user code called in turn has returned; in `world`, where a hook calls nothing that stays, weak.
- *Collections complete.* Weak fairness, in `world`, of the end of a collection (`collecting /\ ToggleCollection`), for the frame
  completes a cycle (`FramesReclaim` of `frame` checks that it does).
- *The route moves.* Weak fairness of `RouteMoves`: a message does not stay in the air
  for ever, it arrives or is lost.
- *What is sent for ever sometimes arrives.* Strong fairness of `RequestSent`,
  `RequestArrives` and `AnswerArrives`, for `AttemptsEnd` only: without it nothing a
  protocol does gets through. The code contributes its part, repeating the request in
  every interval, which the mutant of that property takes away.

`AbandonedSessionsEnd`, `DeadSessionsEnd` and `PendingEnds` hold though every message may be lost.
`FramesReclaim` holds though the world fails to advance; `EveryRequestIsServed` is about a world that plays
and does not stay unable to advance.

## Proofs

The proofs are about `Spec` of `GarbageCollector`, `NetworkSession`, `MessageDispatch`,
`ReliableMessaging`, `Callbacks`, `World` and `FixedStorage`, `FrameSpec` of `EngineFrame` and `CycleSpec`
of `MCGarbageCollector`, which is `Spec` with a memory, for all values of the
constants that meet the modules' assumptions, and use nothing else: the ranges of the constants, that
markers of absence (`NoSystem`, `NoActor`, two in `ReliableMessaging`) are not among what they are
absent from, that an object is an actor, a component or a subsystem and only one of them, that what a constructor
creates are components, that there are finitely many pointers, and that automatic ids are at least as many as classes. No theorem about a specification has a further hypothesis.

`EngineFrame_proofs`, store and collector
: `TypeCorrect`, one lemma for the store's steps and one for the collector's.
  `CycleCorrect`: `CycleInvariant` is inductive with `TypeOK`. It says that the locks
  agree with the call stack and the phase; that while seeding, each root entry before
  the cursor (or removed) is accounted for; that while marking, a marked object not on
  the worklist has all its references marked; and that while sweeping, the marked
  objects are closed under references and hold every root. Without the worklist part
  the marking steps do not preserve it, and without the locks a store step could
  publish under the cycle. `WorklistNeverOverflows`: an entry of the worklist is a
  marked live slot and none is there twice, so it is no longer than the slot
  table (by cardinality).
  `RootsSound`, `CallbacksSafe`, `CountExact`: the second rests on the lock part of
  `CycleInvariant`, which says that a construction or destruction in progress holds the mutation lock, and goes
  through every entry point to find it refused; the third counts the pending slots as a set, each step
  changing both by the same one.
  `StoreImplementsHeap` maps a published handle (index and generation) to an object; `used` are the
  handles at or below the slot's generation that were published, `doomed` the pending and destroying
  ones. `SlotsSound` is the strengthening: a slot's generation bounds what was issued for it. Every step
  maps to a step of the heap or a stutter; the heart is `SweepCollects`, that a slot the sweep
  takes is in no closed set of roots, by `CycleCorrect`, or not rooted if fields were rewired under the cycle.
  `CyclesReclaimGarbage` is the converse, that nothing floats to the next cycle. `GarbageSound` says of each object
  unreachable at the request that still resolves that it is `Undiscovered`: unmarked, not about to be reported, named by no
  root and referred to by garbage only, and not behind the sweep. An earlier cycle's mark would break it at the
  request, which is where `CycleInvariant` (no marks while idle) is needed.

`EngineFrame_proofs`, frame
: The engine uses the store through actions of `GarbageCollector`, so each of its steps is a step of
  `Spec` there or leaves the store alone, and the invariants above hold in it. `FrameInvariant` adds
  what a stage of the frame knows: in which stages a cycle may be suspended, which are given to turns and
  have none (`StagesSound`), and that the world, once created, is a published slot among the roots
  (`WorldRooted`): no cycle reclaims it, by `CycleInvariant`. From it: `TurnsSeeNoCycle`,
  `WorldOutlivesCycles`. `NetworkIsWhole`, that a bound device has its layers, needs of the composition only that
  what `Unwound` leaves holds no device. `TurnsSound` follows each system's last turn through the frame order, which only
  grows while the frame is configured: `SystemsTakeTurns`.

`World_proofs`, requests and registry
: `WorldInvariant` says what a call has *left* of the batches it sealed (`FactoriesLeft`, `PublishesLeft`,
  `SpawnsLeft`; the request in its hands is none of them): each waits in its slot's state and is there
  once. Slots have an actor from construction to release and share none; what is registered is assigned,
  and what is left to spawn is not, so nobody is registered twice; and `RoomKept` counts, besides the
  registered, all that may still join in this call or later, unless the owner overbooked. The capacity alone is not inductive: a typed
  request passes the check long before it takes its place. From it: `TypeCorrect`, `RegistryStaysSound`
  and `BarriersAreFrozen`. `NothingLost` says that each request that waits is in a queue, left to a
  call, in its hands, or was overwritten: `RequestsStayAccounted`. Neither has a hypothesis: both hold whatever the owner registers and
  whatever hooks call, and say themselves what overbooking and a nested barrier cost (see
  [What the runs found](#what-the-runs-found)).

`World_proofs`, play
: A call is judged by what its agenda will leave in play, not by what is in play now, for in the middle of a
  rollback almost anything is: `OutOf` is the last thing the agenda does to an object, or its present
  phase. `PlayInvariant` says of that future that each actor is whole (`WholeActors`); that a component has one
  owner, that one yet unborn has none and has not begun, and that the components of an actor the world
  destroyed are destroyed (`OwnershipSound`); and who can be in play in each stage of a call (`PlaySound`). A move
  leaves the future as it was, so only the stages need an argument, and for each of them it is about
  what `BeginSteps` and `EndSteps` leave: all of an actor in play or none of it. From it: `NoActorIsHalfInPlay`.
  `OrderInvariant` says of the present what the moves left to make will find (`AgendaInOrder`: before actor `i` begins, those
  before it play or are to begin earlier in the agenda, and in reverse for ends), that all subsystems play while
  actors begin, and that everything registered plays while typed actors are published. That needs
  `MadeReady`: an actor that was constructed and not yet published is fresh, as are its components, so it
  begins for certain; otherwise a failed begin would leave an actor registered that does not play, and a
  later one would begin after it. From it: `PlayStartsAndStopsInOrder`; only moves of the agenda change a phase (`MovesAlone`).

`Callbacks_proofs`
: Whatever a callback does, a step touches one of the two tables (`OneTableAtATime`), and each has an
  invariant of its own. In `TimerInvariant` a schedule that is not over has its slot and one that is over has lost
  it for good, to a later generation or to retirement, so no handle comes round; the insertion order holds
  each active slot once and, outside `Advance`, nothing else; what `Advance` has still to visit is live; and
  a deadline is a period after the last firing, or the end of time. `BindingInvariant` says the like of the delegate,
  and that its order does not move under a broadcast. With the stack of dispatches (`StackSound`): `HandlesStaySound`,
  and `TimersFireOnTime`, an action property that no run checks by itself. The
  walks are then mapped to `CallbackList`, and what compaction keeps in order (`SequenceFilter`) is what
  the abstract list keeps: `BroadcastsReachAll`, `TimersKeepTheirTurn`.
  `TicksTellTheTime` rests on `RunSound`: a run of ticks goes on exactly while the schedule need not be
  reset, and the schedule then keeps of it that it is enabled, has last ticked where the run did, and is due an
  interval later or at the end of time. Without it a tick could be passed over after a pause.

`NetworkSession_proofs`
: `SessionInvariant` strengthens `TypeOK` and `SessionsAgree` with `WireSound`: an
  acceptance in flight names a peer that is held for the client and attempt it answers
  or has ended, and a routed message carries the peer of a session of its attempt. Peers only move
  forward (`SlotsMove`), which is what keeps the messages in flight true. From it:
  `TypeCorrect`, `AgreementOnSessions`, `TrafficOfAttempt`.
  `PeersImplementRegistry`: a session of the registry is an admitted slot's peer with its route and attempt, and a
  peer is used once its generation has ended or occupies the slot. A step closes slots, which frees no peer, or
  admits one client, whose peer was never used.

`MessageDispatch_proofs`
: Almost everything a subscriber can do to the tables has one of two effects on a slot: it leaves
  the registration there, at most releasing it (`KeepsRegistration`), or it registers in a
  slot in which nothing runs (`Registers`); the proof of each operation ends there, and the
  deliveries are reasoned about in those terms. `DispatchInvariant` adds to the properties that
  an occupied slot has a number, that a running delivery is at a slot and has noted whom it
  called, and that no delivery began with registrations still to come (`StackSound`): this is what makes a
  registration inside a delivery invisible to it. From it: `TypeCorrect`, `SubscribersIntact`,
  `DeliveriesComplete`. `HandleInvariant` counts, for each handle, the registrations of its slot since: the slot's
  generation is the handle's moved on by that many, round the counter, so it can be the same again only after
  `MaxGeneration` of them: `HandlesAreExact`, with `ChannelsOutliveSubscriptions`.

`ReliableMessaging_proofs`
: The argument follows a frame through the history. An id names one sending for ever
  (`WasSent`), a delivery is never undone (`Arrived`), a message in flight is of the first
  kind and an acknowledgement in flight, *whatever channel it names*, of the second
  (`WireSound`), as is a frame whose subscribers run (`DeliverySound`). `LedgerSound` says that
  the pending table agrees with the history of ids; every step that shrinks it is an
  instance of one lemma, `LedgerReleases`, in which the slots released are counted through
  their ids. From `ReliableInvariant`: `TypeCorrect`, `AcknowledgedMeansDelivered`,
  `LedgerExact`, `ChannelsOutliveFrames` (a compaction keeps every other name),
  `AttemptsWithinPolicy`.

`FixedStorage_proofs`, memory
: `MemoryInvariant` has three parts. `PointersSound`: the counts of a block are the numbers of its holders, an
  assignment or a unique destructor in the middle included, and the frames of the stack fit the pointers (`FramesSound`: an
  assignment under way has emptied its target and shares no pointer with another; a destructor runs in a block that is there). `OwnersApart`: what
  will be given back has one owner, a control block, a unique pointer or a deleter on the stack, which is why nothing
  is freed twice. `ArenaHolds`: the marks are just the first and last bytes of what is owned, and no two overlap. Since destructors use the
  pointers again at any depth, the stack is part of the invariant and not only its top. The scan of the arena is
  proved to find the first free range whenever there is one (`ScanIsRight`), by what it knows after each
  byte (`ScanKnows`). From it: `MemoryStaysSound`.

`FixedStorage_proofs`, classes
: `RegistryInvariant`: ids are different, and each parent is before its child. An automatic id is found when there is room
  because the probes meet as many different ids as there may be classes, wrap included (`ProbeFindsRoom`). The chain above a class
  descends (`AboveDescends`), so the two probes of `HasAcyclicAncestry` never meet, the walk ends within the number of
  classes, and it meets just the classes of the hierarchy (`WalkMeetsAncestry`). From it: `ClassesAreFoundForEver`.

Induction over the length of a sequence or the argument of a recursive function is out of reach of the installed provers; where it was
needed (`FlattenSeq` in the agendas of the world, the least element of a set, the scan of the arena, the chain of parents) it is
replaced by a least counterexample: a finite set of naturals that is not empty has a least element (`MinIsLeast`).

Not every theorem is a property of a run: `WorklistNeverOverflows`, `CountExact`, `AttemptsWithinPolicy`, `TimersFireOnTime` and
the theorems `TypeCorrect` hold for every instance, so that TLC need not check them on one.

Checked by TLC only: the properties of `transport`, about which no proof has been written; `DecodesExactly`, which is about
what folds over digits compute; and liveness, which is out of the prover's reach along with `ENABLED`.

## Assumptions and abstractions

Store and collector. Callbacks do not cancel the cycle that runs them. Traced fields
change at any time; of a cycle under which a field got a new target, only what still holds is claimed (`rewired`). Roots removed by a visitor of a collection are modelled as
removed between its calls. `CollectFull` is modelled in `EngineFrame`, where it is called. There is one
collector to a store. Of the statistics only the pending-destroy count, which steers the
barrier, is kept. Teardown of a whole store is left out.

Sessions. One server. Messages the schema check drops are not sent. Ages of sessions that
ended are normalised to zero, and the age of the server is kept only while connected, since no guard
reads them then. The attempt of a routed message is not in the message: it is carried by the
model only for the property. Peer-event broadcasts, and the delivery of payloads to
the application, leave no state of the session. The server
program keeps running. The registry is checked with one peer slot; `SessionsAgree` and `TrafficMatchesAttempt` are proved for
any number.

Dispatch. Generations wrap, 16 bits in the code; the sequence does not, 32 bits in the code. The null dereference after `DestroyChannel` is
undefined: the model continues with a fresh program or with a return. Whether a slot
found dead is reclaimed is decided by the owner's death alone (`OwnerDies`), whatever the owner is.

Reliable delivery. Every modelled channel is reliable. A packet received may have a copy left on
the wire. `TrySend` may take or refuse any frame. Ids are never reused in one program's
lifetime, and a restart of the sender, which counts from zero again, is not modelled. A
channel reference past the end of the table reads the bytes of some channel that was
there. Whether a channel has subscriptions, which also stops `DestroyChannel`, is free.

Engine frame. The clock is left out: no step of the engine itself depends on it. The owner and the turns compose the network, not the
constructors or destructors of objects. The owner does not destroy the world
object directly. The device of the network and the
caller-bound system may be one object, as in the code.

World. The two ways to construct an actor are `ManualActors` (the application's own) and `TypedActors`. Only the constructors
of typed actors create default components; one that cannot be created aborts the construction, which is then a failed one. A tick
that is not due runs no hook. After an overrun of the registry nothing is said of the program.

Callbacks. An advance to a time before the last accepted one is refused and is no step. `Delays` are
0 and 1: due at once, due later.

Transport. One direction at a time has a sender, except over SPI. The CRC is ideal: a frame that matches it is one that was
sent, and the decoder is otherwise free in what it reads a payload or CRC byte as. A program calls a Wi-Fi
link that is down and uses UDP while it is up. Validation of arguments is left out. Several senders to one
mailbox only interleave.

Memory. Values have one type of two bytes for shared and one of one byte for unique pointers, so alignment leaves
holes. While an assignment has emptied its target, destructors do not fill that target (`UsableStrong`; what they would leak is
noted above), so `MemorySound` and its theorem are about programs that leave it alone. A type id has six values, of which automatic ones start at three. Names of messages are distinct (their
hash is taken as injective).

## What is not modelled

Listed with its reason in `PROJECT.json`. In short:

- sequential value code that unit tests cover: containers, `TDelegate`, result records, `FByteReader`
  and `FByteWriter` (not used inside the library), `MakeNameId`, the packing of UDP and E32 addresses;
- opening and closing of peripherals, the FreeRTOS glue, the log;
- teardown of a whole store or arena with live contents, memory placement, statistics;
- peer-event broadcasts, `FNetworkSystem::EndPlay`, malformed messages (dropped by the decoding that
  `MessageCodec` models), best-effort frames and the choice among several links in Messaging;
- the wrap of 32-bit counters in Messaging.

The examples under `src/examples` and the tests are programs that use the library, and are not modelled.

## Plan

1. Store and collector under `ManagedHeap`, with proofs. *Done.*
2. Sessions under `SessionRegistry`, with proofs. *Done.*
3. `MessageDispatch` and `ReliableMessaging`, with proofs. *Done.*
4. `TimerManager`, `MulticastDelegate` and `TickFunction` under `CallbackList`. *Done, with proofs.*
5. `World` with `ActorLifecycle` and `DeferredSpawns`. *Done, with proofs.*
6. `EngineFrame` over store and collector. *Done, with proofs.*
7. `SmartPointers` over `FixedArena`, `ClassRegistry`. *Done, with proofs.*
8. `Transport` over its media, `MessageCodec`. *Done; no proofs yet.*
9. Left to model: `FNetworkSystem::EndPlay` and the peer events, best-effort frames and route tables of Messaging.

Each module follows the layout above: one action for each operation,
a type invariant, the hazards of `PROJECT.json` as properties, and a module of proofs where there are theorems.
