---------------------------- MODULE EngineFrame ----------------------------
(***************************************************************************)
(* TEngine driven by FApplication: composition, the beginning and end of   *)
(* play and the canonical frame, over the real object store and collector. *)
(*                                                                         *)
(* A call of the application runs in stages.  In a stage the engine either *)
(* does its own work or gives a turn to code it does not know: a device,   *)
(* the caller-bound system, Messaging, Network, the timers, the world's    *)
(* hooks, the application's own overrides.  During a turn, and between two *)
(* calls, that code uses the store as far as the store lets it.            *)
(***************************************************************************)
EXTENDS GarbageCollector

CONSTANTS
    FrameReclamationBudget,  \* slots one frame's barrier inspects
    NoSystem

ASSUME FrameAssumption == FrameReclamationBudget \in 1..SlotCount

VARIABLES
    application,      \* FApplication::Lifecycle
    frame,            \* the call in progress
    bound,            \* System: the system the caller bound at construction
    composed,         \* NetworkDevice, MessagingSystems and NetworkSystems
    lastTurn,         \* the last turn each system was given
    world,            \* WorldRoot
    worldState,       \* the world's Lifecycle
    referencesMade,   \* the one-shot registry references are given away
    worldUsable       \* the world holds those references

engineVars == <<application, frame, bound, composed, lastTurn, world, worldState,
                referencesMade, worldUsable>>
allVars == <<vars, engineVars>>

Systems == {"Device", "System", "Messaging", "Network"}
Turns == {"BeginPlay", "PreAdvance", "PostAdvance", "EndPlay"}

ASSUME SystemAssumption == NoSystem \notin Systems

Frames ==
    [call: {"None", "BeginPlay", "Tick", "EndPlay"},
     stage: Turns \cup {"Return", "Configure", "BeginWorld", "Failed", "CatchUp", "Timers",
                        "AdvanceWorld", "Barrier", "Reclaim", "Reclaiming", "Collect",
                        "Collecting", "Cancel", "EndWorld"},
     at: 1..5,          \* the position a stage of system turns has reached
     turn: BOOLEAN]     \* code that the engine does not know runs

NoFrame == [call |-> "None", stage |-> "Return", at |-> 1, turn |-> FALSE]

Between == frame = NoFrame /\ call = "None"
UserCode == frame.turn \/ frame = NoFrame
At(stage) == frame.stage = stage /\ frame.call # "None" /\ ~frame.turn
InTurn(stage) == frame.stage = stage /\ frame.turn /\ call = "None" /\ ~dispatchLocked

Stage(stage) == frame' = [frame EXCEPT !.stage = stage, !.at = 1, !.turn = FALSE]
Turn(stage) == frame' = [frame EXCEPT !.stage = stage, !.turn = TRUE]
Return == frame' = NoFrame

FrameInit ==
    /\ Init
    /\ application = "Constructed"
    /\ frame = NoFrame
    /\ bound \in {NoSystem, "System", "Device"}
    /\ composed = {}
    /\ lastTurn = [x \in Systems |-> "None"]
    /\ world = NoHandle
    /\ worldState = "None"
    /\ referencesMade = FALSE
    /\ worldUsable = FALSE

---------------------------------------------------------------------------
(* Composition, from the owner's code or a turn.                           *)

compositionVars == <<application, frame, bound, lastTurn>>

NetworkLayers == {"Device", "Messaging", "Network"}

\* Mutant of Unwound: the device stays bound.
UnwoundToDevice(made) == made \ {"Messaging", "Network"}

\* What is left of the layers made when a later one cannot be.
Unwound(made) == made \ {"Network", "Messaging", "Device"}

\* ConfigureNetworking binds the device and makes Messaging with its one link
\* and then Network, which there is no making once there is a world; each step
\* but the first can fail, and the layers made before it are taken down.
ConfigureNetworking ==
    /\ UserCode /\ call = "None"
    /\ composed = {}
    /\ \E made \in {{"Device"}, {"Device", "Messaging"}, NetworkLayers} :
        \/ /\ made = NetworkLayers /\ world = NoHandle
           /\ composed' = made
        \/ /\ made # NetworkLayers
           /\ composed' = Unwound(made)
    /\ UNCHANGED <<vars, compositionVars, world, worldState, referencesMade, worldUsable>>

CreateMessagingSystem ==
    /\ UserCode /\ call = "None"
    /\ "Messaging" \notin composed
    /\ composed' = composed \cup {"Messaging"}
    /\ UNCHANGED <<vars, compositionVars, world, worldState, referencesMade, worldUsable>>

CreateNetworkSystem ==
    /\ UserCode /\ call = "None"
    /\ "Messaging" \in composed /\ "Network" \notin composed /\ world = NoHandle
    /\ composed' = composed \cup {"Network"}
    /\ UNCHANGED <<vars, compositionVars, world, worldState, referencesMade, worldUsable>>

FirstVacant(s) == state[s] = "Vacant" /\ \A v \in Slots : v < s => state[v] # "Vacant"
FirstFree(r) == roots[r] = NoHandle /\ \A q \in RootEntries : q < r => roots[q] # NoHandle

\* NewObject<UWorld> and MakeStrongObjectPtr.  The registry references are made
\* before the store is asked, so a failed call has used them up; a world that
\* cannot be rooted is left to the collector.
CreateWorld ==
    /\ UserCode /\ call = "None"
    /\ world = NoHandle
    /\ referencesMade' = TRUE
    /\ \/ /\ IsMutationLocked \/ \A s \in Slots : state[s] # "Vacant"
          /\ UNCHANGED <<vars, world, worldState, worldUsable>>
       \/ /\ ~IsMutationLocked
          /\ \E s \in Slots :
                LET h == [index |-> s, generation |-> NextPublishGeneration(generation[s])] IN
                /\ FirstVacant(s)
                /\ state' = [state EXCEPT ![s] = "Live"]
                /\ generation' = [generation EXCEPT ![s] = h.generation]
                /\ \/ /\ \A r \in RootEntries : roots[r] # NoHandle
                      /\ UNCHANGED <<roots, world, worldState, worldUsable>>
                   \/ \E r \in RootEntries :
                        /\ FirstFree(r)
                        /\ roots' = [roots EXCEPT ![r] = h]
                        /\ world' = h
                        /\ worldState' = "Constructed"
                        /\ worldUsable' = ~referencesMade
          /\ UNCHANGED <<marked, references, pendingDestroyCount, pendingDestroyScanCursor,
                         mutationLocked, dispatchLocked, activeCollector, call, destroying,
                         visitsLeft, collectorVars>>
    /\ UNCHANGED <<compositionVars, composed>>

\* What the owner, a system or a hook does with the store.  Nobody but the
\* engine's own root token releases the world, and nobody destroys it.
UseStore ==
    /\ UserCode \/ destroying # InvalidIndex
    /\ StoreStep \/ MutatorStep
    /\ dispatchLocked' = dispatchLocked
    /\ world # NoHandle =>
        state'[world.index] = "Live" /\ \E r \in RootEntries : roots'[r] = world
    /\ UNCHANGED engineVars

---------------------------------------------------------------------------
(* The turns of the systems.                                               *)

\* Mutant: a device that is also the bound system is not recognised.
NeverTheDevice == FALSE

IsConfiguredDeviceBoundAsSystem == "Device" \in composed /\ bound = "Device"

\* Who has the i-th turn of a beginning or a pre-advance.
Occupant(i) ==
    LET Composed(x) == IF x \in composed THEN x ELSE NoSystem IN
    CASE i = 1 -> Composed("Device")
      [] i = 2 -> IF IsConfiguredDeviceBoundAsSystem THEN NoSystem ELSE bound
      [] i = 3 -> Composed("Messaging")
      [] i = 4 -> Composed("Network")

\* A post-advance and an ending go the other way.
Occupying(i) == IF frame.stage \in {"BeginPlay", "PreAdvance"} THEN Occupant(i) ELSE Occupant(5 - i)

\* Whether there is a system to turn to is asked when its turn comes, so one
\* that an earlier turn has composed is included.
GiveTurn ==
    /\ frame.stage \in Turns /\ At(frame.stage)
    /\ \E i \in frame.at..4 :
        /\ Occupying(i) # NoSystem
        /\ \A j \in frame.at..(i - 1) : Occupying(j) = NoSystem
        /\ lastTurn' = [lastTurn EXCEPT ![Occupying(i)] = frame.stage]
        /\ frame' = [frame EXCEPT !.at = i + 1, !.turn = TRUE]
    /\ UNCHANGED <<vars, application, bound, composed, world, worldState, referencesMade,
                   worldUsable>>

StageAfter(turns) ==
    CASE turns = "BeginPlay" -> "BeginWorld"
      [] turns = "PreAdvance" -> "Timers"
      [] turns = "PostAdvance" -> "Collect"
      [] turns = "EndPlay" -> IF frame.call = "BeginPlay" THEN "Failed" ELSE "Return"

EndTurns ==
    /\ frame.stage \in Turns /\ At(frame.stage)
    /\ \A j \in frame.at..4 : Occupying(j) = NoSystem
    /\ Stage(StageAfter(frame.stage))
    /\ UNCHANGED <<vars, application, bound, composed, lastTurn, world, worldState,
                   referencesMade, worldUsable>>

SystemReturns ==
    /\ frame.stage \in Turns /\ InTurn(frame.stage)
    /\ frame' = [frame EXCEPT !.turn = FALSE]
    /\ UNCHANGED <<vars, application, bound, composed, lastTurn, world, worldState,
                   referencesMade, worldUsable>>

---------------------------------------------------------------------------
(* The beginning of play.                                                  *)

frameOnly == <<vars, bound, composed, lastTurn, world, referencesMade, worldUsable>>

BeginApplication ==
    /\ Between /\ application = "Constructed"
    /\ application' = "Playing"
    /\ frame' = [NoFrame EXCEPT !.call = "BeginPlay", !.stage = "Configure", !.turn = TRUE]
    /\ UNCHANGED <<frameOnly, worldState>>

\* OnConfigure fails, or TEngine::BeginPlay finds no world, or it begins.
ConfigureReturns ==
    /\ InTurn("Configure")
    /\ Stage("Failed") \/ (world # NoHandle /\ Stage("BeginPlay"))
    /\ UNCHANGED <<frameOnly, application, worldState>>

\* UWorld::BeginPlay of a world that has begun, or has no registries, or meets
\* a collection, is refused; the systems that have begun end.
BeginWorld ==
    /\ At("BeginWorld")
    /\ IF worldState = "Constructed" /\ worldUsable /\ ~IsMutationLocked
       THEN worldState' = "Playing" /\ Turn("BeginWorld")
       ELSE Stage("EndPlay") /\ UNCHANGED worldState
    /\ UNCHANGED <<frameOnly, application>>

BeginWorldReturns ==
    /\ InTurn("BeginWorld")
    /\ \/ Return /\ UNCHANGED worldState
       \/ Stage("EndPlay") /\ worldState' = "Failed"
    /\ UNCHANGED <<frameOnly, application>>

\* OnBeginPlayFailed, and the application stays failed.
FailApplication ==
    /\ At("Failed")
    /\ Turn("Failed")
    /\ UNCHANGED <<frameOnly, application, worldState>>

FailedReturns ==
    /\ InTurn("Failed")
    /\ application' = "Failed"
    /\ Return
    /\ UNCHANGED <<frameOnly, worldState>>

---------------------------------------------------------------------------
(* The frame.                                                              *)

\* FApplication::Advance and the head of Tick.
BeginTick ==
    /\ Between /\ application = "Playing"
    /\ world # NoHandle
    /\ frame' = [NoFrame EXCEPT !.call = "Tick", !.stage = "CatchUp"]
    /\ UNCHANGED <<frameOnly, application, worldState>>

\* Mutant: the cycle the last frame left suspended waits for this one's end.
DispatchInCycle ==
    /\ At("CatchUp") /\ call = "None"
    /\ Stage("PreAdvance")
    /\ UNCHANGED <<frameOnly, application, worldState>>

\* CompletePriorCollectionBeforeCallbacks: CollectFull runs until it is idle.
CompletePriorCollection ==
    /\ At("CatchUp") /\ call = "None"
    /\ IF phase = "Idle" THEN Stage("PreAdvance") /\ UNCHANGED vars
       ELSE BeginAdvance /\ UNCHANGED frame
    /\ UNCHANGED <<application, bound, composed, lastTurn, world, worldState, referencesMade,
                   worldUsable>>

AdvanceTimers ==
    /\ At("Timers")
    /\ Turn("Timers")
    /\ UNCHANGED <<frameOnly, application, worldState>>

TimersReturn ==
    /\ InTurn("Timers")
    /\ Stage("AdvanceWorld")
    /\ UNCHANGED <<frameOnly, application, worldState>>

\* UWorld::Advance holds the dispatch lock around every hook.
AdvanceWorld ==
    /\ At("AdvanceWorld")
    /\ IF worldState = "Playing" /\ ~IsMutationLocked
       THEN BeginDispatch /\ Turn("AdvanceWorld") /\ UNCHANGED collectorVars
       ELSE Stage("Reclaim") /\ UNCHANGED vars
    /\ UNCHANGED <<application, bound, composed, lastTurn, world, worldState, referencesMade,
                   worldUsable>>

\* Mutant: a world that failed to advance ends the frame's own work.
FailedWorldEndsFrame ==
    /\ frame.stage = "AdvanceWorld" /\ frame.turn
    /\ EndDispatch
    /\ Stage("Barrier") \/ Stage("PostAdvance")
    /\ UNCHANGED <<collectorVars, application, bound, composed, lastTurn, world, worldState,
                   referencesMade, worldUsable>>

\* A world that failed to advance does not reach its barrier.
AdvanceWorldReturns ==
    /\ frame.stage = "AdvanceWorld" /\ frame.turn
    /\ EndDispatch
    /\ Stage("Barrier") \/ Stage("Reclaim")
    /\ UNCHANGED <<collectorVars, application, bound, composed, lastTurn, world, worldState,
                   referencesMade, worldUsable>>

\* UWorld::ApplyPending: hooks under the dispatch lock, factories and marks not.
Barrier ==
    /\ At("Barrier")
    /\ Turn("Barrier")
    /\ UNCHANGED <<frameOnly, application, worldState>>

ToggleWorldDispatch ==
    /\ frame.stage \in {"BeginWorld", "Barrier"} /\ frame.turn
    /\ BeginDispatch \/ EndDispatch
    /\ UNCHANGED <<collectorVars, engineVars>>

BarrierReturns ==
    /\ InTurn("Barrier")
    /\ Stage("Reclaim")
    /\ UNCHANGED <<frameOnly, application, worldState>>

ReclaimPendingDestroy ==
    /\ At("Reclaim")
    /\ IF pendingDestroyCount > 0 /\ ~IsMutationLocked
       THEN BeginApplyPendingDestroy(FrameReclamationBudget) /\ UNCHANGED collectorVars
       ELSE UNCHANGED vars
    /\ Stage("Reclaiming")
    /\ UNCHANGED <<application, bound, composed, lastTurn, world, worldState, referencesMade,
                   worldUsable>>

EndReclaim ==
    /\ At("Reclaiming") /\ call = "None"
    /\ Stage("PostAdvance")
    /\ UNCHANGED <<frameOnly, application, worldState>>

\* StartBudgetedCollectionAfterCallbacks, the request and then the slice.
RequestFrameCollection ==
    /\ At("Collect") /\ phase = "Idle"
    /\ RequestCollection
    /\ UNCHANGED engineVars

AdvanceFrameCollection ==
    /\ At("Collect") /\ phase # "Idle"
    /\ BeginAdvance
    /\ Stage("Collecting")
    /\ UNCHANGED <<application, bound, composed, lastTurn, world, worldState, referencesMade,
                   worldUsable>>

EndTick ==
    /\ At("Collecting") /\ call = "None"
    /\ Return
    /\ UNCHANGED <<frameOnly, application, worldState>>

\* What a store or collector function on the engine's stack does next; a full
\* collection does not stop before its end.
Collect ==
    /\ ~UserCode
    /\ CollectorStep \/ (ReturnFromAdvance /\ frame.stage = "Collecting")
    /\ UNCHANGED engineVars

Reclaim ==
    /\ ~UserCode
    /\ VisitPendingSlot \/ EndApplyPendingDestroy \/ EndDestroySlot
    /\ UNCHANGED <<collectorVars, engineVars>>

---------------------------------------------------------------------------
(* The end of play.                                                        *)

EndApplication ==
    /\ Between /\ application = "Playing"
    /\ application' = "Ended"
    /\ frame' = [NoFrame EXCEPT !.call = "EndPlay", !.stage = "Cancel"]
    /\ UNCHANGED <<frameOnly, worldState>>

\* CancelActiveCollectionBeforeTeardown.
CancelActiveCollection ==
    /\ At("Cancel")
    /\ IF phase # "Idle" THEN CancelCollection ELSE UNCHANGED vars
    /\ Stage("EndWorld")
    /\ UNCHANGED <<application, bound, composed, lastTurn, world, worldState, referencesMade,
                   worldUsable>>

EndWorld ==
    /\ At("EndWorld")
    /\ IF worldState = "Playing" /\ ~IsMutationLocked
       THEN /\ BeginDispatch /\ UNCHANGED collectorVars
            /\ worldState' = "Ended"
            /\ Turn("EndWorld")
       ELSE Stage("EndPlay") /\ UNCHANGED <<vars, worldState>>
    /\ UNCHANGED <<application, bound, composed, lastTurn, world, referencesMade, worldUsable>>

EndWorldReturns ==
    /\ frame.stage = "EndWorld" /\ frame.turn
    /\ EndDispatch
    /\ Stage("EndPlay")
    /\ UNCHANGED <<collectorVars, application, bound, composed, lastTurn, world, worldState,
                   referencesMade, worldUsable>>

EndCall ==
    /\ At("Return")
    /\ Return
    /\ UNCHANGED <<frameOnly, application, worldState>>

---------------------------------------------------------------------------
Compose ==
    \/ ConfigureNetworking \/ CreateMessagingSystem \/ CreateNetworkSystem \/ CreateWorld

EngineStep ==
    \/ GiveTurn \/ EndTurns
    \/ BeginWorld \/ FailApplication
    \/ CompletePriorCollection \/ AdvanceTimers \/ AdvanceWorld \/ Barrier
    \/ ReclaimPendingDestroy \/ EndReclaim
    \/ RequestFrameCollection \/ AdvanceFrameCollection \/ EndTick
    \/ Collect \/ Reclaim
    \/ CancelActiveCollection \/ EndWorld \/ EndCall

TurnReturns ==
    \/ SystemReturns
    \/ ConfigureReturns \/ BeginWorldReturns \/ FailedReturns
    \/ TimersReturn \/ AdvanceWorldReturns \/ BarrierReturns \/ EndWorldReturns

FrameNext ==
    \/ BeginApplication \/ BeginTick \/ EndApplication
    \/ Compose \/ UseStore \/ ToggleWorldDispatch
    \/ EngineStep \/ TurnReturns

FrameSpec == FrameInit /\ [][FrameNext]_allVars

(***************************************************************************)
(* Fairness: the engine goes on, a turn comes to an end whatever it does   *)
(* on the way, a store call that user code made returns, and the run loop  *)
(* asks for the next frame.                                                *)
(***************************************************************************)
StoreReturns ==
    /\ UseStore
    /\ call \in {"Construct", "Barrier"}
    /\ call' = "None" \/ destroying' # destroying \/ visitsLeft' # visitsLeft

FairFrames ==
    /\ FrameSpec
    /\ WF_allVars(EngineStep)
    /\ WF_allVars(StoreReturns)
    /\ SF_allVars(TurnReturns)
    /\ SF_allVars(ToggleWorldDispatch /\ dispatchLocked)
    /\ SF_allVars(BeginTick)

---------------------------------------------------------------------------
(* Properties.                                                             *)

\* "A callback must never run while an incremental collector owns the store"
\* (EngineHost.h:595): under FApplication no turn of a system, of the timers or
\* of the world is ever given in the middle of a cycle.
CallbacksSeeNoCycle == frame.turn => phase = "Idle" /\ ~activeCollector

\* A system that begins play gets its turns in turn: pre-advance and post-
\* advance alternate, the ending comes once and after a whole frame, and it does
\* come, whether the system is bound, configured as the device or both, and
\* whatever is composed meanwhile (EngineHost.h:522-571, 650-698).
Given(x) ==
    /\ frame.stage \in Turns /\ At(frame.stage)
    /\ frame'.turn
    /\ Occupying(frame'.at - 1) = x

MayFollow(turn) ==
    CASE turn = "None" -> Turns
      [] turn = "BeginPlay" -> {"PreAdvance", "EndPlay"}
      [] turn = "PreAdvance" -> {"PostAdvance"}
      [] turn = "PostAdvance" -> {"PreAdvance", "EndPlay"}
      [] turn = "EndPlay" -> {}

TurnsAlternate ==
    [][\A x \in Systems :
        /\ Given(x) => frame.stage \in MayFollow(lastTurn[x])
        /\ application' \in {"Ended", "Failed"} /\ frame' = NoFrame =>
            lastTurn[x] \in {"None", "EndPlay"}]_allVars

\* The rooted world outlives every cycle, however it is cut into frames and
\* whatever else is rooted, destroyed and built (EngineHost.h:763).
WorldIsKept == world # NoHandle => Resolves(world)

\* Types of the engine, on top of the store's and the collector's.
FrameTypeOK ==
    /\ TypeOK
    /\ application \in {"Constructed", "Playing", "Ended", "Failed"}
    /\ frame \in Frames
    /\ bound \in Systems \cup {NoSystem}
    /\ composed \subseteq Systems \ {"System"}
    /\ lastTurn \in [Systems -> Turns \cup {"None"}]
    /\ world \in Handles \cup {NoHandle}
    /\ worldState \in {"None", "Constructed", "Playing", "Ended", "Failed"}
    /\ referencesMade \in BOOLEAN /\ worldUsable \in BOOLEAN

\* A device that takes turns has the messaging and the network over it: a setup
\* that fails at any step leaves no layer behind (EngineHost.h:281-329).
NetworkIsWhole == "Device" \in composed => composed = NetworkLayers

\* The engine keeps its types, its world and its network whole.
EngineSound == FrameTypeOK /\ WorldIsKept /\ NetworkIsWhole

\* While frames keep coming, every object marked for destruction is reclaimed
\* and garbage does not stay, even if each frame collects next to nothing and
\* the world fails to advance (EngineHost.h:599-631).
Garbage(h) == h \in LiveHandles /\ h \notin Heap!Reachable

FramesReclaim ==
    /\ \A s \in Slots :
        state[s] = "PendingDestroy" ~> (state[s] # "PendingDestroy" \/ application # "Playing")
    /\ \A h \in Handles : Garbage(h) ~> (~Garbage(h) \/ rewired \/ application # "Playing")
=============================================================================
