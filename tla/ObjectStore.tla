---------------------------- MODULE ObjectStore ----------------------------
(***************************************************************************)
(* FObjectStore: object lifetimes over a fixed table of equal slots, with  *)
(* generation-checked handles, a bounded root table and an explicit,       *)
(* budgeted destruction barrier.                                           *)
(*                                                                         *)
(* The program is single-threaded.  What interleaves is user code with the *)
(* store: constructors, BeginDestroy callbacks and destructors run while a *)
(* store call is on the stack and may call the store again.  `call` names  *)
(* the store or collector function on the stack, and every operation that  *)
(* runs user code is split where that code runs.  A rejected call changes  *)
(* nothing and is the guard of its action.                                 *)
(***************************************************************************)
EXTENDS Naturals, FiniteSets

CONSTANTS
    SlotCount,              \* slots in the caller-owned table
    RootCapacity,           \* entries of the root table
    MaxGeneration,          \* largest ObjectGeneration (2^32 - 1 in the code)
    MaxComponentsPerActor,  \* default components of one construction
    MaxReferences           \* bound: traced references one object reports

ASSUME StoreAssumption ==
    /\ SlotCount \in Nat \ {0}
    /\ RootCapacity \in Nat
    /\ MaxGeneration \in Nat \ {0}
    /\ MaxComponentsPerActor \in Nat
    /\ MaxReferences \in Nat

VARIABLES
    state,          \* EObjectSlotState of each slot
    generation,     \* generation of each slot, 0 until its first publish
    marked,         \* collector mark of each slot
    references,     \* handles the object in the slot reports when visited
    roots,          \* the root table
    pendingDestroyCount,
    pendingDestroyScanCursor,
    mutationLocked,
    dispatchLocked,
    activeCollector,  \* TRUE while a collector owns the store
    call,           \* the store or collector function on the stack
    destroying,     \* slot whose destruction callbacks run, or InvalidIndex
    visitsLeft      \* slots the running ApplyPendingDestroy may still inspect

storeVars == <<state, generation, marked, references, roots,
               pendingDestroyCount, pendingDestroyScanCursor, mutationLocked,
               dispatchLocked, activeCollector, call, destroying, visitsLeft>>

----------------------------------------------------------------------------
(* Slots, roots and handles.                                               *)

Slots == 0..(SlotCount - 1)
RootEntries == 0..(RootCapacity - 1)
InvalidIndex == SlotCount

SlotStates == {"Vacant", "Constructing", "Live", "PendingDestroy",
               "Destroying", "Retired"}

Handles == [index : Slots, generation : 1..MaxGeneration]
NoHandle == [index |-> InvalidIndex, generation |-> 0]

\* The handle under which a slot's present occupant is known.
HandleOf(s) == [index |-> s, generation |-> generation[s]]

\* FindMatchingSlot, with and without pending objects allowed.
Resolves(h) ==
    h \in Handles /\ state[h.index] = "Live" /\ generation[h.index] = h.generation
Matches(h) ==
    \/ Resolves(h)
    \/ /\ h \in Handles
       /\ state[h.index] = "PendingDestroy"
       /\ generation[h.index] = h.generation

\* A handle the store has published an object under, now or in the past.
Issued(h) ==
    \/ generation[h.index] > h.generation
    \/ /\ generation[h.index] = h.generation
       /\ state[h.index] \notin {"Vacant", "Constructing"}

NextPublishGeneration(g) == IF g = 0 THEN 1 ELSE g

\* Mutants of IsMutationLocked: a callback dispatch, a constructor or a
\* destruction does not lock the store.
LockedOutsideDispatch == mutationLocked \/ activeCollector
LockedOutsideLifetimes == dispatchLocked \/ activeCollector

IsMutationLocked == mutationLocked \/ dispatchLocked \/ activeCollector

\* User code is running: between calls, inside a constructor, or inside the
\* destruction callbacks of one object.
InUserCode == call \in {"None", "Construct"} \/ destroying # InvalidIndex

----------------------------------------------------------------------------
StoreInit ==
    /\ state = [s \in Slots |-> "Vacant"]
    /\ generation = [s \in Slots |-> 0]
    /\ marked = [s \in Slots |-> FALSE]
    /\ references = [s \in Slots |-> {}]
    /\ roots = [r \in RootEntries |-> NoHandle]
    /\ pendingDestroyCount = 0
    /\ pendingDestroyScanCursor = 0
    /\ mutationLocked = FALSE
    /\ dispatchLocked = FALSE
    /\ activeCollector = FALSE
    /\ call = "None"
    /\ destroying = InvalidIndex
    /\ visitsLeft = 0

----------------------------------------------------------------------------
(* Construction: NewObject is a transaction of one object, and             *)
(* FObjectConstructionTransaction one of an actor and its components.      *)

Reserved == {s \in Slots : state[s] = "Constructing"}

BeginConstruction ==
    /\ InUserCode
    /\ ~IsMutationLocked
    /\ call' = "Construct"
    /\ mutationLocked' = TRUE
    /\ UNCHANGED <<state, generation, marked, references, roots,
                   pendingDestroyCount, pendingDestroyScanCursor,
                   dispatchLocked, activeCollector, destroying, visitsLeft>>

\* The first vacant slot is reserved; it stays hidden while its constructor runs.
Reserve ==
    /\ call = "Construct"
    /\ Cardinality(Reserved) <= MaxComponentsPerActor
    /\ \E s \in Slots :
        /\ state[s] = "Vacant"
        /\ \A v \in Slots : v < s => state[v] # "Vacant"
        /\ state' = [state EXCEPT ![s] = "Constructing"]
    /\ UNCHANGED <<generation, marked, references, roots, pendingDestroyCount,
                   pendingDestroyScanCursor, mutationLocked, dispatchLocked,
                   activeCollector, call, destroying, visitsLeft>>

\* Every reservation is published, the components and then the actor, whose
\* traced references are its components.  The actor reserved first, so its
\* slot is the lowest one.
Commit ==
    /\ call = "Construct"
    /\ Reserved # {}
    /\ state' = [s \in Slots |-> IF s \in Reserved THEN "Live" ELSE state[s]]
    /\ generation' = [s \in Slots |-> IF s \in Reserved
                                      THEN NextPublishGeneration(generation[s])
                                      ELSE generation[s]]
    /\ marked' = [s \in Slots |-> s \notin Reserved /\ marked[s]]
    /\ references' =
        [s \in Slots |->
            IF s \in Reserved /\ \A t \in Reserved : s <= t
            THEN {[index |-> t, generation |-> NextPublishGeneration(generation[t])]
                    : t \in Reserved \ {s}}
            ELSE references[s]]
    /\ call' = "None"
    /\ mutationLocked' = FALSE
    /\ UNCHANGED <<roots, pendingDestroyCount, pendingDestroyScanCursor,
                   dispatchLocked, activeCollector, destroying, visitsLeft>>

\* Any construction error destroys the provisional objects and gives every
\* reserved slot back at the generation it had.
RollbackConstruction ==
    /\ call = "Construct"
    /\ state' = [s \in Slots |-> IF s \in Reserved THEN "Vacant" ELSE state[s]]
    /\ marked' = [s \in Slots |-> s \notin Reserved /\ marked[s]]
    /\ call' = "None"
    /\ mutationLocked' = FALSE
    /\ UNCHANGED <<generation, references, roots, pendingDestroyCount,
                   pendingDestroyScanCursor, dispatchLocked, activeCollector,
                   destroying, visitsLeft>>

----------------------------------------------------------------------------
(* Destruction.                                                            *)

MarkPendingDestroy(h) ==
    /\ InUserCode
    /\ ~IsMutationLocked
    /\ Resolves(h)
    /\ state' = [state EXCEPT ![h.index] = "PendingDestroy"]
    /\ marked' = [marked EXCEPT ![h.index] = FALSE]
    /\ pendingDestroyCount' = pendingDestroyCount + 1
    /\ UNCHANGED <<generation, references, roots, pendingDestroyScanCursor,
                   mutationLocked, dispatchLocked, activeCollector, call,
                   destroying, visitsLeft>>

\* DestroySlot up to the BeginDestroy callback.
BeginDestroySlot(s) ==
    /\ state' = [state EXCEPT ![s] = "Destroying"]
    /\ destroying' = s
    /\ mutationLocked' = TRUE

\* Mutant of RecycledState: an exhausted slot is handed out again.
NeverRetired(s) == "Vacant"

RecycledGeneration(s) ==
    IF generation[s] < MaxGeneration THEN generation[s] + 1 ELSE generation[s]

RecycledState(s) == IF generation[s] < MaxGeneration THEN "Vacant" ELSE "Retired"

\* Mutant of RemoveAllRoots: destruction leaves the root table alone.
RemoveNoRoots(h) == roots

RemoveAllRoots(h) == [r \in RootEntries |-> IF roots[r] = h THEN NoHandle ELSE roots[r]]

CountAfterDestroy ==
    IF call = "Barrier" /\ pendingDestroyCount > 0
    THEN pendingDestroyCount - 1 ELSE pendingDestroyCount

\* DestroySlot from the end of the destructor: the lifetime's root tokens go,
\* and the slot takes its next generation or is retired.
EndDestroySlot ==
    LET s == destroying IN
    /\ s # InvalidIndex
    /\ roots' = RemoveAllRoots(HandleOf(s))
    /\ state' = [state EXCEPT ![s] = RecycledState(s)]
    /\ generation' = [generation EXCEPT ![s] = RecycledGeneration(s)]
    /\ marked' = [marked EXCEPT ![s] = FALSE]
    /\ references' = [references EXCEPT ![s] = {}]
    /\ pendingDestroyCount' = CountAfterDestroy
    /\ destroying' = InvalidIndex
    /\ mutationLocked' = FALSE
    /\ UNCHANGED <<pendingDestroyScanCursor, dispatchLocked, activeCollector,
                   call, visitsLeft>>

\* ApplyPendingDestroy(budget), one slot inspection at a time.
BeginApplyPendingDestroy(budget) ==
    /\ InUserCode
    /\ ~IsMutationLocked
    /\ pendingDestroyCount > 0
    /\ call' = "Barrier"
    /\ visitsLeft' = budget
    /\ UNCHANGED <<state, generation, marked, references, roots,
                   pendingDestroyCount, pendingDestroyScanCursor,
                   mutationLocked, dispatchLocked, activeCollector, destroying>>

VisitPendingSlot ==
    /\ call = "Barrier"
    /\ destroying = InvalidIndex
    /\ visitsLeft > 0
    /\ pendingDestroyCount > 0
    /\ visitsLeft' = visitsLeft - 1
    /\ pendingDestroyScanCursor' = IF pendingDestroyScanCursor + 1 = SlotCount
                                   THEN 0 ELSE pendingDestroyScanCursor + 1
    /\ IF state[pendingDestroyScanCursor] = "PendingDestroy"
       THEN BeginDestroySlot(pendingDestroyScanCursor)
       ELSE UNCHANGED <<state, destroying, mutationLocked>>
    /\ UNCHANGED <<generation, marked, references, roots, pendingDestroyCount,
                   dispatchLocked, activeCollector, call>>

EndApplyPendingDestroy ==
    /\ call = "Barrier"
    /\ destroying = InvalidIndex
    /\ visitsLeft = 0 \/ pendingDestroyCount = 0
    /\ call' = "None"
    /\ visitsLeft' = 0
    /\ UNCHANGED <<state, generation, marked, references, roots,
                   pendingDestroyCount, pendingDestroyScanCursor,
                   mutationLocked, dispatchLocked, activeCollector, destroying>>

----------------------------------------------------------------------------
(* Roots.  One object may hold several tokens; the first free entry is     *)
(* taken and the first matching one is given back.                         *)

AddRoot(h) ==
    /\ InUserCode
    /\ ~IsMutationLocked
    /\ Resolves(h)
    /\ \E r \in RootEntries :
        /\ roots[r] = NoHandle
        /\ \A q \in RootEntries : q < r => roots[q] # NoHandle
        /\ roots' = [roots EXCEPT ![r] = h]
    /\ UNCHANGED <<state, generation, marked, references, pendingDestroyCount,
                   pendingDestroyScanCursor, mutationLocked, dispatchLocked,
                   activeCollector, call, destroying, visitsLeft>>

\* Strong pointers release their token in any user code, locked or not.
RemoveRoot(h) ==
    /\ InUserCode
    /\ \E r \in RootEntries :
        /\ roots[r] = h
        /\ \A q \in RootEntries : q < r => roots[q] # h
        /\ roots' = [roots EXCEPT ![r] = NoHandle]
    /\ UNCHANGED <<state, generation, marked, references, pendingDestroyCount,
                   pendingDestroyScanCursor, mutationLocked, dispatchLocked,
                   activeCollector, call, destroying, visitsLeft>>

----------------------------------------------------------------------------
(* Callback dispatch, and the traced fields of an object.                  *)

BeginDispatch ==
    /\ InUserCode
    /\ ~IsMutationLocked
    /\ dispatchLocked' = TRUE
    /\ UNCHANGED <<state, generation, marked, references, roots,
                   pendingDestroyCount, pendingDestroyScanCursor,
                   mutationLocked, activeCollector, call, destroying, visitsLeft>>

EndDispatch ==
    /\ call = "None"
    /\ dispatchLocked
    /\ dispatchLocked' = FALSE
    /\ UNCHANGED <<state, generation, marked, references, roots,
                   pendingDestroyCount, pendingDestroyScanCursor,
                   mutationLocked, activeCollector, call, destroying, visitsLeft>>

\* User code assigns the traced pointers of a live object, whatever is locked.
\* It can only hold handles the store has issued, live or stale.
SetReferences(s, targets) ==
    /\ InUserCode
    /\ state[s] = "Live"
    /\ Cardinality(targets) <= MaxReferences
    /\ \A h \in targets : Issued(h)
    /\ references' = [references EXCEPT ![s] = targets]
    /\ UNCHANGED <<state, generation, marked, roots, pendingDestroyCount,
                   pendingDestroyScanCursor, mutationLocked, dispatchLocked,
                   activeCollector, call, destroying, visitsLeft>>
=============================================================================
