-------------------------- MODULE GarbageCollector --------------------------
(***************************************************************************)
(* FGarbageCollector over one FObjectStore: an incremental, explicit-root  *)
(* mark/sweep whose every call is bounded by the caller's budgets.         *)
(*                                                                         *)
(* One action is one charged operation (a root entry, a worklist entry, a  *)
(* slot) or the report of one reference by a visitor, because user code    *)
(* runs between them: an Advance returns when a budget is spent, BeginDe-  *)
(* stroy runs in the middle of the sweep, a visitor in the middle of the   *)
(* mark.  A budget is any number, so Advance may return at every operation *)
(* that its phase has left.  `phase` is CurrentPhase; `call` is the phase  *)
(* function on the stack, which goes on running whatever CurrentPhase says.*)
(***************************************************************************)
EXTENDS ObjectStore, Sequences

CONSTANTS
    WorklistCapacity    \* entries of the caller-owned worklist

ASSUME CollectorAssumption == WorklistCapacity \in Nat

VARIABLES
    phase,        \* CurrentPhase
    rootCursor,
    worklist,     \* marked handles whose references are still to be reported
    sweepCursor,
    visiting,     \* references the running visitor has still to report
    rewired       \* history: a traced field got a new target in this cycle

collectorVars == <<phase, rootCursor, worklist, sweepCursor, visiting, rewired>>
vars == <<storeVars, collectorVars>>

Phases == {"Idle", "SeedRoots", "Mark", "Sweep"}
AdvanceCalls == {"SeedRoots", "Mark", "Sweep"}

\* The store variables no collector operation outside a sweep touches.
otherStoreVars == <<state, generation, references, roots, pendingDestroyCount,
                    pendingDestroyScanCursor, mutationLocked, dispatchLocked,
                    destroying, visitsLeft>>

CollectorInit ==
    /\ phase = "Idle"
    /\ rootCursor = 0
    /\ worklist = <<>>
    /\ sweepCursor = 0
    /\ visiting = {}
    /\ rewired = FALSE

----------------------------------------------------------------------------
(* Cycle start, abort and the bounded call.                                *)

IsOccupied(s) == state[s] \in {"Live", "PendingDestroy", "Destroying"}

RequestCollection ==
    /\ InUserCode
    /\ phase = "Idle"
    /\ ~mutationLocked /\ ~dispatchLocked
    /\ WorklistCapacity >= SlotCount
    /\ ~activeCollector
    /\ activeCollector' = TRUE
    /\ phase' = "SeedRoots"
    /\ rootCursor' = 0
    /\ worklist' = <<>>
    /\ sweepCursor' = 0
    /\ UNCHANGED <<otherStoreVars, marked, call, visiting, rewired>>

\* Mutant of ResetCycle: the marks of the dropped cycle stay.
ResetKeepingMarks ==
    /\ UNCHANGED marked
    /\ activeCollector' = FALSE
    /\ phase' = "Idle"
    /\ rootCursor' = 0
    /\ worklist' = <<>>
    /\ sweepCursor' = 0
    /\ rewired' = FALSE

\* ResetCycle drops the marks of occupied slots and releases the store.
ResetCycle ==
    /\ marked' = [s \in Slots |-> ~IsOccupied(s) /\ marked[s]]
    /\ activeCollector' = FALSE
    /\ phase' = "Idle"
    /\ rootCursor' = 0
    /\ worklist' = <<>>
    /\ sweepCursor' = 0
    /\ rewired' = FALSE

CancelCollection ==
    /\ call = "None"
    /\ phase # "Idle"
    /\ ResetCycle
    /\ UNCHANGED <<otherStoreVars, call, visiting>>

BeginAdvance ==
    /\ InUserCode
    /\ call \notin AdvanceCalls
    /\ ~dispatchLocked
    /\ phase # "Idle"
    /\ ~mutationLocked
    /\ activeCollector
    /\ call' = phase
    /\ UNCHANGED <<otherStoreVars, marked, activeCollector, collectorVars>>

\* The running phase has work left and its budget is spent.
HasWorkLeft ==
    \/ call = "SeedRoots" /\ rootCursor < RootCapacity
    \/ call = "Mark" /\ worklist # <<>>
    \/ call = "Sweep" /\ sweepCursor < SlotCount

ReturnFromAdvance ==
    /\ HasWorkLeft
    /\ visiting = {}
    /\ destroying = InvalidIndex
    /\ call' = "None"
    /\ UNCHANGED <<otherStoreVars, marked, activeCollector, collectorVars>>

----------------------------------------------------------------------------
(* Discovery.                                                              *)

IsDiscoverable(h) ==
    /\ phase \in {"SeedRoots", "Mark"}
    /\ activeCollector
    /\ h \in Handles

IsAlreadyProcessed(h) == ~Resolves(h) \/ marked[h.index]

\* DiscoverReference, leaving the root cursor at `cursor` and the references
\* `rest` to report: a new live handle is marked and queued once; a full
\* worklist aborts the cycle, and the Advance with it.
DiscoverReference(h, cursor, rest) ==
    IF ~IsDiscoverable(h) \/ IsAlreadyProcessed(h)
    THEN /\ rootCursor' = cursor
         /\ visiting' = rest
         /\ UNCHANGED <<marked, activeCollector, phase, worklist, sweepCursor,
                        rewired, call>>
    ELSE IF Len(worklist) >= WorklistCapacity
    THEN /\ ResetCycle
         /\ visiting' = {}
         /\ call' = "None"
    ELSE /\ marked' = [marked EXCEPT ![h.index] = TRUE]
         /\ worklist' = Append(worklist, h)
         /\ rootCursor' = cursor
         /\ visiting' = rest
         /\ UNCHANGED <<activeCollector, phase, sweepCursor, rewired, call>>

SeedRoot ==
    /\ call = "SeedRoots"
    /\ rootCursor < RootCapacity
    /\ DiscoverReference(roots[rootCursor], rootCursor + 1, {})
    /\ UNCHANGED otherStoreVars

\* Mutant of EndSeedRoots: the last root entry is never read.
EndSeedRootsEarly ==
    /\ call = "SeedRoots"
    /\ rootCursor + 1 >= RootCapacity
    /\ phase' = "Mark"
    /\ call' = "Mark"
    /\ UNCHANGED <<otherStoreVars, marked, activeCollector, rootCursor,
                   worklist, sweepCursor, visiting, rewired>>

EndSeedRoots ==
    /\ call = "SeedRoots"
    /\ rootCursor >= RootCapacity
    /\ phase' = "Mark"
    /\ call' = "Mark"
    /\ UNCHANGED <<otherStoreVars, marked, activeCollector, rootCursor,
                   worklist, sweepCursor, visiting, rewired>>

\* The last worklist entry is taken; a live object starts its visitor.
PopWorklist ==
    /\ call = "Mark"
    /\ visiting = {}
    /\ worklist # <<>>
    /\ LET h == worklist[Len(worklist)] IN
        visiting' = IF Resolves(h) THEN references[h.index] ELSE {}
    /\ worklist' = SubSeq(worklist, 1, Len(worklist) - 1)
    /\ UNCHANGED <<otherStoreVars, marked, activeCollector, call, phase,
                   rootCursor, sweepCursor, rewired>>

ReportReference ==
    /\ call = "Mark"
    /\ \E h \in visiting :
        DiscoverReference(h, rootCursor, visiting \ {h})
    /\ UNCHANGED otherStoreVars

EndMark ==
    /\ call = "Mark"
    /\ visiting = {}
    /\ worklist = <<>>
    /\ phase' = "Sweep"
    /\ call' = "Sweep"
    /\ UNCHANGED <<otherStoreVars, marked, activeCollector, rootCursor,
                   worklist, sweepCursor, visiting, rewired>>

----------------------------------------------------------------------------
(* Sweep.                                                                  *)

\* A marked survivor loses its mark; an unmarked live object is destroyed.
SweepSlot ==
    LET s == sweepCursor IN
    /\ call = "Sweep"
    /\ destroying = InvalidIndex
    /\ s < SlotCount
    /\ sweepCursor' = s + 1
    /\ IF state[s] # "Live"
       THEN UNCHANGED <<state, marked, destroying, mutationLocked>>
       ELSE IF marked[s]
       THEN /\ marked' = [marked EXCEPT ![s] = FALSE]
            /\ UNCHANGED <<state, destroying, mutationLocked>>
       ELSE BeginDestroySlot(s) /\ UNCHANGED marked
    /\ UNCHANGED <<generation, references, roots, pendingDestroyCount,
                   pendingDestroyScanCursor, dispatchLocked, activeCollector,
                   call, visitsLeft, phase, rootCursor, worklist, visiting,
                   rewired>>

\* FinalizeCompletedCycle: back to Idle, and the store is released.
EndSweep ==
    /\ call = "Sweep"
    /\ destroying = InvalidIndex
    /\ sweepCursor >= SlotCount
    /\ phase' = "Idle"
    /\ activeCollector' = FALSE
    /\ rootCursor' = 0
    /\ worklist' = <<>>
    /\ sweepCursor' = 0
    /\ call' = "None"
    /\ rewired' = FALSE
    /\ UNCHANGED <<otherStoreVars, marked, visiting>>

----------------------------------------------------------------------------
StoreStep ==
    /\ \/ BeginConstruction
       \/ Reserve
       \/ Commit
       \/ RollbackConstruction
       \/ \E h \in Handles : MarkPendingDestroy(h)
       \/ \E budget \in 1..SlotCount : BeginApplyPendingDestroy(budget)
       \/ VisitPendingSlot
       \/ EndApplyPendingDestroy
       \/ EndDestroySlot
       \/ \E h \in Handles : AddRoot(h)
       \/ \E h \in Handles : RemoveRoot(h)
       \/ BeginDispatch
       \/ EndDispatch
    /\ UNCHANGED collectorVars

\* A traced field is a plain member: nothing stops the owner from assigning it
\* between two calls of a suspended cycle, or BeginDestroy in the sweep, and no
\* write barrier tells the collector.
MutatorStep ==
    \E s \in Slots, targets \in SUBSET {h \in Handles : Issued(h)} :
        /\ SetReferences(s, targets)
        /\ rewired' = (rewired \/ (phase # "Idle" /\ ~(targets \subseteq references[s])))
        /\ UNCHANGED <<phase, rootCursor, worklist, sweepCursor, visiting>>

CollectorStep ==
    \/ SeedRoot \/ EndSeedRoots
    \/ PopWorklist \/ ReportReference \/ EndMark
    \/ SweepSlot \/ EndSweep

Next ==
    \/ StoreStep
    \/ MutatorStep
    \/ RequestCollection
    \/ BeginAdvance
    \/ CollectorStep
    \/ ReturnFromAdvance
    \/ CancelCollection

Init == StoreInit /\ CollectorInit

Spec == Init /\ [][Next]_vars

----------------------------------------------------------------------------
(* Properties.                                                             *)

\* Types of the store and the collector (ObjectStore.h:513-551,
\* GarbageCollector.h:179-205).
TypeOK ==
    /\ state \in [Slots -> SlotStates]
    /\ generation \in [Slots -> 0..MaxGeneration]
    /\ marked \in [Slots -> BOOLEAN]
    /\ references \in [Slots -> SUBSET Handles]
    /\ roots \in [RootEntries -> Handles \cup {NoHandle}]
    /\ pendingDestroyCount \in Nat
    /\ pendingDestroyScanCursor \in Slots
    /\ mutationLocked \in BOOLEAN
    /\ dispatchLocked \in BOOLEAN
    /\ activeCollector \in BOOLEAN
    /\ call \in {"None", "Construct", "Barrier"} \cup AdvanceCalls
    /\ destroying \in Slots \cup {InvalidIndex}
    /\ visitsLeft \in 0..SlotCount
    /\ phase \in Phases
    /\ rootCursor \in 0..RootCapacity
    /\ worklist \in Seq(Handles)
    /\ sweepCursor \in 0..SlotCount
    /\ visiting \subseteq Handles
    /\ rewired \in BOOLEAN

(* What makes a suspended cycle safe to resume, part by part.              *)

LiveSlots == {s \in Slots : state[s] = "Live"}

\* Each lock says what is on the stack, and a cycle excludes both of the others
\* (ObjectStore.h:257, ObjectStore.cpp:589-597, GarbageCollector.cpp:202-225).
LocksAgree ==
    /\ activeCollector <=> phase # "Idle"
    /\ rewired => phase # "Idle"
    /\ mutationLocked <=> call = "Construct" \/ destroying # InvalidIndex
    /\ call \in AdvanceCalls => call = phase
    /\ call \in {"Construct", "Barrier"} => phase = "Idle" /\ ~dispatchLocked
    /\ dispatchLocked => call = "None" /\ phase = "Idle"
    /\ destroying # InvalidIndex =>
        /\ state[destroying] = "Destroying"
        /\ call \in {"Barrier", "Sweep"}
        /\ call = "Sweep" => destroying < sweepCursor
    /\ \A s \in Slots :
        /\ state[s] = "Destroying" => s = destroying
        /\ state[s] = "Constructing" => call = "Construct"

\* Only live objects are marked, none between cycles and none behind the sweep.
MarksMatchPhase ==
    \A s \in Slots : marked[s] =>
        /\ state[s] = "Live"
        /\ phase # "Idle"
        /\ phase = "Sweep" => s >= sweepCursor

\* The worklist holds marked live objects, each once, is empty unless a cycle is
\* discovering, and is as long as the slot table in every cycle.
WorklistSound ==
    /\ phase # "Idle" => WorklistCapacity >= SlotCount
    /\ \A i \in 1..Len(worklist) :
        /\ Resolves(worklist[i])
        /\ marked[worklist[i].index]
    /\ \A i, j \in 1..Len(worklist) :
        worklist[i].index = worklist[j].index => i = j
    /\ phase \in {"Idle", "Sweep"} => worklist = <<>>
    /\ visiting # {} => call = "Mark"

Queued(s) == \E i \in 1..Len(worklist) : worklist[i].index = s

\* Discovery loses nothing: every root already passed is marked, and what a
\* marked object off the worklist refers to is marked or about to be reported.
DiscoveryComplete ==
    phase \in {"SeedRoots", "Mark"} =>
        /\ sweepCursor = 0
        /\ \A r \in RootEntries :
            (r < rootCursor \/ phase = "Mark") /\ Resolves(roots[r])
                => marked[roots[r].index]
        /\ ~rewired => \A s \in LiveSlots : marked[s] /\ ~Queued(s) =>
            \A h \in references[s] : Resolves(h) => marked[h.index] \/ h \in visiting

\* The live objects the sweep has kept or will keep ...
Survivors == {s \in LiveSlots : marked[s] \/ s < sweepCursor}

\* ... hold every rooted object and everything they refer to.
SurvivorsClosed ==
    phase = "Sweep" =>
        /\ \A r \in RootEntries : Resolves(roots[r]) => roots[r].index \in Survivors
        /\ ~rewired => \A s \in Survivors : \A h \in references[s] :
            Resolves(h) => h.index \in Survivors

\* The tri-colour invariant of a cycle, suspended or running.
CycleInvariant ==
    /\ LocksAgree
    /\ MarksMatchPhase
    /\ WorklistSound
    /\ DiscoveryComplete
    /\ SurvivorsClosed

\* A worklist as long as the slot table never overflows, so a cycle is never
\* abandoned half-way (GarbageCollector.cpp:131-138 and 387-394).
WorklistHasRoom ==
    phase \in {"SeedRoots", "Mark"} =>
        \A s \in LiveSlots : ~marked[s] => Len(worklist) < WorklistCapacity

\* Every root token names the present occupant of its slot: no token outlives
\* its object to keep alive the next object in the slot
\* (ObjectStore.cpp:428-437, 508-521).
RootsNameOccupants ==
    \A r \in RootEntries : roots[r] # NoHandle =>
        /\ roots[r] = HandleOf(roots[r].index)
        /\ state[roots[r].index] \in {"Live", "PendingDestroy", "Destroying"}

Pending == {s \in Slots : \/ state[s] = "PendingDestroy"
                          \/ state[s] = "Destroying" /\ call = "Barrier"}

\* The count that lets the barrier stop early counts exactly the objects that
\* wait for it (ObjectStore.cpp:220, 241, 460-474).
PendingCountExact == pendingDestroyCount = Cardinality(Pending)

\* While a callback runs, under the dispatch lock or in the middle of a
\* construction, a barrier or a sweep, whatever it calls publishes, destroys,
\* dooms and roots nothing and starts no other call: until the construction or
\* the destruction itself goes on, only root tokens are given back and fields
\* assigned (ObjectStore.h:253-257, ObjectStore.cpp:120-134, 389-401, 613-626).
Frozen ==
    /\ UNCHANGED <<state, generation, marked, pendingDestroyCount, call, phase>>
    /\ \A r \in RootEntries : roots'[r] \in {roots[r], NoHandle}

CallbacksFreezeStore ==
    [][/\ dispatchLocked => Frozen
       /\ call = "Construct" => Frozen \/ Reserve \/ Commit \/ RollbackConstruction
       /\ destroying # InvalidIndex => Frozen \/ EndDestroySlot]_vars

(* The store as the managed heap sees it.                                  *)

LiveHandles == {HandleOf(s) : s \in LiveSlots}
IssuedHandles == {h \in Handles : Issued(h)}
DoomedHandles == {HandleOf(s) : s \in Pending}
RootedHandles == {h \in LiveHandles : \E r \in RootEntries : roots[r] = h}
LiveLinks == {l \in LiveHandles \X Handles : l[2] \in references[l[1].index]}

Collection == IF phase = "Idle" THEN "None" ELSE IF rewired THEN "Rewired" ELSE "Steady"

Heap == INSTANCE ManagedHeap WITH
    Handle <- Handles, objects <- LiveHandles, used <- IssuedHandles,
    doomed <- DoomedHandles, rooted <- RootedHandles, links <- LiveLinks,
    collection <- Collection

\* The store and its collector implement the managed heap: handles are never
\* reused, and collection takes only what no root reaches, however a cycle is
\* cut into budgets (ADR 0002; GarbageCollector.cpp:146-309).
HeapRefinement == Heap!HeapSpec
=============================================================================
