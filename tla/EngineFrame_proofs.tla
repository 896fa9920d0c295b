------------------------- MODULE EngineFrame_proofs -------------------------
(***************************************************************************)
(* Proofs about the object store, its collector and the engine's frames.   *)
(*                                                                         *)
(* First the store and its collector, for every number of slots, roots and *)
(* generations and however a cycle is cut into budgets: types, the         *)
(* tri-colour invariant of a cycle, the worklist's room, root tokens,      *)
(* callback dispatch, the count of pending objects, the store as an        *)
(* implementation of the managed heap, and what a cycle has reclaimed.     *)
(*                                                                         *)
(* Then the frames, for everything the owner composes and whatever the     *)
(* turns do with the store: a step of the engine is a step of the store    *)
(* and its collector, so what is proved of those carries over; the engine  *)
(* adds when a cycle may be open, who has had a turn, and the world it     *)
(* made without the store's knowledge of a construction in several steps.  *)
(***************************************************************************)
EXTENDS EngineFrame, MCGarbageCollector, FiniteSetTheorems, SequenceTheorems, TLAPS

-----------------------------------------------------------------------------
(* The store and its collector.                                            *)

\* Every variable keeps its type (ObjectStore.h:513-551,
\* GarbageCollector.h:179-205).
LEMMA InitTypeOK == Init => TypeOK
<1> SUFFICES ASSUME Init PROVE TypeOK
  OBVIOUS
<1> USE StoreAssumption, CollectorAssumption
    DEF StoreAssumption, CollectorAssumption, Init, StoreInit, CollectorInit,
        Slots, RootEntries, InvalidIndex
<1>1. /\ state \in [Slots -> SlotStates]
      /\ generation \in [Slots -> 0..MaxGeneration]
      /\ marked \in [Slots -> BOOLEAN]
      /\ references \in [Slots -> SUBSET Handles]
  BY DEF SlotStates
<1>2. roots \in [RootEntries -> Handles \cup {NoHandle}]
  OBVIOUS
<1>3. pendingDestroyCount \in Nat /\ pendingDestroyScanCursor \in Slots
  OBVIOUS
<1>4. mutationLocked \in BOOLEAN /\ dispatchLocked \in BOOLEAN /\ activeCollector \in BOOLEAN
  OBVIOUS
<1>5. /\ call \in {"None", "Construct", "Barrier"} \cup AdvanceCalls
      /\ destroying \in Slots \cup {InvalidIndex}
      /\ visitsLeft \in 0..SlotCount
  OBVIOUS
<1>6. /\ phase \in Phases
      /\ rootCursor \in 0..RootCapacity
      /\ worklist \in Seq(Handles)
      /\ sweepCursor \in 0..SlotCount
      /\ visiting \subseteq Handles
  BY DEF Phases
<1>7. rewired \in BOOLEAN
  OBVIOUS
<1> QED
  BY <1>1, <1>2, <1>3, <1>4, <1>5, <1>6, <1>7 DEF TypeOK

\* Every operation of the store (ObjectStore.cpp:46-458) keeps the types.
LEMMA StoreStepTypeOK == TypeOK /\ StoreStep => TypeOK'
<1> USE DEF TypeOK, collectorVars
<1>1. ASSUME TypeOK, BeginConstruction, UNCHANGED collectorVars PROVE TypeOK'
  BY <1>1 DEF BeginConstruction
<1>2. ASSUME TypeOK, Reserve, UNCHANGED collectorVars PROVE TypeOK'
  BY <1>2 DEF Reserve, SlotStates
<1>3. ASSUME TypeOK, Commit, UNCHANGED collectorVars PROVE TypeOK'
  <2>1. generation' \in [Slots -> 0..MaxGeneration]
    BY <1>3, StoreAssumption DEF Commit, NextPublishGeneration, StoreAssumption
  <2>2. references' \in [Slots -> SUBSET Handles]
    BY <1>3, StoreAssumption DEF Commit, NextPublishGeneration, Handles, Reserved, StoreAssumption
  <2>3. marked' \in [Slots -> BOOLEAN]
    BY <1>3 DEF Commit
  <2>4. state' \in [Slots -> SlotStates]
    BY <1>3 DEF Commit, SlotStates
  <2> QED
    BY <1>3, <2>1, <2>2, <2>3, <2>4 DEF Commit
<1>4. ASSUME TypeOK, RollbackConstruction, UNCHANGED collectorVars PROVE TypeOK'
  <2>1. marked' \in [Slots -> BOOLEAN]
    BY <1>4 DEF RollbackConstruction
  <2>2. state' \in [Slots -> SlotStates]
    BY <1>4 DEF RollbackConstruction, SlotStates
  <2> QED
    BY <1>4, <2>1, <2>2 DEF RollbackConstruction
<1>5. ASSUME TypeOK, NEW h \in Handles, MarkPendingDestroy(h), UNCHANGED collectorVars
      PROVE  TypeOK'
  <2>1. state' \in [Slots -> SlotStates]
    BY <1>5 DEF MarkPendingDestroy, SlotStates
  <2>2. marked' \in [Slots -> BOOLEAN]
    BY <1>5 DEF MarkPendingDestroy
  <2>3. pendingDestroyCount' \in Nat
    BY <1>5 DEF MarkPendingDestroy
  <2> QED
    BY <1>5, <2>1, <2>2, <2>3 DEF MarkPendingDestroy
<1>6. ASSUME TypeOK, NEW budget \in 1..SlotCount, BeginApplyPendingDestroy(budget),
             UNCHANGED collectorVars
      PROVE  TypeOK'
  BY <1>6, StoreAssumption DEF BeginApplyPendingDestroy, StoreAssumption
<1>7. ASSUME TypeOK, VisitPendingSlot, UNCHANGED collectorVars PROVE TypeOK'
  <2>1. pendingDestroyScanCursor' \in Slots
    BY <1>7, StoreAssumption DEF VisitPendingSlot, Slots, StoreAssumption
  <2>2. visitsLeft' \in 0..SlotCount
    BY <1>7, StoreAssumption DEF VisitPendingSlot, StoreAssumption
  <2> QED
    BY <1>7, <2>1, <2>2 DEF VisitPendingSlot, BeginDestroySlot, SlotStates
<1>8. ASSUME TypeOK, EndApplyPendingDestroy, UNCHANGED collectorVars PROVE TypeOK'
  <2>1. visitsLeft' \in 0..SlotCount
    BY <1>8, StoreAssumption DEF EndApplyPendingDestroy, StoreAssumption
  <2> QED
    BY <1>8, <2>1 DEF EndApplyPendingDestroy
<1>9. ASSUME TypeOK, EndDestroySlot, UNCHANGED collectorVars PROVE TypeOK'
  <2>1. state' \in [Slots -> SlotStates]
    BY <1>9 DEF EndDestroySlot, RecycledState, SlotStates, InvalidIndex
  <2>2. generation' \in [Slots -> 0..MaxGeneration]
    BY <1>9, StoreAssumption DEF EndDestroySlot, RecycledGeneration, StoreAssumption
  <2>3. roots' \in [RootEntries -> Handles \cup {NoHandle}]
    BY <1>9 DEF EndDestroySlot, RemoveAllRoots
  <2>4. pendingDestroyCount' \in Nat
    BY <1>9 DEF EndDestroySlot, CountAfterDestroy
  <2> QED
    BY <1>9, <2>1, <2>2, <2>3, <2>4 DEF EndDestroySlot
<1>10. ASSUME TypeOK, NEW h \in Handles, AddRoot(h), UNCHANGED collectorVars PROVE TypeOK'
  BY <1>10 DEF AddRoot
<1>11. ASSUME TypeOK, NEW h \in Handles, RemoveRoot(h), UNCHANGED collectorVars
       PROVE  TypeOK'
  BY <1>11 DEF RemoveRoot
<1>12. ASSUME TypeOK, BeginDispatch, UNCHANGED collectorVars PROVE TypeOK'
  BY <1>12 DEF BeginDispatch
<1>13. ASSUME TypeOK, EndDispatch, UNCHANGED collectorVars PROVE TypeOK'
  BY <1>13 DEF EndDispatch
<1> HIDE DEF TypeOK, collectorVars
<1> QED
  BY <1>1, <1>2, <1>3, <1>4, <1>5, <1>6, <1>7, <1>8, <1>9, <1>10, <1>11, <1>12,
     <1>13 DEF StoreStep

\* Dropping a cycle, on a cancellation or a full worklist, keeps the types.
LEMMA ResetTypeOK ==
  ASSUME TypeOK, ResetCycle, UNCHANGED otherStoreVars,
         call' = call \/ call' = "None", visiting' \subseteq Handles
  PROVE  TypeOK'
<1>1. marked' \in [Slots -> BOOLEAN]
  BY DEF ResetCycle
<1>2. phase' \in Phases /\ rootCursor' \in 0..RootCapacity /\ sweepCursor' \in 0..SlotCount
  BY StoreAssumption DEF ResetCycle, Phases, StoreAssumption
<1>3. worklist' \in Seq(Handles)
  BY DEF ResetCycle
<1>4. activeCollector' \in BOOLEAN /\ rewired' \in BOOLEAN
  BY DEF ResetCycle
<1> QED
  BY <1>1, <1>2, <1>3, <1>4 DEF TypeOK, otherStoreVars

\* What DiscoverReference leaves behind, typed.
LEMMA DiscoverTypeOK ==
  ASSUME TypeOK, NEW h, NEW cursor \in 0..RootCapacity, NEW rest \in SUBSET Handles,
         DiscoverReference(h, cursor, rest), UNCHANGED otherStoreVars
  PROVE  TypeOK'
<1>1. CASE ~IsDiscoverable(h) \/ IsAlreadyProcessed(h)
  BY <1>1 DEF DiscoverReference, TypeOK, otherStoreVars
<1>2. CASE IsDiscoverable(h) /\ ~IsAlreadyProcessed(h) /\ Len(worklist) >= WorklistCapacity
  <2>1. ResetCycle /\ visiting' = {} /\ call' = "None"
    BY <1>2 DEF DiscoverReference
  <2> QED
    BY <2>1, ResetTypeOK
<1>3. CASE IsDiscoverable(h) /\ ~IsAlreadyProcessed(h) /\ ~(Len(worklist) >= WorklistCapacity)
  <2>1. worklist' \in Seq(Handles)
    <3>1. h \in Handles
      BY <1>3 DEF IsDiscoverable
    <3>2. worklist' = Append(worklist, h)
      BY <1>3 DEF DiscoverReference
    <3> QED
      BY <3>1, <3>2 DEF TypeOK
  <2>2. marked' \in [Slots -> BOOLEAN]
    BY <1>3 DEF DiscoverReference, TypeOK
  <2> QED
    BY <1>3, <2>1, <2>2 DEF DiscoverReference, TypeOK, otherStoreVars
<1> QED
  BY <1>1, <1>2, <1>3

\* Every step of a cycle (GarbageCollector.cpp:100-356) keeps the types.
LEMMA CollectorTypeOK ==
  ASSUME TypeOK, \/ MutatorStep \/ RequestCollection \/ BeginAdvance
                 \/ CollectorStep \/ ReturnFromAdvance \/ CancelCollection
  PROVE  TypeOK'
<1>1. CASE MutatorStep
  <2>1. PICK s \in Slots, targets \in SUBSET Handles :
            /\ SetReferences(s, targets)
            /\ rewired' = (rewired \/ (phase # "Idle" /\ ~(targets \subseteq references[s])))
            /\ UNCHANGED <<phase, rootCursor, worklist, sweepCursor, visiting>>
    BY <1>1 DEF MutatorStep
  <2>2. rewired' \in BOOLEAN
    BY <2>1
  <2>3. references' \in [Slots -> SUBSET Handles]
    BY <2>1 DEF SetReferences, TypeOK
  <2> QED
    BY <2>1, <2>2, <2>3 DEF SetReferences, TypeOK
<1>2. CASE RequestCollection
  BY <1>2, StoreAssumption DEF RequestCollection, TypeOK, Phases, otherStoreVars, StoreAssumption
<1>3. CASE BeginAdvance
  BY <1>3 DEF BeginAdvance, TypeOK, Phases, AdvanceCalls, otherStoreVars, collectorVars
<1>4. CASE ReturnFromAdvance
  BY <1>4 DEF ReturnFromAdvance, TypeOK, otherStoreVars, collectorVars
<1>5. CASE CancelCollection
  BY <1>5, ResetTypeOK DEF CancelCollection, TypeOK
<1>6. CASE SeedRoot
  <2>1. rootCursor + 1 \in 0..RootCapacity
    BY <1>6, StoreAssumption DEF SeedRoot, TypeOK, StoreAssumption
  <2> QED
    BY <1>6, <2>1, DiscoverTypeOK DEF SeedRoot
<1>7. CASE EndSeedRoots
  BY <1>7 DEF EndSeedRoots, TypeOK, Phases, AdvanceCalls, otherStoreVars
<1>8. CASE PopWorklist
  <2>1. worklist # <<>> /\ Len(worklist) \in 1..Len(worklist)
    BY <1>8 DEF PopWorklist, TypeOK
  <2>2. worklist[Len(worklist)] \in Handles
    BY <2>1 DEF TypeOK
  <2>3. visiting' \subseteq Handles
    BY <1>8, <2>2 DEF PopWorklist, Handles, TypeOK
  <2>4. worklist' \in Seq(Handles)
    BY <1>8, <2>1 DEF PopWorklist, TypeOK
  <2> QED
    BY <1>8, <2>3, <2>4 DEF PopWorklist, TypeOK, otherStoreVars
<1>9. CASE ReportReference
  <2>1. PICK h \in visiting : DiscoverReference(h, rootCursor, visiting \ {h})
    BY <1>9 DEF ReportReference
  <2>2. rootCursor \in 0..RootCapacity /\ visiting \ {h} \in SUBSET Handles
    BY DEF TypeOK
  <2> QED
    BY <1>9, <2>1, <2>2, DiscoverTypeOK DEF ReportReference
<1>10. CASE EndMark
  BY <1>10 DEF EndMark, TypeOK, Phases, AdvanceCalls, otherStoreVars
<1>11. CASE SweepSlot
  <2>1. sweepCursor \in Slots /\ sweepCursor' \in 0..SlotCount
    BY <1>11, StoreAssumption DEF SweepSlot, TypeOK, Slots, StoreAssumption
  <2> QED
    BY <1>11, <2>1 DEF SweepSlot, BeginDestroySlot, SlotStates, TypeOK
<1>12. CASE EndSweep
  <2>1. phase' \in Phases /\ rootCursor' \in 0..RootCapacity /\ sweepCursor' \in 0..SlotCount
    BY <1>12, StoreAssumption DEF EndSweep, Phases, StoreAssumption
  <2>2. worklist' \in Seq(Handles)
    <3>1. worklist' = <<>>
      BY <1>12 DEF EndSweep
    <3> QED
      BY <3>1
  <2>3. rewired' = FALSE
    BY <1>12 DEF EndSweep
  <2> QED
    BY <1>12, <2>1, <2>2, <2>3 DEF EndSweep, TypeOK, otherStoreVars
<1> QED
  BY <1>1, <1>2, <1>3, <1>4, <1>5, <1>6, <1>7, <1>8, <1>9, <1>10, <1>11, <1>12
     DEF CollectorStep

\* A step of something else leaves the types alone.
LEMMA StutterTypeOK == TypeOK /\ UNCHANGED vars => TypeOK'
  BY DEF TypeOK, vars, storeVars, collectorVars

\* Every variable keeps its type (ObjectStore.h:513-551,
\* GarbageCollector.h:179-205).
THEOREM TypeCorrect == Spec => []TypeOK
<1>1. TypeOK /\ [Next]_vars => TypeOK'
  BY StoreStepTypeOK, CollectorTypeOK, StutterTypeOK DEF Next
<1> QED
  BY InitTypeOK, <1>1, PTL DEF Spec

----------------------------------------------------------------------------
(* The tri-colour invariant of a cycle.                                    *)

\* A collector that has never run satisfies the invariant of a cycle.
LEMMA InitCycle == Init => CycleInvariant
<1> SUFFICES ASSUME Init PROVE CycleInvariant
  OBVIOUS
<1> USE DEF Init, StoreInit, CollectorInit
<1>1. LocksAgree
  BY DEF LocksAgree, AdvanceCalls
<1>2. MarksMatchPhase
  BY DEF MarksMatchPhase
<1>3. WorklistSound
  BY DEF WorklistSound
<1>4. DiscoveryComplete /\ SurvivorsClosed
  BY DEF DiscoveryComplete, SurvivorsClosed
<1> QED
  BY <1>1, <1>2, <1>3, <1>4 DEF CycleInvariant

\* While no cycle runs, only the locks and the marks are at stake.
LEMMA IdleCycle ==
  ASSUME CycleInvariant, phase = "Idle", phase' = "Idle", worklist' = worklist,
         visiting' = visiting, call # "Mark", LocksAgree',
         \A s \in Slots : ~marked'[s]
  PROVE  CycleInvariant'
<1>1. MarksMatchPhase'
  BY DEF MarksMatchPhase
<1>2. worklist = <<>> /\ visiting = {}
  BY DEF CycleInvariant, WorklistSound
<1>3. WorklistSound'
  BY <1>2 DEF WorklistSound
<1>4. DiscoveryComplete' /\ SurvivorsClosed'
  BY DEF DiscoveryComplete, SurvivorsClosed
<1> QED
  BY <1>1, <1>3, <1>4 DEF CycleInvariant

\* Outside a cycle no slot is marked and no collector function is on the stack.
LEMMA IdleFacts ==
  ASSUME CycleInvariant, phase = "Idle"
  PROVE  /\ \A s \in Slots : ~marked[s]
         /\ call \notin AdvanceCalls
         /\ worklist = <<>> /\ visiting = {}
<1>1. \A s \in Slots : ~marked[s]
  BY DEF CycleInvariant, MarksMatchPhase
<1>2. call \notin AdvanceCalls
  BY DEF CycleInvariant, LocksAgree, AdvanceCalls
<1>3. worklist = <<>> /\ visiting = {}
  BY <1>2 DEF CycleInvariant, WorklistSound, AdvanceCalls
<1> QED
  BY <1>1, <1>2, <1>3

\* No store operation that needs the store unlocked runs inside a cycle.
LEMMA UnlockedIsIdle ==
  ASSUME CycleInvariant, ~IsMutationLocked
  PROVE  phase = "Idle" /\ ~mutationLocked /\ ~dispatchLocked /\ destroying = InvalidIndex
         /\ call # "Construct"
BY DEF CycleInvariant, LocksAgree, IsMutationLocked

\* What user code finds unlocked is at rest: no store function is on the stack.
LEMMA UserCodeIsIdle ==
  ASSUME CycleInvariant, ~IsMutationLocked, InUserCode
  PROVE  /\ phase = "Idle" /\ ~mutationLocked /\ ~dispatchLocked
         /\ destroying = InvalidIndex /\ call = "None"
BY UnlockedIsIdle DEF InUserCode

\* A store operation outside destruction and root release happens between cycles.
LEMMA StoreStepCycle ==
  ASSUME TypeOK, CycleInvariant, StoreStep PROVE CycleInvariant'
<1> USE DEF collectorVars
<1>1. ASSUME BeginConstruction, UNCHANGED collectorVars PROVE CycleInvariant'
  <2>1. phase = "Idle" /\ destroying = InvalidIndex /\ ~dispatchLocked /\ call = "None"
    BY <1>1, UserCodeIsIdle DEF BeginConstruction
  <2>2. LocksAgree'
    BY <1>1, <2>1 DEF BeginConstruction, CycleInvariant, LocksAgree, AdvanceCalls
  <2> QED
    BY <1>1, <2>1, <2>2, IdleFacts, IdleCycle DEF BeginConstruction
<1>2. ASSUME Reserve, UNCHANGED collectorVars PROVE CycleInvariant'
  <2>1. phase = "Idle" /\ destroying = InvalidIndex
    BY <1>2 DEF Reserve, CycleInvariant, LocksAgree
  <2>2. LocksAgree'
    BY <1>2, <2>1 DEF Reserve, CycleInvariant, LocksAgree, AdvanceCalls, TypeOK
  <2> QED
    BY <1>2, <2>1, <2>2, IdleFacts, IdleCycle DEF Reserve
<1>3. ASSUME Commit, UNCHANGED collectorVars PROVE CycleInvariant'
  <2>1. phase = "Idle" /\ destroying = InvalidIndex
    BY <1>3 DEF Commit, CycleInvariant, LocksAgree
  <2>2. LocksAgree'
    BY <1>3, <2>1 DEF Commit, CycleInvariant, LocksAgree, AdvanceCalls, Reserved
  <2>3. \A s \in Slots : ~marked'[s]
    BY <1>3, <2>1, IdleFacts DEF Commit
  <2> QED
    BY <1>3, <2>1, <2>2, <2>3, IdleCycle DEF Commit
<1>4. ASSUME RollbackConstruction, UNCHANGED collectorVars PROVE CycleInvariant'
  <2>1. phase = "Idle" /\ destroying = InvalidIndex
    BY <1>4 DEF RollbackConstruction, CycleInvariant, LocksAgree
  <2>2. LocksAgree'
    BY <1>4, <2>1 DEF RollbackConstruction, CycleInvariant, LocksAgree, AdvanceCalls, Reserved
  <2>3. \A s \in Slots : ~marked'[s]
    BY <1>4, <2>1, IdleFacts DEF RollbackConstruction
  <2> QED
    BY <1>4, <2>1, <2>2, <2>3, IdleCycle DEF RollbackConstruction
<1>5. ASSUME NEW h \in Handles, MarkPendingDestroy(h), UNCHANGED collectorVars
      PROVE  CycleInvariant'
  <2>1. phase = "Idle" /\ destroying = InvalidIndex /\ call = "None"
    BY <1>5, UserCodeIsIdle DEF MarkPendingDestroy
  <2>2. LocksAgree'
    BY <1>5, <2>1 DEF MarkPendingDestroy, CycleInvariant, LocksAgree, AdvanceCalls, TypeOK
  <2>3. \A s \in Slots : ~marked'[s]
    BY <1>5, <2>1, IdleFacts DEF MarkPendingDestroy, TypeOK
  <2> QED
    BY <1>5, <2>1, <2>2, <2>3, IdleCycle DEF MarkPendingDestroy
<1>6. ASSUME NEW budget \in 1..SlotCount, BeginApplyPendingDestroy(budget),
             UNCHANGED collectorVars
      PROVE  CycleInvariant'
  <2>1. phase = "Idle" /\ destroying = InvalidIndex /\ ~dispatchLocked /\ call = "None"
    BY <1>6, UserCodeIsIdle DEF BeginApplyPendingDestroy
  <2>2. LocksAgree'
    BY <1>6, <2>1 DEF BeginApplyPendingDestroy, CycleInvariant, LocksAgree, AdvanceCalls
  <2> QED
    BY <1>6, <2>1, <2>2, IdleFacts, IdleCycle DEF BeginApplyPendingDestroy
<1>7. ASSUME VisitPendingSlot, UNCHANGED collectorVars PROVE CycleInvariant'
  <2>1. phase = "Idle" /\ call = "Barrier" /\ destroying = InvalidIndex
    BY <1>7 DEF VisitPendingSlot, CycleInvariant, LocksAgree
  <2>2. LocksAgree'
    <3>1. pendingDestroyScanCursor \in Slots /\ pendingDestroyScanCursor # InvalidIndex
      BY StoreAssumption DEF TypeOK, Slots, InvalidIndex, StoreAssumption
    <3>2. CASE state[pendingDestroyScanCursor] = "PendingDestroy"
      <4> DEFINE s == pendingDestroyScanCursor
      <4>1. /\ destroying' = s /\ mutationLocked' = TRUE
            /\ state' = [state EXCEPT ![s] = "Destroying"]
            /\ UNCHANGED <<activeCollector, phase, call, dispatchLocked, rewired>>
        BY <1>7, <3>2 DEF VisitPendingSlot, BeginDestroySlot
      <4>2. \A t \in Slots : state'[t] = IF t = s THEN "Destroying" ELSE state[t]
        BY <4>1 DEF TypeOK
      <4>3. \A t \in Slots : state[t] # "Destroying" /\ state[t] # "Constructing"
        BY <2>1, StoreAssumption
           DEF CycleInvariant, LocksAgree, InvalidIndex, Slots, StoreAssumption
      <4> QED
        BY <2>1, <3>1, <4>1, <4>2, <4>3 DEF CycleInvariant, LocksAgree, AdvanceCalls
    <3>3. CASE state[pendingDestroyScanCursor] # "PendingDestroy"
      BY <1>7, <2>1, <3>3 DEF VisitPendingSlot, CycleInvariant, LocksAgree, AdvanceCalls
    <3> QED
      BY <3>2, <3>3
  <2> QED
    BY <1>7, <2>1, <2>2, IdleFacts, IdleCycle DEF VisitPendingSlot
<1>8. ASSUME EndApplyPendingDestroy, UNCHANGED collectorVars PROVE CycleInvariant'
  <2>1. phase = "Idle"
    BY <1>8 DEF EndApplyPendingDestroy, CycleInvariant, LocksAgree
  <2>2. LocksAgree'
    BY <1>8, <2>1 DEF EndApplyPendingDestroy, CycleInvariant, LocksAgree, AdvanceCalls
  <2> QED
    BY <1>8, <2>1, <2>2, IdleFacts, IdleCycle DEF EndApplyPendingDestroy
<1>9. ASSUME NEW h \in Handles, AddRoot(h), UNCHANGED collectorVars PROVE CycleInvariant'
  <2>1. phase = "Idle" /\ call = "None"
    BY <1>9, UserCodeIsIdle DEF AddRoot
  <2>2. LocksAgree'
    BY <1>9, <2>1 DEF AddRoot, CycleInvariant, LocksAgree, AdvanceCalls
  <2> QED
    BY <1>9, <2>1, <2>2, IdleFacts, IdleCycle DEF AddRoot
<1>10. ASSUME BeginDispatch, UNCHANGED collectorVars PROVE CycleInvariant'
  <2>1. phase = "Idle" /\ destroying = InvalidIndex /\ call = "None"
    BY <1>10, UserCodeIsIdle DEF BeginDispatch
  <2>2. LocksAgree'
    BY <1>10, <2>1 DEF BeginDispatch, CycleInvariant, LocksAgree, AdvanceCalls
  <2> QED
    BY <1>10, <2>1, <2>2, IdleFacts, IdleCycle DEF BeginDispatch
<1>11. ASSUME EndDispatch, UNCHANGED collectorVars PROVE CycleInvariant'
  <2>1. phase = "Idle"
    BY <1>11 DEF EndDispatch, CycleInvariant, LocksAgree
  <2>2. LocksAgree'
    BY <1>11, <2>1 DEF EndDispatch, CycleInvariant, LocksAgree, AdvanceCalls
  <2> QED
    BY <1>11, <2>1, <2>2, IdleFacts, IdleCycle DEF EndDispatch
<1>12. ASSUME EndDestroySlot, UNCHANGED collectorVars PROVE CycleInvariant'
  <2> DEFINE s == destroying
  <2>1. /\ s \in Slots /\ state[s] = "Destroying"
        /\ call \in {"Barrier", "Sweep"}
        /\ destroying # InvalidIndex /\ destroying' = InvalidIndex /\ call' = call
    BY <1>12 DEF EndDestroySlot, CycleInvariant, LocksAgree, TypeOK
  <2>2. /\ state' = [state EXCEPT ![s] = RecycledState(s)]
        /\ marked' = [marked EXCEPT ![s] = FALSE]
        /\ references' = [references EXCEPT ![s] = {}]
        /\ generation' = [generation EXCEPT ![s] = RecycledGeneration(s)]
    BY <1>12 DEF EndDestroySlot
  <2>3. state'[s] \in {"Vacant", "Retired"}
    BY <2>1, <2>2 DEF TypeOK, RecycledState
  <2>4. \A t \in Slots \ {s} :
            /\ state'[t] = state[t] /\ marked'[t] = marked[t]
            /\ references'[t] = references[t] /\ generation'[t] = generation[t]
    BY <2>2 DEF TypeOK
  <2>5. ~marked'[s] /\ references'[s] = {}
    BY <2>1, <2>2 DEF TypeOK
  <2>6. LocksAgree'
    BY <1>12, <2>1, <2>3, <2>4 DEF EndDestroySlot, CycleInvariant, LocksAgree, AdvanceCalls
  <2>7. MarksMatchPhase'
    BY <1>12, <2>4, <2>5 DEF CycleInvariant, MarksMatchPhase
  <2>8. \A k \in Handles :
            state'[k.index] = "Live" /\ generation'[k.index] = k.generation <=> Resolves(k)
    BY <2>1, <2>3, <2>4 DEF Resolves, Handles
  <2>9. WorklistSound'
    <3>1. ~marked[s]
      BY <2>1 DEF CycleInvariant, MarksMatchPhase
    <3> QED
      <4>1. \A i \in 1..Len(worklist) :
                /\ Resolves(worklist[i])'
                /\ marked[worklist[i].index]'
        <5> TAKE i \in 1..Len(worklist)
        <5>1. Resolves(worklist[i]) /\ marked[worklist[i].index]
          BY DEF CycleInvariant, WorklistSound
        <5>2. worklist[i] \in Handles /\ worklist[i].index \in Slots \ {s}
          BY <3>1, <5>1 DEF Resolves, Handles
        <5>3. worklist'[i] = worklist[i]
          BY <1>12
        <5> QED
          BY <2>4, <2>8, <5>1, <5>2, <5>3 DEF Resolves
      <4> QED
        BY <1>12, <2>1, <4>1 DEF CycleInvariant, WorklistSound
  <2>10. phase \notin {"SeedRoots", "Mark"} /\ phase' = phase
    BY <1>12, <2>1 DEF CycleInvariant, LocksAgree, AdvanceCalls
  <2>11. DiscoveryComplete'
    BY <2>10 DEF DiscoveryComplete
  <2>12. SurvivorsClosed'
    <3>1. LiveSlots' = LiveSlots /\ s \notin LiveSlots
      BY <2>1, <2>3, <2>4 DEF LiveSlots
    <3>2. Survivors' = Survivors
      BY <1>12, <2>4, <3>1 DEF Survivors, LiveSlots
    <3>3. \A r \in RootEntries : roots'[r] \in Handles => roots'[r] = roots[r]
      <4>1. \A r \in RootEntries : roots'[r] = roots[r] \/ roots'[r] = NoHandle
        BY <1>12 DEF EndDestroySlot, RemoveAllRoots
      <4>2. NoHandle \notin Handles
        BY StoreAssumption DEF Handles, NoHandle, InvalidIndex, Slots, StoreAssumption
      <4> QED
        BY <4>1, <4>2
    <3>4. \A t \in Survivors : references'[t] = references[t]
      BY <2>4, <3>1 DEF Survivors, LiveSlots
    <3> QED
      <4>1. CASE phase = "Sweep"
        <5>1. \A r \in RootEntries : Resolves(roots[r])' => roots'[r].index \in Survivors
          BY <2>8, <3>3, <4>1 DEF CycleInvariant, SurvivorsClosed, Resolves
        <5>2. ~rewired => \A t \in Survivors : \A h \in references'[t] :
                Resolves(h)' => h.index \in Survivors
          BY <2>8, <3>4, <4>1 DEF CycleInvariant, SurvivorsClosed, Resolves
        <5> QED
          BY <1>12, <3>2, <5>1, <5>2 DEF SurvivorsClosed
      <4>2. CASE phase # "Sweep"
        BY <2>10, <4>2 DEF SurvivorsClosed
      <4> QED
        BY <4>1, <4>2
  <2> QED
    BY <2>6, <2>7, <2>9, <2>11, <2>12 DEF CycleInvariant
<1>13. ASSUME NEW h \in Handles, RemoveRoot(h), UNCHANGED collectorVars
       PROVE  CycleInvariant'
  <2>1. \A r \in RootEntries : roots'[r] = roots[r] \/ roots'[r] = NoHandle
    BY <1>13 DEF RemoveRoot, TypeOK
  <2>2. ~Resolves(NoHandle)
    BY StoreAssumption DEF Resolves, Handles, NoHandle, InvalidIndex, Slots, StoreAssumption
  <2>3. \A k : Resolves(k)' <=> Resolves(k)
    BY <1>13 DEF RemoveRoot, Resolves
  <2>4. \A r \in RootEntries : Resolves(roots'[r]) => roots'[r] = roots[r]
    BY <2>1, <2>2
  <2>5. UNCHANGED <<state, generation, marked, references, mutationLocked, dispatchLocked,
                    activeCollector, call, destroying>>
    BY <1>13 DEF RemoveRoot
  <2>6. LocksAgree' /\ MarksMatchPhase'
    BY <1>13, <2>5 DEF CycleInvariant, LocksAgree, MarksMatchPhase
  <2>7. WorklistSound'
    BY <1>13, <2>3, <2>5 DEF CycleInvariant, WorklistSound
  <2>8. DiscoveryComplete'
    BY <1>13, <2>3, <2>4, <2>5 DEF CycleInvariant, DiscoveryComplete, LiveSlots, Queued
  <2>9. SurvivorsClosed'
    BY <1>13, <2>3, <2>4, <2>5 DEF CycleInvariant, SurvivorsClosed, Survivors, LiveSlots
  <2> QED
    BY <2>6, <2>7, <2>8, <2>9 DEF CycleInvariant
<1> HIDE DEF collectorVars
<1> QED
  BY <1>1, <1>2, <1>3, <1>4, <1>5, <1>6, <1>7, <1>8, <1>9, <1>10, <1>11, <1>12,
     <1>13 DEF StoreStep

\* Nothing is marked once a cycle is dropped, on cancellation or overflow.
LEMMA ResetCycleInvariant ==
  ASSUME TypeOK, CycleInvariant, ResetCycle, UNCHANGED otherStoreVars,
         call' = "None", visiting' = {}, call \notin {"Construct", "Barrier", "Sweep"}
  PROVE  CycleInvariant'
<1>1. \A s \in Slots : ~marked'[s]
  BY DEF ResetCycle, CycleInvariant, MarksMatchPhase, IsOccupied
<1>2. MarksMatchPhase'
  BY <1>1 DEF MarksMatchPhase
<1>3. LocksAgree'
  BY DEF ResetCycle, CycleInvariant, LocksAgree, AdvanceCalls, otherStoreVars
<1>4. WorklistSound'
  BY DEF ResetCycle, WorklistSound
<1>5. DiscoveryComplete' /\ SurvivorsClosed'
  BY DEF ResetCycle, DiscoveryComplete, SurvivorsClosed
<1> QED
  BY <1>2, <1>3, <1>4, <1>5 DEF CycleInvariant

\* Reporting one handle, from the root table or from a visitor, keeps discovery
\* complete: the cursor passes at most the entry holding it, the visitor drops
\* at most it.
LEMMA DiscoverInvariant ==
  ASSUME TypeOK, CycleInvariant, call \in {"SeedRoots", "Mark"},
         NEW h, NEW cursor \in 0..RootCapacity, NEW rest \in SUBSET Handles,
         \A r \in RootEntries : r < cursor => r < rootCursor \/ roots[r] = h,
         visiting \ {h} \subseteq rest,
         rest # {} => call = "Mark",
         DiscoverReference(h, cursor, rest), UNCHANGED otherStoreVars
  PROVE  CycleInvariant'
<1>1. /\ phase = call /\ activeCollector /\ destroying = InvalidIndex /\ ~dispatchLocked
      /\ WorklistCapacity >= SlotCount
  BY DEF CycleInvariant, LocksAgree, WorklistSound, AdvanceCalls
<1>2. CASE ~IsDiscoverable(h) \/ IsAlreadyProcessed(h)
  <2>1. Resolves(h) => marked[h.index]
    BY <1>1, <1>2 DEF IsDiscoverable, IsAlreadyProcessed, Resolves
  <2>2. UNCHANGED <<marked, activeCollector, phase, worklist, sweepCursor, call>>
        /\ rootCursor' = cursor /\ visiting' = rest
        /\ rewired' = rewired
    BY <1>2 DEF DiscoverReference
  <2>3. LocksAgree' /\ MarksMatchPhase'
    BY <2>2 DEF CycleInvariant, LocksAgree, MarksMatchPhase, otherStoreVars
  <2>4. WorklistSound'
    BY <2>2 DEF CycleInvariant, WorklistSound, Resolves, otherStoreVars
  <2>5. DiscoveryComplete'
    BY <2>1, <2>2 DEF CycleInvariant, DiscoveryComplete, Resolves, LiveSlots, Queued, otherStoreVars
  <2>6. SurvivorsClosed'
    BY <1>1, <2>2 DEF SurvivorsClosed
  <2> QED
    BY <2>3, <2>4, <2>5, <2>6 DEF CycleInvariant
<1>3. CASE /\ IsDiscoverable(h) /\ ~IsAlreadyProcessed(h)
           /\ Len(worklist) >= WorklistCapacity
  <2>1. ResetCycle /\ visiting' = {} /\ call' = "None"
    BY <1>3 DEF DiscoverReference
  <2> QED
    BY <2>1, ResetCycleInvariant
<1>4. CASE /\ IsDiscoverable(h) /\ ~IsAlreadyProcessed(h)
           /\ ~(Len(worklist) >= WorklistCapacity)
  <2>1. /\ marked' = [marked EXCEPT ![h.index] = TRUE]
        /\ worklist' = Append(worklist, h)
        /\ rootCursor' = cursor /\ visiting' = rest
        /\ UNCHANGED <<activeCollector, phase, sweepCursor, rewired, call>>
    BY <1>4 DEF DiscoverReference
  <2>2. h \in Handles /\ h.index \in Slots /\ Resolves(h) /\ ~marked[h.index]
    BY <1>4 DEF IsDiscoverable, IsAlreadyProcessed, Handles
  <2>3. \A s \in Slots : marked'[s] <=> marked[s] \/ s = h.index
    BY <2>1, <2>2 DEF TypeOK
  <2>4. LocksAgree'
    BY <2>1 DEF CycleInvariant, LocksAgree, otherStoreVars
  <2>5. MarksMatchPhase'
    BY <1>1, <2>1, <2>2, <2>3 DEF CycleInvariant, MarksMatchPhase, Resolves, otherStoreVars
  <2>6. /\ Len(worklist) \in Nat /\ Len(worklist') = Len(worklist) + 1
        /\ \A i \in 1..Len(worklist) : worklist'[i] = worklist[i]
        /\ worklist'[Len(worklist) + 1] = h
    BY <2>1, <2>2 DEF TypeOK
  <2>7. \A i \in 1..Len(worklist) :
            /\ Resolves(worklist[i]) /\ marked[worklist[i].index]
            /\ worklist[i].index \in Slots
    BY DEF CycleInvariant, WorklistSound, Resolves, Handles
  <2>8. WorklistSound'
    <3>1. ASSUME NEW i \in 1..Len(worklist')
          PROVE  Resolves(worklist[i])' /\ marked'[worklist'[i].index]
      <4>1. CASE i \in 1..Len(worklist)
        BY <2>3, <2>6, <2>7, <4>1 DEF Resolves, otherStoreVars
      <4>2. CASE i = Len(worklist) + 1
        BY <2>2, <2>3, <2>6, <4>2 DEF Resolves, otherStoreVars
      <4> QED
        BY <2>6, <4>1, <4>2
    <3>2. ASSUME NEW i \in 1..Len(worklist'), NEW j \in 1..Len(worklist'),
                 worklist'[i].index = worklist'[j].index
          PROVE  i = j
      <4>1. CASE i \in 1..Len(worklist) /\ j \in 1..Len(worklist)
        BY <2>6, <3>2, <4>1 DEF CycleInvariant, WorklistSound
      <4>2. CASE i = Len(worklist) + 1 \/ j = Len(worklist) + 1
        BY <2>2, <2>6, <2>7, <3>2, <4>2
      <4> QED
        BY <2>6, <4>1, <4>2
    <3>3. phase' \notin {"Idle", "Sweep"} /\ WorklistCapacity >= SlotCount
      BY <1>1, <2>1
    <3>4. visiting' # {} => call' = "Mark"
      BY <2>1
    <3> QED
      BY <3>1, <3>2, <3>3, <3>4 DEF WorklistSound
  <2>9. \A s \in Slots : Queued(s)' <=> Queued(s) \/ s = h.index
    BY <2>2, <2>6 DEF Queued
  <2>10. DiscoveryComplete'
    <3>1. ASSUME NEW r \in RootEntries, (r < rootCursor \/ phase = "Mark")', Resolves(roots[r])'
          PROVE  marked'[roots'[r].index]
      BY <1>1, <2>1, <2>2, <2>3, <3>1
         DEF CycleInvariant, DiscoveryComplete, Resolves, Handles, otherStoreVars
    <3>2. ASSUME ~rewired', NEW s \in LiveSlots', marked'[s], ~Queued(s)',
                 NEW k \in references'[s], Resolves(k)'
          PROVE  marked'[k.index] \/ k \in visiting'
      <4>1. s \in LiveSlots /\ s # h.index /\ marked[s] /\ ~Queued(s)
        BY <2>3, <2>9, <3>2 DEF LiveSlots, otherStoreVars
      <4>2. k \in references[s] /\ Resolves(k) /\ k.index \in Slots
        BY <3>2 DEF Resolves, Handles, otherStoreVars
      <4>3. marked[k.index] \/ k \in visiting
        BY <1>1, <2>1, <3>2, <4>1, <4>2 DEF CycleInvariant, DiscoveryComplete
      <4> QED
        BY <2>1, <2>3, <4>2, <4>3
    <3>3. sweepCursor' = 0
      BY <1>1, <2>1 DEF CycleInvariant, DiscoveryComplete
    <3> QED
      BY <3>1, <3>2, <3>3 DEF DiscoveryComplete
  <2>11. SurvivorsClosed'
    BY <1>1, <2>1 DEF SurvivorsClosed
  <2> QED
    BY <2>4, <2>5, <2>8, <2>10, <2>11 DEF CycleInvariant
<1> QED
  BY <1>2, <1>3, <1>4

\* An assignment to the traced fields of a live object: between cycles it is nothing
\* to the collector, in a cycle it only drops references or is remembered.
LEMMA MutatorCycle ==
  ASSUME TypeOK, CycleInvariant, MutatorStep PROVE CycleInvariant'
<1>1. PICK s \in Slots, targets \in SUBSET Handles :
        /\ SetReferences(s, targets)
        /\ rewired' = (rewired \/ (phase # "Idle" /\ ~(targets \subseteq references[s])))
        /\ UNCHANGED <<phase, rootCursor, worklist, sweepCursor, visiting>>
  BY DEF MutatorStep
<1>2. UNCHANGED <<state, generation, marked, roots, mutationLocked, dispatchLocked,
                  activeCollector, call, destroying, phase, rootCursor, worklist, sweepCursor,
                  visiting>>
  BY <1>1 DEF SetReferences
<1>3. \A k : Resolves(k)' <=> Resolves(k)
  BY <1>2 DEF Resolves
<1>4. rewired' => phase # "Idle"
  BY <1>1 DEF CycleInvariant, LocksAgree
<1>5. LocksAgree'
  BY <1>2, <1>4 DEF CycleInvariant, LocksAgree
<1>6. MarksMatchPhase' /\ WorklistSound'
  BY <1>2, <1>3 DEF CycleInvariant, MarksMatchPhase, WorklistSound
<1>7. ASSUME phase # "Idle", ~rewired'
      PROVE  ~rewired /\ \A t \in Slots : references'[t] \subseteq references[t]
  <2>1. ~rewired /\ targets \subseteq references[s]
    BY <1>1, <1>7
  <2>2. \A t \in Slots : references'[t] = IF t = s THEN targets ELSE references[t]
    BY <1>1 DEF SetReferences, TypeOK
  <2> QED
    BY <2>1, <2>2
<1>8. DiscoveryComplete'
  <2> SUFFICES ASSUME phase \in {"SeedRoots", "Mark"} PROVE DiscoveryComplete'
    BY <1>2 DEF DiscoveryComplete
  <2>1. /\ sweepCursor' = 0
        /\ \A r \in RootEntries : ((r < rootCursor \/ phase = "Mark") /\ Resolves(roots[r]))'
                => marked'[roots'[r].index]
    BY <1>2, <1>3 DEF CycleInvariant, DiscoveryComplete
  <2>2. ASSUME ~rewired', NEW t \in LiveSlots', marked'[t], ~Queued(t)',
               NEW h \in references'[t], Resolves(h)'
        PROVE  marked'[h.index] \/ h \in visiting'
    <3>1. t \in LiveSlots /\ t \in Slots /\ marked[t] /\ ~Queued(t) /\ Resolves(h)
      BY <1>2, <1>3, <2>2 DEF LiveSlots, Queued
    <3>2. ~rewired /\ h \in references[t]
      BY <1>7, <2>2, <3>1
    <3>3. marked[h.index] \/ h \in visiting
      BY <3>1, <3>2 DEF CycleInvariant, DiscoveryComplete
    <3> QED
      BY <1>2, <3>3
  <2> QED
    BY <2>1, <2>2 DEF DiscoveryComplete
<1>9. SurvivorsClosed'
  <2> SUFFICES ASSUME phase = "Sweep" PROVE SurvivorsClosed'
    BY <1>2 DEF SurvivorsClosed
  <2>1. Survivors' = Survivors
    BY <1>2 DEF Survivors, LiveSlots, Slots
  <2>2. \A r \in RootEntries : Resolves(roots[r])' => roots'[r].index \in Survivors'
    BY <1>2, <1>3, <2>1 DEF CycleInvariant, SurvivorsClosed
  <2>3. ASSUME ~rewired', NEW t \in Survivors', NEW h \in references'[t], Resolves(h)'
        PROVE  h.index \in Survivors'
    <3>1. t \in Survivors /\ t \in Slots /\ Resolves(h)
      BY <1>3, <2>1, <2>3 DEF Survivors, LiveSlots
    <3>2. ~rewired /\ h \in references[t]
      BY <1>7, <2>3, <3>1
    <3> QED
      BY <2>1, <3>1, <3>2 DEF CycleInvariant, SurvivorsClosed
  <2> QED
    BY <2>2, <2>3 DEF SurvivorsClosed
<1> QED
  BY <1>5, <1>6, <1>8, <1>9 DEF CycleInvariant

\* Starting, suspending, resuming and cancelling a cycle.
LEMMA ControlCycle ==
  ASSUME TypeOK, CycleInvariant,
         \/ MutatorStep \/ RequestCollection \/ BeginAdvance
         \/ ReturnFromAdvance \/ CancelCollection
  PROVE  CycleInvariant'
<1>1. CASE MutatorStep
  BY <1>1, MutatorCycle
<1>2. CASE RequestCollection
  <2>0. call = "None"
    BY <1>2, IdleFacts DEF RequestCollection, InUserCode, CycleInvariant, LocksAgree, AdvanceCalls
  <2>1. /\ call = "None" /\ phase = "Idle" /\ ~mutationLocked /\ ~dispatchLocked
        /\ WorklistCapacity >= SlotCount
        /\ activeCollector' = TRUE /\ phase' = "SeedRoots" /\ rootCursor' = 0
        /\ worklist' = <<>> /\ sweepCursor' = 0
        /\ UNCHANGED <<otherStoreVars, marked, call, visiting, rewired>>
    BY <1>2, <2>0 DEF RequestCollection
  <2>2. visiting = {} /\ \A s \in Slots : ~marked[s]
    BY <2>1, IdleFacts
  <2>3. LocksAgree'
    BY <2>1 DEF CycleInvariant, LocksAgree, AdvanceCalls, otherStoreVars
  <2>4. MarksMatchPhase' /\ WorklistSound'
    BY <2>1, <2>2 DEF MarksMatchPhase, WorklistSound
  <2>5. DiscoveryComplete'
    BY <2>1, <2>2 DEF DiscoveryComplete, LiveSlots, RootEntries, otherStoreVars
  <2>6. SurvivorsClosed'
    BY <2>1 DEF SurvivorsClosed
  <2> QED
    BY <2>3, <2>4, <2>5, <2>6 DEF CycleInvariant
<1>3. CASE BeginAdvance \/ ReturnFromAdvance
  <2>1. /\ UNCHANGED <<otherStoreVars, marked, activeCollector, collectorVars>>
        /\ visiting = {}
    BY <1>3 DEF BeginAdvance, ReturnFromAdvance, CycleInvariant, WorklistSound, AdvanceCalls
  <2>2. LocksAgree'
    BY <1>3, <2>1 DEF BeginAdvance, ReturnFromAdvance, HasWorkLeft, CycleInvariant, LocksAgree,
                     AdvanceCalls, TypeOK, Phases, otherStoreVars, collectorVars
  <2>3. MarksMatchPhase' /\ WorklistSound'
    BY <2>1 DEF CycleInvariant, MarksMatchPhase, WorklistSound, Resolves, otherStoreVars,
                collectorVars
  <2>4. DiscoveryComplete'
    BY <2>1 DEF CycleInvariant, DiscoveryComplete, Resolves, LiveSlots, Queued, otherStoreVars,
                collectorVars
  <2>5. SurvivorsClosed'
    BY <2>1 DEF CycleInvariant, SurvivorsClosed, Survivors, LiveSlots, Resolves,
                otherStoreVars, collectorVars
  <2> QED
    BY <2>2, <2>3, <2>4, <2>5 DEF CycleInvariant
<1>4. CASE CancelCollection
  <2>1. /\ ResetCycle /\ UNCHANGED otherStoreVars /\ call = "None" /\ call' = "None"
        /\ visiting' = visiting
    BY <1>4 DEF CancelCollection
  <2>2. visiting = {}
    BY <2>1 DEF CycleInvariant, WorklistSound
  <2> QED
    BY <2>1, <2>2, ResetCycleInvariant
<1> QED
  BY <1>1, <1>2, <1>3, <1>4

\* Root seeding and marking.
LEMMA MarkCycle ==
  ASSUME TypeOK, CycleInvariant,
         SeedRoot \/ EndSeedRoots \/ PopWorklist \/ ReportReference \/ EndMark
  PROVE  CycleInvariant'
<1>1. CASE SeedRoot
  <2>1. /\ call = "SeedRoots" /\ rootCursor < RootCapacity
        /\ DiscoverReference(roots[rootCursor], rootCursor + 1, {})
        /\ UNCHANGED otherStoreVars
    BY <1>1 DEF SeedRoot
  <2>2. rootCursor \in RootEntries /\ rootCursor + 1 \in 0..RootCapacity
    BY <2>1, StoreAssumption DEF TypeOK, RootEntries, StoreAssumption
  <2>3. \A r \in RootEntries : r < rootCursor + 1 => r < rootCursor \/ roots[r] = roots[rootCursor]
    BY <2>2 DEF RootEntries
  <2>4. visiting = {}
    BY <2>1 DEF CycleInvariant, WorklistSound
  <2> QED
    BY <2>1, <2>2, <2>3, <2>4, DiscoverInvariant
<1>2. CASE EndSeedRoots
  <2>1. /\ call = "SeedRoots" /\ rootCursor >= RootCapacity
        /\ phase' = "Mark" /\ call' = "Mark"
        /\ UNCHANGED <<otherStoreVars, marked, activeCollector, rootCursor, worklist,
                       sweepCursor, visiting, rewired>>
    BY <1>2 DEF EndSeedRoots
  <2>2. phase = "SeedRoots" /\ destroying = InvalidIndex /\ ~dispatchLocked /\ visiting = {}
    BY <2>1 DEF CycleInvariant, LocksAgree, WorklistSound, AdvanceCalls
  <2>3. LocksAgree'
    BY <2>1, <2>2 DEF CycleInvariant, LocksAgree, AdvanceCalls, otherStoreVars
  <2>4. MarksMatchPhase' /\ WorklistSound'
    BY <2>1, <2>2 DEF CycleInvariant, MarksMatchPhase, WorklistSound, Resolves, otherStoreVars
  <2>5. \A r \in RootEntries : r < rootCursor
    BY <2>1, StoreAssumption DEF TypeOK, RootEntries, StoreAssumption
  <2>6. DiscoveryComplete'
    BY <2>1, <2>2, <2>5
       DEF CycleInvariant, DiscoveryComplete, Resolves, LiveSlots, Queued, otherStoreVars
  <2>7. SurvivorsClosed'
    BY <2>1 DEF SurvivorsClosed
  <2> QED
    BY <2>3, <2>4, <2>6, <2>7 DEF CycleInvariant
<1>3. CASE PopWorklist
  <2> DEFINE n == Len(worklist)
             h == worklist[n]
  <2>1. /\ call = "Mark" /\ visiting = {} /\ worklist # <<>>
        /\ visiting' = IF Resolves(h) THEN references[h.index] ELSE {}
        /\ worklist' = SubSeq(worklist, 1, n - 1)
        /\ UNCHANGED <<otherStoreVars, marked, activeCollector, call, phase, rootCursor,
                       sweepCursor, rewired>>
    BY <1>3 DEF PopWorklist
  <2>2. phase = "Mark" /\ WorklistCapacity >= SlotCount
    BY <2>1 DEF CycleInvariant, LocksAgree, WorklistSound, AdvanceCalls
  <2>3. /\ n \in Nat \ {0} /\ Len(worklist') = n - 1
        /\ \A i \in 1..(n - 1) : worklist'[i] = worklist[i]
    <3>1. worklist \in Seq(Handles) /\ worklist # <<>>
      BY <2>1 DEF TypeOK
    <3>2. n \in Nat \ {0}
      BY <3>1
    <3>3. worklist' = SubSeq(worklist, 1, n - 1)
      BY <2>1
    <3>4. \A i \in 1..(n - 1) : worklist[i] \in Handles
      BY <3>1, <3>2
    <3> HIDE DEF n
    <3>5. /\ Len(worklist') = n - 1
          /\ \A i \in 1..(n - 1) : worklist'[i] = worklist[i]
      BY <3>2, <3>3, <3>4, SubSeqProperties
    <3> QED
      BY <3>2, <3>5
  <2>4. \A i \in 1..n : Resolves(worklist[i]) /\ marked[worklist[i].index]
    BY DEF CycleInvariant, WorklistSound
  <2>5. LocksAgree' /\ MarksMatchPhase'
    BY <2>1 DEF CycleInvariant, LocksAgree, MarksMatchPhase, otherStoreVars
  <2>6. WorklistSound'
    <3>1. \A i \in 1..Len(worklist') : i \in 1..n /\ worklist'[i] = worklist[i]
      BY <2>3
    <3>2. \A i \in 1..Len(worklist') : Resolves(worklist[i])' /\ marked'[worklist'[i].index]
      BY <2>1, <2>4, <3>1 DEF Resolves, otherStoreVars
    <3>3. \A i, j \in 1..Len(worklist') :
            worklist'[i].index = worklist'[j].index => i = j
      BY <3>1 DEF CycleInvariant, WorklistSound
    <3> QED
      BY <2>1, <2>2, <3>2, <3>3 DEF WorklistSound
  <2>7. DiscoveryComplete'
    <3>1. ASSUME ~rewired, NEW s \in LiveSlots, marked[s], ~Queued(s)',
                 NEW k \in references[s], Resolves(k)
          PROVE  marked[k.index] \/ k \in visiting'
      <4>1. CASE s = h.index
        BY <2>1, <2>3, <2>4, <4>1
      <4>2. CASE s # h.index
        <5>1. ~Queued(s)
          BY <2>3, <3>1, <4>2 DEF Queued
        <5> QED
          BY <2>1, <2>2, <3>1, <5>1 DEF CycleInvariant, DiscoveryComplete
      <4> QED
        BY <4>1, <4>2
    <3>2. \A r \in RootEntries : Resolves(roots[r]) => marked[roots[r].index]
      BY <2>2 DEF CycleInvariant, DiscoveryComplete
    <3>3. sweepCursor = 0
      BY <2>2 DEF CycleInvariant, DiscoveryComplete
    <3> QED
      BY <2>1, <3>1, <3>2, <3>3 DEF DiscoveryComplete, Resolves, LiveSlots, otherStoreVars
  <2>8. SurvivorsClosed'
    BY <2>1, <2>2 DEF SurvivorsClosed
  <2> QED
    BY <2>5, <2>6, <2>7, <2>8 DEF CycleInvariant
<1>4. CASE ReportReference
  <2>1. PICK h \in visiting : DiscoverReference(h, rootCursor, visiting \ {h})
    BY <1>4 DEF ReportReference
  <2>2. call = "Mark" /\ UNCHANGED otherStoreVars
    BY <1>4 DEF ReportReference
  <2>3. rootCursor \in 0..RootCapacity /\ visiting \ {h} \in SUBSET Handles
    BY DEF TypeOK
  <2> QED
    BY <2>1, <2>2, <2>3, DiscoverInvariant
<1>5. CASE EndMark
  <2>1. /\ call = "Mark" /\ visiting = {} /\ worklist = <<>>
        /\ phase' = "Sweep" /\ call' = "Sweep"
        /\ UNCHANGED <<otherStoreVars, marked, activeCollector, rootCursor, worklist,
                       sweepCursor, visiting, rewired>>
    BY <1>5 DEF EndMark
  <2>2. /\ phase = "Mark" /\ destroying = InvalidIndex /\ ~dispatchLocked
        /\ WorklistCapacity >= SlotCount /\ sweepCursor = 0
    BY <2>1 DEF CycleInvariant, LocksAgree, WorklistSound, DiscoveryComplete, AdvanceCalls
  <2>3. LocksAgree'
    BY <2>1, <2>2 DEF CycleInvariant, LocksAgree, AdvanceCalls, otherStoreVars
  <2>4. MarksMatchPhase'
    BY <2>1, <2>2, StoreAssumption
       DEF CycleInvariant, MarksMatchPhase, Slots, StoreAssumption, otherStoreVars
  <2>5. WorklistSound' /\ DiscoveryComplete'
    BY <2>1, <2>2 DEF WorklistSound, DiscoveryComplete
  <2>6. SurvivorsClosed'
    <3>1. Survivors' = {s \in LiveSlots : marked[s]}
      BY <2>1, <2>2, StoreAssumption
         DEF Survivors, LiveSlots, Slots, StoreAssumption, otherStoreVars
    <3>2. \A r \in RootEntries :
            Resolves(roots[r]) => roots[r].index \in LiveSlots /\ marked[roots[r].index]
      BY <2>2 DEF CycleInvariant, DiscoveryComplete, Resolves, LiveSlots, Handles
    <3>3. ~rewired => \A s \in LiveSlots : marked[s] => \A h \in references[s] :
            Resolves(h) => h.index \in LiveSlots /\ marked[h.index]
      BY <2>1, <2>2
         DEF CycleInvariant, DiscoveryComplete, Queued, Resolves, LiveSlots, Handles
    <3> QED
      BY <2>1, <3>1, <3>2, <3>3 DEF SurvivorsClosed, Resolves, otherStoreVars
  <2> QED
    BY <2>3, <2>4, <2>5, <2>6 DEF CycleInvariant
<1> QED
  BY <1>1, <1>2, <1>3, <1>4, <1>5

\* The sweep: what it has kept and what it will keep stay the same set.
LEMMA SweepCycle ==
  ASSUME TypeOK, CycleInvariant, SweepSlot \/ EndSweep
  PROVE  CycleInvariant'
<1>1. CASE SweepSlot
  <2> DEFINE s == sweepCursor
  <2>1. /\ call = "Sweep" /\ destroying = InvalidIndex /\ s < SlotCount /\ sweepCursor' = s + 1
        /\ UNCHANGED <<generation, references, roots, dispatchLocked, activeCollector, call,
                       phase, rootCursor, worklist, visiting, rewired>>
    BY <1>1 DEF SweepSlot
  <2>2. /\ phase = "Sweep" /\ worklist = <<>> /\ visiting = {} /\ ~dispatchLocked
        /\ WorklistCapacity >= SlotCount
    BY <2>1 DEF CycleInvariant, LocksAgree, WorklistSound, AdvanceCalls
  <2>3. s \in Slots /\ s # InvalidIndex /\ s \in Nat
    BY <2>1, StoreAssumption DEF TypeOK, Slots, InvalidIndex, StoreAssumption
  <2>4. WorklistSound' /\ DiscoveryComplete'
    BY <2>1, <2>2 DEF WorklistSound, DiscoveryComplete
  <2>5. \A t \in Slots : t < s + 1 <=> t < s \/ t = s
    BY <2>3, StoreAssumption DEF Slots, StoreAssumption
  <2>6. \A t \in Slots : state[t] \notin {"Destroying", "Constructing"}
    BY <2>1, <2>2, StoreAssumption
       DEF CycleInvariant, LocksAgree, Slots, InvalidIndex, StoreAssumption
  <2>7. \A t \in Slots : marked[t] => state[t] = "Live" /\ t >= s
    BY <2>2 DEF CycleInvariant, MarksMatchPhase
  <2>8. \A t \in Slots : t >= s /\ t # s => t >= s + 1
    BY <2>3, StoreAssumption DEF Slots, StoreAssumption
  <2>9. CASE state[s] = "Live" /\ ~marked[s]
    <3>1. /\ state' = [state EXCEPT ![s] = "Destroying"] /\ destroying' = s
          /\ mutationLocked' = TRUE /\ marked' = marked
      BY <1>1, <2>9 DEF SweepSlot, BeginDestroySlot
    <3>2. \A t \in Slots : state'[t] = IF t = s THEN "Destroying" ELSE state[t]
      BY <3>1 DEF TypeOK
    <3>3. LocksAgree'
      <4>1. destroying' < sweepCursor'
        BY <2>1, <2>3, <3>1
      <4> QED
        BY <2>1, <2>2, <2>3, <2>6, <3>1, <3>2, <4>1
           DEF CycleInvariant, LocksAgree, AdvanceCalls
    <3>4. MarksMatchPhase'
      BY <2>1, <2>2, <2>7, <2>8, <2>9, <3>1, <3>2 DEF MarksMatchPhase
    <3>5. SurvivorsClosed'
      <4>1. s \notin Survivors
        BY <2>3, <2>9 DEF Survivors
      <4>2. Survivors' = Survivors
        <5>1. Survivors' = {t \in Slots : state'[t] = "Live" /\ (marked'[t] \/ t < sweepCursor')}
          BY DEF Survivors, LiveSlots
        <5>2. Survivors = {t \in Slots : state[t] = "Live" /\ (marked[t] \/ t < s)}
          BY DEF Survivors, LiveSlots
        <5>3. \A t \in Slots : t < sweepCursor' <=> t < s \/ t = s
          BY <2>1, <2>5
        <5>4. s \notin Survivors' /\ \A t \in Slots \ {s} : state'[t] = state[t]
          BY <2>3, <3>2, <5>1
        <5> QED
          BY <3>1, <4>1, <5>1, <5>2, <5>3, <5>4
      <4>3. \A h : Resolves(h)' => Resolves(h)
        BY <2>1, <3>2 DEF Resolves, Handles
      <4> QED
        BY <2>1, <2>2, <4>2, <4>3 DEF CycleInvariant, SurvivorsClosed
    <3> QED
      BY <2>4, <3>3, <3>4, <3>5 DEF CycleInvariant
  <2>10. CASE ~(state[s] = "Live" /\ ~marked[s])
    <3>1. UNCHANGED <<state, destroying, mutationLocked>>
      BY <1>1, <2>10 DEF SweepSlot
    <3>2. \A t \in Slots : marked'[t] <=> marked[t] /\ t # s
      <4>1. CASE state[s] = "Live" /\ marked[s]
        BY <1>1, <2>3, <4>1 DEF SweepSlot, TypeOK
      <4>2. CASE state[s] # "Live"
        BY <1>1, <2>3, <2>7, <4>2 DEF SweepSlot
      <4> QED
        BY <2>10, <4>1, <4>2
    <3>3. LocksAgree'
      BY <2>1, <3>1 DEF CycleInvariant, LocksAgree
    <3>4. MarksMatchPhase'
      BY <2>1, <2>2, <2>7, <2>8, <3>1, <3>2 DEF MarksMatchPhase
    <3>5. SurvivorsClosed'
      <4>1. Survivors' = Survivors
        BY <2>1, <2>5, <2>10, <3>1, <3>2 DEF Survivors, LiveSlots
      <4> QED
        BY <2>1, <2>2, <3>1, <4>1 DEF CycleInvariant, SurvivorsClosed, Resolves
    <3> QED
      BY <2>4, <3>3, <3>4, <3>5 DEF CycleInvariant
  <2> QED
    BY <2>9, <2>10
<1>2. CASE EndSweep
  <2>1. /\ call = "Sweep" /\ destroying = InvalidIndex /\ sweepCursor >= SlotCount
        /\ phase' = "Idle" /\ activeCollector' = FALSE /\ worklist' = <<>> /\ call' = "None"
        /\ rewired' = FALSE
        /\ UNCHANGED <<otherStoreVars, marked, visiting>>
    BY <1>2 DEF EndSweep
  <2>2. phase = "Sweep" /\ visiting = {} /\ ~dispatchLocked
    BY <2>1 DEF CycleInvariant, LocksAgree, WorklistSound, AdvanceCalls
  <2>3. \A t \in Slots : ~(t >= sweepCursor)
    BY <2>1, StoreAssumption DEF Slots, TypeOK, StoreAssumption
  <2>4. LocksAgree'
    BY <2>1, <2>2 DEF CycleInvariant, LocksAgree, AdvanceCalls, otherStoreVars
  <2>5. MarksMatchPhase'
    BY <2>1, <2>2, <2>3 DEF CycleInvariant, MarksMatchPhase
  <2>6. WorklistSound' /\ DiscoveryComplete' /\ SurvivorsClosed'
    BY <2>1, <2>2 DEF WorklistSound, DiscoveryComplete, SurvivorsClosed
  <2> QED
    BY <2>4, <2>5, <2>6 DEF CycleInvariant
<1> QED
  BY <1>1, <1>2

\* A step that changes nothing keeps the invariant.
LEMMA StutterCycle == CycleInvariant /\ UNCHANGED vars => CycleInvariant'
BY DEF CycleInvariant, LocksAgree, MarksMatchPhase, WorklistSound, DiscoveryComplete,
       SurvivorsClosed, Survivors, LiveSlots, Queued, Resolves, vars, storeVars, collectorVars

\* The tri-colour invariant holds in every state of the store and its
\* collector, suspended or running (GarbageCollector.cpp:146-309, 376-428).
THEOREM CycleCorrect == Spec => []CycleInvariant
<1>1. TypeOK /\ CycleInvariant /\ [Next]_vars => CycleInvariant'
  BY StoreStepCycle, ControlCycle, MarkCycle, SweepCycle, StutterCycle
     DEF Next, CollectorStep
<1> QED
  BY InitCycle, <1>1, TypeCorrect, PTL DEF Spec

\* n different entries of the slot table, none of them s, are fewer than the table.
LEMMA DistinctSlotsBounded ==
  ASSUME NEW s \in Slots, NEW n \in Nat, NEW f \in [1..n -> Slots \ {s}],
         \A i, j \in 1..n : f[i] = f[j] => i = j
  PROVE  n < SlotCount
<1>1. IsFiniteSet(Slots) /\ Cardinality(Slots) = SlotCount
  BY FS_Interval, StoreAssumption DEF Slots, StoreAssumption
<1>2. IsFiniteSet(Slots \ {s}) /\ Cardinality(Slots \ {s}) = SlotCount - 1
  BY <1>1, FS_RemoveElement
<1>3. IsFiniteSet(1..n) /\ Cardinality(1..n) = n
  BY FS_Interval
<1> SUFFICES ASSUME SlotCount <= n PROVE FALSE
  BY StoreAssumption DEF StoreAssumption
<1>4. Cardinality(Slots \ {s}) < Cardinality(1..n)
  BY <1>2, <1>3, StoreAssumption DEF StoreAssumption
<1> QED
  BY <1>2, <1>3, <1>4, FS_PigeonHole

\* The worklist of a running cycle never overflows (GarbageCollector.cpp:131-138,
\* 387-394): it holds different marked slots, and the one to add is not marked.
THEOREM WorklistNeverOverflows == Spec => []WorklistHasRoom
<1>1. TypeOK /\ CycleInvariant => WorklistHasRoom
  <2> SUFFICES ASSUME TypeOK, CycleInvariant, phase \in {"SeedRoots", "Mark"},
                      NEW s \in LiveSlots, ~marked[s]
               PROVE  Len(worklist) < WorklistCapacity
    BY DEF WorklistHasRoom
  <2> DEFINE n == Len(worklist)
             f == [i \in 1..n |-> worklist[i].index]
  <2>1. s \in Slots /\ n \in Nat
    BY DEF LiveSlots, TypeOK
  <2>2. f \in [1..n -> Slots \ {s}]
    BY DEF CycleInvariant, WorklistSound, Resolves, Handles
  <2>3. \A i, j \in 1..n : f[i] = f[j] => i = j
    BY DEF CycleInvariant, WorklistSound
  <2> HIDE DEF n, f
  <2>4. n < SlotCount
    BY <2>1, <2>2, <2>3, DistinctSlotsBounded
  <2>5. WorklistCapacity >= SlotCount
    BY DEF CycleInvariant, WorklistSound
  <2> QED
    BY <2>1, <2>4, <2>5, StoreAssumption, CollectorAssumption
       DEF n, StoreAssumption, CollectorAssumption
<1> QED
  BY <1>1, TypeCorrect, CycleCorrect, PTL

----------------------------------------------------------------------------
(* Safety of the slots and the root table.                                 *)

\* Outside the sweep a collector step leaves slots, generations and roots alone.
LEMMA CollectorLeavesSlots ==
  ASSUME TypeOK, CycleInvariant,
         \/ RequestCollection \/ BeginAdvance \/ ReturnFromAdvance \/ CancelCollection
         \/ SeedRoot \/ EndSeedRoots \/ PopWorklist \/ ReportReference \/ EndMark
         \/ EndSweep \/ MutatorStep
  PROVE  /\ UNCHANGED <<state, generation, roots, pendingDestroyCount, destroying,
                        dispatchLocked>>
         /\ call = "Barrier" <=> call' = "Barrier"
<1>1. CASE \/ RequestCollection \/ CancelCollection \/ EndSeedRoots \/ PopWorklist
           \/ EndMark \/ EndSweep
  BY <1>1 DEF RequestCollection, CancelCollection, EndSeedRoots, PopWorklist, EndMark,
     EndSweep, otherStoreVars, ResetCycle
<1>2. CASE BeginAdvance \/ ReturnFromAdvance
  <2>1. BeginAdvance => call # "Barrier"
    BY DEF BeginAdvance, CycleInvariant, LocksAgree
  <2> QED
    BY <1>2, <2>1 DEF TypeOK, Phases, BeginAdvance, ReturnFromAdvance, HasWorkLeft, otherStoreVars
<1>3. CASE SeedRoot \/ ReportReference
  BY <1>3 DEF SeedRoot, ReportReference, otherStoreVars, DiscoverReference, ResetCycle
<1>4. CASE MutatorStep
  BY <1>4 DEF MutatorStep, SetReferences
<1> QED
  BY <1>1, <1>2, <1>3, <1>4

----------------------------------------------------------------------------
(* Root tokens.                                                            *)

Occupied == {"Live", "PendingDestroy", "Destroying"}

\* A step that keeps the root table and the occupants it names keeps the tokens valid.
LEMMA RootsKept ==
  ASSUME TypeOK, RootsNameOccupants, roots' = roots,
         \A s \in Slots : state[s] \in Occupied =>
            state'[s] \in Occupied /\ generation'[s] = generation[s]
  PROVE  RootsNameOccupants'
<1> SUFFICES ASSUME NEW r \in RootEntries, roots[r] # NoHandle
             PROVE  /\ roots[r] = [index |-> roots[r].index,
                                   generation |-> generation'[roots[r].index]]
                    /\ state'[roots[r].index] \in Occupied
  BY DEF RootsNameOccupants, HandleOf, Occupied
<1>1. roots[r].index \in Slots
  BY DEF TypeOK, Handles
<1> QED
  BY <1>1 DEF RootsNameOccupants, HandleOf, Occupied

\* A store step that fills or frees no occupied slot.
LEMMA StoreStepRoots ==
  ASSUME TypeOK, CycleInvariant, RootsNameOccupants, StoreStep
  PROVE  RootsNameOccupants'
<1>1. CASE \/ BeginConstruction \/ EndApplyPendingDestroy \/ BeginDispatch \/ EndDispatch
           \/ \E budget \in 1..SlotCount : BeginApplyPendingDestroy(budget)
  BY <1>1, RootsKept DEF BeginConstruction, EndApplyPendingDestroy, BeginDispatch,
     EndDispatch, BeginApplyPendingDestroy
<1>2. CASE Reserve
  BY <1>2, RootsKept DEF Reserve, Occupied, TypeOK
<1>3. CASE Commit
  BY <1>3, RootsKept DEF Commit, Reserved, Occupied, TypeOK
<1>4. CASE RollbackConstruction
  BY <1>4, RootsKept DEF RollbackConstruction, Reserved, Occupied, TypeOK
<1>5. ASSUME NEW h \in Handles, MarkPendingDestroy(h) PROVE RootsNameOccupants'
  BY <1>5, RootsKept DEF MarkPendingDestroy, Occupied, TypeOK
<1>6. CASE VisitPendingSlot
  BY <1>6, RootsKept DEF VisitPendingSlot, BeginDestroySlot, Occupied, TypeOK
<1>7. CASE EndDestroySlot
  <2> DEFINE s == destroying
  <2>1. s \in Slots
    BY <1>7 DEF EndDestroySlot, TypeOK
  <2> SUFFICES ASSUME NEW r \in RootEntries, roots'[r] # NoHandle
               PROVE  /\ roots'[r] = [index |-> roots'[r].index,
                                      generation |-> generation'[roots'[r].index]]
                      /\ state'[roots'[r].index] \in Occupied
    BY DEF RootsNameOccupants, HandleOf, Occupied
  <2>2. roots'[r] = roots[r] /\ roots[r] # HandleOf(s) /\ roots[r] # NoHandle
    BY <1>7 DEF EndDestroySlot, RemoveAllRoots
  <2>3. roots[r] \in Handles
    BY <2>2 DEF TypeOK
  <2>4. roots[r] = HandleOf(roots[r].index) /\ state[roots[r].index] \in Occupied
    BY <2>2 DEF RootsNameOccupants, Occupied
  <2>5. roots[r].index # s /\ roots[r].index \in Slots
    BY <2>2, <2>3, <2>4 DEF Handles
  <2>6. state'[roots[r].index] = state[roots[r].index]
        /\ generation'[roots[r].index] = generation[roots[r].index]
    BY <1>7, <2>1, <2>5 DEF EndDestroySlot, TypeOK
  <2> QED
    BY <2>2, <2>4, <2>6 DEF HandleOf
<1>8. ASSUME NEW h \in Handles, AddRoot(h) PROVE RootsNameOccupants'
  <2> SUFFICES ASSUME NEW r \in RootEntries, roots'[r] # NoHandle
               PROVE  /\ roots'[r] = [index |-> roots'[r].index,
                                      generation |-> generation'[roots'[r].index]]
                      /\ state'[roots'[r].index] \in Occupied
    BY DEF RootsNameOccupants, HandleOf, Occupied
  <2>1. state' = state /\ generation' = generation
    BY <1>8 DEF AddRoot
  <2>2. roots'[r] = roots[r] \/ roots'[r] = h
    BY <1>8 DEF AddRoot, TypeOK
  <2>3. h = HandleOf(h.index) /\ state[h.index] \in Occupied
    BY <1>8 DEF AddRoot, Resolves, HandleOf, Handles, Occupied
  <2> QED
    BY <2>1, <2>2, <2>3 DEF RootsNameOccupants, HandleOf, Occupied
<1>9. ASSUME NEW h \in Handles, RemoveRoot(h) PROVE RootsNameOccupants'
  <2> SUFFICES ASSUME NEW r \in RootEntries, roots'[r] # NoHandle
               PROVE  /\ roots'[r] = [index |-> roots'[r].index,
                                      generation |-> generation'[roots'[r].index]]
                      /\ state'[roots'[r].index] \in Occupied
    BY DEF RootsNameOccupants, HandleOf, Occupied
  <2>1. state' = state /\ generation' = generation /\ roots'[r] = roots[r]
    BY <1>9 DEF RemoveRoot, TypeOK
  <2> QED
    BY <2>1 DEF RootsNameOccupants, HandleOf, Occupied
<1> QED
  BY <1>1, <1>2, <1>3, <1>4, <1>5, <1>6, <1>7, <1>8, <1>9 DEF StoreStep

\* Every root token names the present occupant of its slot, whatever the
\* capacities and however collections are cut (ObjectStore.cpp:428-437, 508-521).
THEOREM RootsSound == Spec => []RootsNameOccupants
<1>1. Init => RootsNameOccupants
  BY DEF Init, StoreInit, RootsNameOccupants
<1>2. TypeOK /\ CycleInvariant /\ RootsNameOccupants /\ [Next]_vars => RootsNameOccupants'
  <2> SUFFICES ASSUME TypeOK, CycleInvariant, RootsNameOccupants, [Next]_vars
               PROVE  RootsNameOccupants'
    OBVIOUS
  <2>1. CASE SweepSlot
    BY <2>1, RootsKept DEF SweepSlot, BeginDestroySlot, Occupied, TypeOK, Slots
  <2>2. CASE UNCHANGED vars
    BY <2>2, RootsKept DEF vars, storeVars
  <2> QED
    BY <2>1, <2>2, StoreStepRoots, CollectorLeavesSlots, RootsKept DEF Next, CollectorStep
<1> QED
  BY <1>1, <1>2, TypeCorrect, CycleCorrect, PTL DEF Spec

----------------------------------------------------------------------------
(* Callback dispatch.                                                      *)

\* What may happen while a callback runs, whoever asks for it: the construction or the
\* destruction on the stack goes on, or the store stays as it is.
LEMMA CallbackSteps ==
  ASSUME TypeOK, CycleInvariant, Next,
         dispatchLocked \/ call = "Construct" \/ destroying # InvalidIndex
  PROVE  \/ Frozen
         \/ call = "Construct" /\ (Reserve \/ Commit \/ RollbackConstruction)
         \/ destroying # InvalidIndex /\ EndDestroySlot
<1>1. IsMutationLocked /\ (mutationLocked \/ dispatchLocked)
  BY DEF CycleInvariant, LocksAgree, IsMutationLocked
<1>2. /\ dispatchLocked => call = "None" /\ phase = "Idle" /\ destroying = InvalidIndex
      /\ call = "Construct" => phase = "Idle" /\ destroying = InvalidIndex
      /\ destroying # InvalidIndex => call \in {"Barrier", "Sweep"}
  BY DEF CycleInvariant, LocksAgree
<1>3. \A r \in RootEntries, h \in Handles : RemoveRoot(h) => roots'[r] \in {roots[r], NoHandle}
  BY DEF RemoveRoot, TypeOK
<1>4. CASE StoreStep
  <2>1. UNCHANGED phase
    BY <1>4 DEF StoreStep, collectorVars
  <2>2. \/ Reserve \/ Commit \/ RollbackConstruction \/ EndDestroySlot
        \/ VisitPendingSlot \/ EndApplyPendingDestroy \/ EndDispatch
        \/ \E h \in Handles : RemoveRoot(h)
    BY <1>1, <1>4 DEF StoreStep, BeginConstruction, MarkPendingDestroy,
       BeginApplyPendingDestroy, AddRoot, BeginDispatch
  <2>3. CASE Reserve \/ Commit \/ RollbackConstruction
    BY <2>3 DEF Reserve, Commit, RollbackConstruction
  <2>4. CASE EndDestroySlot
    BY <2>4 DEF EndDestroySlot
  <2>5. CASE VisitPendingSlot \/ EndApplyPendingDestroy
    BY <1>2, <2>5 DEF VisitPendingSlot, EndApplyPendingDestroy
  <2>6. CASE EndDispatch
    BY <2>1, <2>6 DEF EndDispatch, Frozen
  <2>7. CASE \E h \in Handles : RemoveRoot(h)
    BY <1>3, <2>1, <2>7 DEF RemoveRoot, Frozen
  <2> QED
    BY <2>2, <2>3, <2>4, <2>5, <2>6, <2>7
<1>5. CASE MutatorStep
  BY <1>5 DEF MutatorStep, SetReferences, Frozen
<1>6. CASE RequestCollection \/ BeginAdvance
  BY <1>1, <1>6 DEF RequestCollection, BeginAdvance
<1>7. CASE CollectorStep \/ ReturnFromAdvance \/ CancelCollection
  <2>1. ~CancelCollection
    BY <1>2 DEF CancelCollection
  <2>2. ~ReturnFromAdvance
    BY <1>2 DEF ReturnFromAdvance, HasWorkLeft
  <2>3. ~CollectorStep
    BY <1>2 DEF CollectorStep, SeedRoot, EndSeedRoots, PopWorklist, ReportReference, EndMark,
       SweepSlot, EndSweep
  <2> QED
    BY <1>7, <2>1, <2>2, <2>3
<1> QED
  BY <1>4, <1>5, <1>6, <1>7 DEF Next

\* Whatever code runs in a dispatched callback, a constructor, BeginDestroy or a
\* destructor calls, it publishes, destroys, dooms and roots nothing and begins no other
\* call, for every capacity (ObjectStore.cpp:120-134, 389-401, 613-626): the locks, and
\* not the callers' good behaviour, refuse each entry point.
THEOREM CallbacksSafe == Spec => CallbacksFreezeStore
<1>1. TypeOK /\ CycleInvariant /\ [Next]_vars
        => [/\ dispatchLocked => Frozen
            /\ call = "Construct" => Frozen \/ Reserve \/ Commit \/ RollbackConstruction
            /\ destroying # InvalidIndex => Frozen \/ EndDestroySlot]_vars
  <2> SUFFICES ASSUME TypeOK, CycleInvariant, Next
               PROVE  /\ dispatchLocked => Frozen
                      /\ call = "Construct" => Frozen \/ Reserve \/ Commit \/ RollbackConstruction
                      /\ destroying # InvalidIndex => Frozen \/ EndDestroySlot
    OBVIOUS
  <2>1. /\ dispatchLocked => call = "None" /\ destroying = InvalidIndex
        /\ call = "Construct" => destroying = InvalidIndex
    BY DEF CycleInvariant, LocksAgree
  <2>2. CASE dispatchLocked
    BY <2>1, <2>2, CallbackSteps
  <2>3. CASE call = "Construct"
    BY <2>1, <2>3, CallbackSteps
  <2>4. CASE destroying # InvalidIndex
    BY <2>1, <2>4, CallbackSteps
  <2> QED
    BY <2>2, <2>3, <2>4
<1> QED
  BY <1>1, TypeCorrect, CycleCorrect, PTL DEF Spec, CallbacksFreezeStore

----------------------------------------------------------------------------
(* The count of pending objects.                                           *)

\* The slots of a store are a finite set, and so is every part of it.
LEMMA PendingFinite == TypeOK => IsFiniteSet(Pending) /\ IsFiniteSet(Pending')
<1>1. IsFiniteSet(Slots)
  BY FS_Interval, StoreAssumption DEF Slots, StoreAssumption
<1>2. Pending \subseteq Slots /\ Pending' \subseteq Slots
  BY DEF Pending, Slots
<1> QED
  BY <1>1, <1>2, FS_Subset

\* A store step keeps the count exact: only a request and the end of a barrier
\* destruction change who is pending.
LEMMA StoreStepPending ==
  ASSUME TypeOK, CycleInvariant, StoreStep, pendingDestroyCount = Cardinality(Pending)
  PROVE  pendingDestroyCount' = Cardinality(Pending')
<1> USE DEF Pending
<1>1. CASE \/ BeginConstruction \/ BeginDispatch \/ EndDispatch
           \/ \E h \in Handles : AddRoot(h) \/ RemoveRoot(h)
  <2>1. /\ UNCHANGED <<state, pendingDestroyCount, destroying>>
        /\ call' = "Barrier" <=> call = "Barrier"
    <3>1. CASE BeginDispatch \/ EndDispatch
      BY <3>1 DEF BeginDispatch, EndDispatch
    <3>0. CASE BeginConstruction
      BY <3>0, UserCodeIsIdle DEF BeginConstruction
    <3>2. CASE \E h \in Handles : AddRoot(h) \/ RemoveRoot(h)
      BY <3>2 DEF AddRoot, RemoveRoot
    <3> QED
      BY <1>1, <3>0, <3>1, <3>2
  <2>2. Pending' = Pending
    BY <2>1
  <2> QED
    BY <2>1, <2>2
<1>2. CASE Reserve \/ Commit \/ RollbackConstruction
  <2>1. \A s \in Slots :
        \/ state'[s] = state[s]
        \/ /\ state[s] \in {"Vacant", "Constructing"}
           /\ state'[s] \in {"Vacant", "Constructing", "Live"}
    <3> state \in [Slots -> SlotStates]
      BY DEF TypeOK
    <3>1. CASE Reserve
      BY <3>1 DEF Reserve
    <3>2. CASE Commit \/ RollbackConstruction
      BY <3>2 DEF Commit, RollbackConstruction, Reserved
    <3> QED
      BY <1>2, <3>1, <3>2
  <2>2. call # "Barrier" /\ call' # "Barrier" /\ pendingDestroyCount' = pendingDestroyCount
    BY <1>2 DEF Reserve, Commit, RollbackConstruction
  <2>3. Pending' = Pending
    BY <2>1, <2>2 DEF Slots
  <2> QED
    BY <2>2, <2>3
<1>3. ASSUME NEW h \in Handles, MarkPendingDestroy(h)
      PROVE  pendingDestroyCount' = Cardinality(Pending')
  <2>1. h.index \in Slots /\ h.index \notin Pending
    BY <1>3 DEF MarkPendingDestroy, Resolves, Handles
  <2>2. Pending' = Pending \cup {h.index}
    BY <1>3, <2>1 DEF MarkPendingDestroy, TypeOK, Slots
  <2>3. Cardinality(Pending') = Cardinality(Pending) + 1
    BY <2>1, <2>2, PendingFinite, FS_AddElement
  <2> QED
    BY <1>3, <2>3 DEF MarkPendingDestroy
<1>4. CASE EndApplyPendingDestroy \/ \E budget \in 1..SlotCount : BeginApplyPendingDestroy(budget)
  <2>1. \A s \in Slots : state[s] # "Destroying"
    BY <1>4 DEF EndApplyPendingDestroy, BeginApplyPendingDestroy, CycleInvariant, LocksAgree,
       IsMutationLocked, Slots, InvalidIndex
  <2>2. state' = state /\ pendingDestroyCount' = pendingDestroyCount
    BY <1>4 DEF EndApplyPendingDestroy, BeginApplyPendingDestroy
  <2>3. Pending' = Pending
    BY <2>1, <2>2 DEF Slots
  <2> QED
    BY <2>2, <2>3
<1>5. CASE VisitPendingSlot
  <2>1. call = "Barrier" /\ call' = "Barrier" /\ pendingDestroyCount' = pendingDestroyCount
    BY <1>5 DEF VisitPendingSlot
  <2>2. \A s \in Slots :
        \/ state'[s] = state[s]
        \/ state[s] = "PendingDestroy" /\ state'[s] = "Destroying"
    <3>1. state \in [Slots -> SlotStates] /\ pendingDestroyScanCursor \in Slots
      BY DEF TypeOK
    <3> QED
      BY <1>5, <3>1 DEF VisitPendingSlot, BeginDestroySlot
  <2>3. Pending' = Pending
    BY <2>1, <2>2 DEF Slots
  <2> QED
    BY <2>1, <2>3
<1>6. CASE EndDestroySlot
  <2> DEFINE s == destroying
  <2>1. s \in Slots /\ state[s] = "Destroying" /\ call' = call
    BY <1>6 DEF EndDestroySlot, CycleInvariant, LocksAgree, TypeOK
  <2>2. \A t \in Slots \ {s} : state'[t] = state[t]
    BY <1>6, <2>1 DEF EndDestroySlot, TypeOK
  <2>3. state'[s] \in {"Vacant", "Retired"}
    BY <1>6, <2>1 DEF EndDestroySlot, TypeOK, RecycledState
  <2>4. Pending' = Pending \ {s}
    BY <2>1, <2>2, <2>3 DEF Slots
  <2>5. CASE call = "Barrier"
    <3>1. s \in Pending
      BY <2>1, <2>5
    <3>2. Cardinality(Pending') = Cardinality(Pending) - 1
      BY <2>4, <3>1, PendingFinite, FS_RemoveElement
    <3>3. pendingDestroyCount > 0
      <4>1. IsFiniteSet(Pending) /\ Pending # {}
        BY <3>1, PendingFinite
      <4> HIDE DEF Pending
      <4>2. Cardinality(Pending) \in Nat /\ Cardinality(Pending) # 0
        BY <4>1, FS_EmptySet, FS_CardinalityType
      <4> QED
        BY <4>2
    <3> QED
      BY <1>6, <2>5, <3>2, <3>3 DEF EndDestroySlot, CountAfterDestroy
  <2>6. CASE call # "Barrier"
    <3>1. Pending' = Pending /\ pendingDestroyCount' = pendingDestroyCount
      BY <1>6, <2>1, <2>4, <2>6 DEF EndDestroySlot, CountAfterDestroy
    <3> QED
      BY <3>1
  <2> QED
    BY <2>5, <2>6
<1> QED
  BY <1>1, <1>2, <1>3, <1>4, <1>5, <1>6 DEF StoreStep

\* The count is the number of pending slots.
LEMMA PendingCounted ==
  /\ PendingCountExact <=> pendingDestroyCount = Cardinality(Pending)
  /\ PendingCountExact' <=> pendingDestroyCount' = Cardinality(Pending')
BY DEF PendingCountExact

\* The barrier's early exit never leaves a pending object behind, nor looks for
\* one that is not there (ObjectStore.cpp:220, 241, 460-474).
THEOREM CountExact == Spec => []PendingCountExact
<1>1. Init => PendingCountExact
  <2>1. Init => Pending = {} /\ pendingDestroyCount = 0
    BY DEF Init, StoreInit, Pending
  <2> QED
    BY <2>1, FS_EmptySet, PendingCounted
<1>2. TypeOK /\ CycleInvariant /\ PendingCountExact /\ [Next]_vars => PendingCountExact'
  <2> SUFFICES ASSUME TypeOK, CycleInvariant, pendingDestroyCount = Cardinality(Pending),
                      [Next]_vars
               PROVE  pendingDestroyCount' = Cardinality(Pending')
    BY PendingCounted
  <2>1. CASE SweepSlot
    <3>1. \A s \in Slots :
          \/ state'[s] = state[s]
          \/ state[s] = "Live" /\ state'[s] = "Destroying"
      <4>1. state \in [Slots -> SlotStates]
        BY DEF TypeOK
      <4> QED
        BY <2>1, <4>1 DEF SweepSlot, BeginDestroySlot
    <3>2. call # "Barrier" /\ call' # "Barrier" /\ pendingDestroyCount' = pendingDestroyCount
      BY <2>1 DEF SweepSlot
    <3>3. Pending' = Pending
      BY <3>1, <3>2 DEF Slots, Pending
    <3> QED
      BY <3>2, <3>3
  <2>2. CASE UNCHANGED <<state, pendingDestroyCount>> /\ (call = "Barrier" <=> call' = "Barrier")
    <3>1. Pending' = Pending
      BY <2>2 DEF Slots, Pending
    <3> QED
      BY <2>2, <3>1
  <2>3. CASE UNCHANGED vars
    BY <2>2, <2>3 DEF vars, storeVars
  <2> QED
    BY <2>1, <2>2, <2>3, StoreStepPending, CollectorLeavesSlots DEF Next, CollectorStep
<1> QED
  BY <1>1, <1>2, TypeCorrect, CycleCorrect, PTL DEF Spec

----------------------------------------------------------------------------
(***************************************************************************)
(* The store and its incremental collector implement the managed heap:     *)
(* every step is a step of the heap under the mapping of `Heap`, or leaves *)
(* the heap alone.  What the mapping needs to know of slots and references *)
(* is this.                                                                *)
(***************************************************************************)

SlotsSound ==
    /\ \A s \in Slots : state[s] \in Occupied => generation[s] # 0
    /\ \A s \in Slots : state[s] \in {"Vacant", "Constructing", "Retired"}
                            => references[s] = {}
    /\ \A s \in Slots : \A h \in references[s] : Issued(h)

\* A handle once issued stays issued, and only a publish issues one.
LEMMA IssuedKept ==
  ASSUME TypeOK, NEW h \in Handles, Issued(h), NEW s \in Slots, s = h.index,
         \/ state'[s] = state[s] /\ generation'[s] = generation[s]
         \/ generation'[s] = generation[s] /\ state[s] \notin {"Vacant", "Constructing"}
            /\ state'[s] \notin {"Vacant", "Constructing"}
         \/ generation'[s] = generation[s] + 1
  PROVE  Issued(h)'
BY DEF Issued, Handles, TypeOK

\* A step that publishes nothing keeps SlotsSound when what it leaves in every
\* slot is what was there, an occupant in a later state, or nothing.
LEMMA SlotsSoundKept ==
  ASSUME TypeOK, TypeOK', SlotsSound,
         \A s \in Slots :
            /\ references'[s] = references[s] \/ references'[s] = {}
            /\ \/ state'[s] = state[s] /\ generation'[s] = generation[s]
               \/ /\ generation'[s] = generation[s]
                  /\ state[s] \in Occupied
                  /\ state'[s] \in Occupied \/ (state'[s] = "Retired" /\ references'[s] = {})
               \/ /\ generation'[s] = generation[s] + 1
                  /\ state'[s] = "Vacant" /\ references'[s] = {}
               \/ /\ generation'[s] = generation[s]
                  /\ state[s] \in {"Vacant", "Constructing"}
                  /\ state'[s] \in {"Vacant", "Constructing"}
  PROVE  SlotsSound'
<1>1. \A s \in Slots : state'[s] \in Occupied => generation'[s] # 0
  BY DEF SlotsSound, Occupied, TypeOK
<1>2. \A s \in Slots : state'[s] \in {"Vacant", "Constructing", "Retired"}
                            => references'[s] = {}
  BY DEF SlotsSound, Occupied
<1>3. ASSUME NEW s \in Slots, NEW h \in references'[s] PROVE Issued(h)'
  <2>1. h \in references[s] /\ h \in Handles
    BY <1>3 DEF TypeOK
  <2>2. Issued(h) /\ h.index \in Slots
    BY <2>1 DEF SlotsSound, Handles
  <2>3. CASE generation'[h.index] = generation[h.index] + 1
    BY <2>1, <2>2, <2>3, IssuedKept
  <2>4. CASE generation'[h.index] # generation[h.index] + 1
    <3>1. \/ state'[h.index] = state[h.index] /\ generation'[h.index] = generation[h.index]
          \/ /\ generation'[h.index] = generation[h.index]
             /\ state[h.index] \in {"Vacant", "Constructing"}
             /\ state'[h.index] \in {"Vacant", "Constructing"}
          \/ /\ generation'[h.index] = generation[h.index]
             /\ state[h.index] \notin {"Vacant", "Constructing"}
             /\ state'[h.index] \notin {"Vacant", "Constructing"}
      BY <2>2, <2>4 DEF Occupied
    <3> QED
      BY <2>2, <3>1 DEF Issued
  <2> QED
    BY <2>3, <2>4
<1> QED
  BY <1>1, <1>2, <1>3 DEF SlotsSound

\* Occupants that only move to a later state keep SlotsSound.
LEMMA OccupantsMove ==
  ASSUME TypeOK, TypeOK', SlotsSound, generation' = generation, references' = references,
         \A s \in Slots :
            state'[s] = state[s] \/ (state[s] \in Occupied /\ state'[s] \in Occupied)
  PROVE  SlotsSound'
<1>1. \A s \in Slots : state'[s] \in Occupied => generation'[s] # 0
  BY DEF SlotsSound
<1>2. \A s \in Slots : state'[s] \in {"Vacant", "Constructing", "Retired"}
                            => references'[s] = {}
  BY DEF SlotsSound, Occupied
<1>3. ASSUME NEW s \in Slots, NEW h \in references'[s] PROVE Issued(h)'
  <2>1. Issued(h) /\ h.index \in Slots
    BY <1>3 DEF SlotsSound, TypeOK, Handles
  <2> QED
    BY <2>1 DEF Issued, Occupied
<1> QED
  BY <1>1, <1>2, <1>3 DEF SlotsSound

\* The slots a construction publishes and the actor's references to them.
LEMMA CommitSound ==
  ASSUME TypeOK, TypeOK', SlotsSound, Commit
  PROVE  SlotsSound'
<1> DEFINE gen(s) == NextPublishGeneration(generation[s])
<1>1. \A s \in Slots \ Reserved :
        state'[s] = state[s] /\ generation'[s] = generation[s] /\ references'[s] = references[s]
  BY DEF Commit, TypeOK
<1>2. \A s \in Reserved : s \in Slots /\ state[s] = "Constructing" /\ state'[s] = "Live"
                         /\ generation'[s] = gen(s)
  BY DEF Commit, Reserved
<1>3. \A s \in Reserved : \A h \in references'[s] : \E t \in Reserved :
        h = [index |-> t, generation |-> gen(t)]
  <2> TAKE s \in Reserved
  <2>1. references[s] = {}
    BY <1>2 DEF SlotsSound
  <2>2. references'[s] = IF \A t \in Reserved : s <= t
                         THEN {[index |-> t, generation |-> gen(t)] : t \in Reserved \ {s}}
                         ELSE references[s]
    BY <1>2 DEF Commit
  <2> QED
    BY <2>1, <2>2
<1>4. \A s \in Slots : state'[s] \in Occupied => generation'[s] # 0
  <2> TAKE s \in Slots
  <2>1. CASE s \in Reserved
    BY <1>2, <2>1 DEF NextPublishGeneration
  <2>2. CASE s \notin Reserved
    BY <1>1, <2>2 DEF SlotsSound
  <2> QED
    BY <2>1, <2>2
<1>5. \A s \in Slots : state'[s] \in {"Vacant", "Constructing", "Retired"} => references'[s] = {}
  BY <1>1, <1>2 DEF SlotsSound
<1>6. ASSUME NEW s \in Slots, NEW h \in references'[s] PROVE Issued(h)'
  <2>1. CASE s \in Reserved
    BY <1>2, <1>3, <1>6, <2>1 DEF Issued
  <2>2. CASE s \notin Reserved
    <3>1. Issued(h) /\ h.index \in Slots
      BY <1>1, <1>6, <2>2 DEF SlotsSound, TypeOK, Handles
    <3>2. CASE h.index \in Reserved
      <4>1. generation[h.index] > h.generation
        BY <1>2, <3>1, <3>2 DEF Issued
      <4>2. generation[h.index] \in Nat /\ h \in Handles
        BY <1>1, <1>6, <2>2, <3>1 DEF TypeOK
      <4>3. generation'[h.index] = generation[h.index]
        BY <1>2, <3>2, <4>1, <4>2 DEF NextPublishGeneration, Handles
      <4> QED
        BY <4>1, <4>3 DEF Issued
    <3>3. CASE h.index \notin Reserved
      BY <1>1, <3>1, <3>3 DEF Issued
    <3> QED
      BY <3>2, <3>3
  <2> QED
    BY <2>1, <2>2
<1> QED
  BY <1>4, <1>5, <1>6 DEF SlotsSound

\* SlotsSound is an invariant.
LEMMA SlotsStaySound ==
  ASSUME TypeOK, TypeOK', CycleInvariant, SlotsSound, [Next]_vars
  PROVE  SlotsSound'
<1> DEFINE SameSlots == UNCHANGED <<state, generation, references>>
<1>1. CASE SameSlots
  BY <1>1, SlotsSoundKept
<1>2. CASE UNCHANGED vars
  BY <1>1, <1>2 DEF vars, storeVars
<1>3. CASE StoreStep
  <2>1. CASE BeginConstruction \/ EndApplyPendingDestroy \/ BeginDispatch \/ EndDispatch
    BY <1>1, <2>1 DEF BeginConstruction, EndApplyPendingDestroy, BeginDispatch, EndDispatch
  <2>2. CASE \/ \E budget \in 1..SlotCount : BeginApplyPendingDestroy(budget)
             \/ \E h \in Handles : AddRoot(h) \/ RemoveRoot(h)
    BY <1>1, <2>2 DEF BeginApplyPendingDestroy, AddRoot, RemoveRoot
  <2>3. CASE Reserve \/ RollbackConstruction
    <3>1. CASE Reserve
      BY <3>1, SlotsSoundKept DEF Reserve, TypeOK
    <3>2. CASE RollbackConstruction
      BY <3>2, SlotsSoundKept DEF RollbackConstruction, Reserved, TypeOK
    <3> QED
      BY <2>3, <3>1, <3>2
  <2>4. CASE Commit
    BY <2>4, CommitSound
  <2>5. ASSUME NEW h \in Handles, MarkPendingDestroy(h) PROVE SlotsSound'
    <3>1. generation' = generation /\ references' = references
      BY <2>5 DEF MarkPendingDestroy
    <3>2. \A s \in Slots : \/ state'[s] = state[s]
                           \/ state[s] = "Live" /\ state'[s] = "PendingDestroy"
      BY <2>5 DEF MarkPendingDestroy, Resolves, TypeOK
    <3> QED
      BY <3>1, <3>2, OccupantsMove DEF Occupied
  <2>6. CASE VisitPendingSlot
    <3>1. generation' = generation /\ references' = references
      BY <2>6 DEF VisitPendingSlot
    <3>2. state \in [Slots -> SlotStates]
      BY DEF TypeOK
    <3>3. \A s \in Slots : \/ state'[s] = state[s]
                           \/ state[s] = "PendingDestroy" /\ state'[s] = "Destroying"
      BY <2>6, <3>2 DEF VisitPendingSlot, BeginDestroySlot
    <3> QED
      BY <3>1, <3>3, OccupantsMove DEF Occupied
  <2>7. CASE EndDestroySlot
    <3>1. destroying \in Slots /\ state[destroying] = "Destroying"
      BY <2>7 DEF EndDestroySlot, CycleInvariant, LocksAgree, TypeOK
    <3>2. \A s \in Slots \ {destroying} :
            /\ state'[s] = state[s] /\ generation'[s] = generation[s]
            /\ references'[s] = references[s]
      BY <2>7, <3>1 DEF EndDestroySlot, TypeOK
    <3>3. /\ references'[destroying] = {}
          /\ \/ /\ generation'[destroying] = generation[destroying]
                /\ state'[destroying] = "Retired"
             \/ /\ generation'[destroying] = generation[destroying] + 1
                /\ state'[destroying] = "Vacant"
      BY <2>7, <3>1 DEF EndDestroySlot, RecycledState, RecycledGeneration, TypeOK
    <3> QED
      BY <3>1, <3>2, <3>3, SlotsSoundKept DEF Occupied
  <2> QED
    BY <1>3, <2>1, <2>2, <2>3, <2>4, <2>5, <2>6, <2>7 DEF StoreStep
<1>4. CASE MutatorStep
  <2> PICK s \in Slots, targets \in SUBSET Handles : SetReferences(s, targets)
    BY <1>4, Zenon DEF MutatorStep
  <2>1. state' = state /\ generation' = generation /\ state[s] = "Live"
    BY DEF SetReferences
  <2>2. \A t \in Slots : references'[t] = IF t = s THEN targets ELSE references[t]
    BY DEF SetReferences, TypeOK
  <2>3. \A h \in targets : Issued(h)
    BY DEF SetReferences
  <2> QED
    BY <2>1, <2>2, <2>3 DEF SlotsSound, Issued, Occupied
<1>5. CASE SweepSlot
  <2>1. generation' = generation /\ references' = references
    BY <1>5 DEF SweepSlot
  <2>2. state \in [Slots -> SlotStates]
    BY DEF TypeOK
  <2>3. \A s \in Slots : \/ state'[s] = state[s]
                         \/ state[s] = "Live" /\ state'[s] = "Destroying"
    BY <1>5, <2>2 DEF SweepSlot, BeginDestroySlot
  <2> QED
    BY <2>1, <2>3, OccupantsMove DEF Occupied
<1>6. CASE \/ RequestCollection \/ BeginAdvance \/ ReturnFromAdvance \/ CancelCollection
           \/ EndSeedRoots \/ PopWorklist \/ EndMark \/ EndSweep
  BY <1>1, <1>6 DEF RequestCollection, BeginAdvance, ReturnFromAdvance, CancelCollection,
     EndSeedRoots, PopWorklist, EndMark, EndSweep, otherStoreVars
<1>7. CASE SeedRoot \/ ReportReference
  BY <1>1, <1>7 DEF SeedRoot, ReportReference, otherStoreVars
<1> QED
  BY <1>2, <1>3, <1>4, <1>5, <1>6, <1>7 DEF Next, CollectorStep

----------------------------------------------------------------------------
(* The heap a store state stands for.                                      *)

\* Live objects are named by handles, and a handle names one slot.
LEMMA LiveHandlesTyped ==
  ASSUME TypeOK, SlotsSound
  PROVE  /\ LiveHandles \subseteq Handles
         /\ \A h \in Handles : h \in LiveHandles <=> Resolves(h)
<1>1. \A s \in Slots : state[s] = "Live" => HandleOf(s) \in Handles
  BY DEF TypeOK, SlotsSound, Occupied, HandleOf, Handles
<1>2. \A h \in Handles : Resolves(h) => h = HandleOf(h.index) /\ h.index \in LiveSlots
  BY DEF Resolves, HandleOf, LiveSlots, Handles
<1>3. \A s \in LiveSlots : HandleOf(s) \in Handles => Resolves(HandleOf(s))
  BY DEF LiveSlots, Resolves, HandleOf
<1> QED
  BY <1>1, <1>2, <1>3 DEF LiveHandles, LiveSlots

\* The objects of the heap change only with the live slots and their generations.
LEMMA SameLive ==
  ASSUME \A s \in Slots : /\ state'[s] = "Live" <=> state[s] = "Live"
                          /\ state[s] = "Live" => generation'[s] = generation[s]
  PROVE  LiveSlots' = LiveSlots /\ LiveHandles' = LiveHandles
<1>1. LiveSlots' = LiveSlots
  BY DEF LiveSlots, Slots
<1>2. \A s \in LiveSlots : HandleOf(s)' = HandleOf(s)
  BY DEF LiveSlots, HandleOf
<1> QED
  BY <1>1, <1>2 DEF LiveHandles

\* Two ways for the issued handles to stay the same: nothing moved, or every
\* slot that moved was and stays occupied, or goes back to be used again.
LEMMA SameIssued ==
  ASSUME TypeOK,
         \A s \in Slots :
            \/ /\ generation'[s] = generation[s]
               /\ \/ state'[s] = state[s]
                  \/ /\ state[s] \notin {"Vacant", "Constructing"}
                     /\ state'[s] \notin {"Vacant", "Constructing"}
                  \/ /\ state[s] \in {"Vacant", "Constructing"}
                     /\ state'[s] \in {"Vacant", "Constructing"}
            \/ /\ generation'[s] = generation[s] + 1
               /\ state[s] \notin {"Vacant", "Constructing"}
               /\ state'[s] = "Vacant"
  PROVE  IssuedHandles' = IssuedHandles
<1>1. ASSUME NEW h \in Handles PROVE Issued(h)' <=> Issued(h)
  <2>1. h.index \in Slots /\ h.generation \in Nat /\ generation[h.index] \in Nat
    BY DEF Handles, TypeOK
  <2> QED
    BY <2>1 DEF Issued
<1> QED
  BY <1>1 DEF IssuedHandles, Handles, Slots

\* The doomed objects change only with the slots that wait for the barrier.
LEMMA SameDoomed ==
  ASSUME \A s \in Slots :
            /\ (\/ state'[s] = "PendingDestroy"
                \/ state'[s] = "Destroying" /\ call' = "Barrier")
               <=> (\/ state[s] = "PendingDestroy"
                    \/ state[s] = "Destroying" /\ call = "Barrier")
            /\ state[s] \in {"PendingDestroy", "Destroying"} => generation'[s] = generation[s]
  PROVE  DoomedHandles' = DoomedHandles
<1>1. Pending' = Pending
  BY DEF Pending, Slots
<1>2. \A s \in Pending : HandleOf(s)' = HandleOf(s)
  BY DEF HandleOf, Pending
<1> QED
  BY <1>1, <1>2 DEF DoomedHandles

\* Rooted objects and links follow the live objects.
LEMMA SameRooted ==
  ASSUME LiveHandles' = LiveHandles,
         \A h \in LiveHandles : (\E r \in RootEntries : roots'[r] = h)
                               <=> (\E r \in RootEntries : roots[r] = h)
  PROVE  RootedHandles' = RootedHandles
BY DEF RootedHandles, RootEntries

\* A step that keeps the live objects and their references keeps the links of the heap.
LEMMA SameLinks ==
  ASSUME LiveSlots' = LiveSlots, LiveHandles' = LiveHandles,
         \A s \in LiveSlots : references'[s] = references[s]
  PROVE  LiveLinks' = LiveLinks
<1>1. \A h \in LiveHandles : h.index \in LiveSlots
  BY DEF LiveHandles, HandleOf
<1> QED
  BY <1>1 DEF LiveLinks, Handles, Slots

\* Whether the heap is being collected depends on the cycle alone.
LEMMA SameCollection ==
  ASSUME UNCHANGED <<phase, rewired>> PROVE Collection' = Collection
BY DEF Collection

LEMMA CollectionMatchesPhase ==
  ASSUME CycleInvariant
  PROVE  /\ Collection \in {"None", "Steady", "Rewired"}
         /\ Collection = "None" <=> phase = "Idle"
         /\ Collection = "Rewired" <=> rewired
         /\ Collection = "Steady" <=> phase # "Idle" /\ ~rewired
BY DEF Collection, CycleInvariant, LocksAgree

\* A step that leaves slots, generations, references and root tokens alone leaves the
\* objects of the heap alone, unless it starts or ends a barrier over a destruction.
LEMMA ObjectsUnchanged ==
  ASSUME TypeOK, UNCHANGED <<state, generation, references, roots>>,
         \A s \in Slots : state[s] = "Destroying" => (call' = "Barrier" <=> call = "Barrier")
  PROVE  UNCHANGED <<LiveHandles, IssuedHandles, DoomedHandles, RootedHandles, LiveLinks>>
<1>1. LiveSlots' = LiveSlots /\ LiveHandles' = LiveHandles
  BY SameLive
<1>2. IssuedHandles' = IssuedHandles
  BY SameIssued
<1>3. DoomedHandles' = DoomedHandles
  BY SameDoomed
<1>4. RootedHandles' = RootedHandles
  BY <1>1, SameRooted
<1>5. LiveLinks' = LiveLinks
  BY <1>1, SameLinks
<1> QED
  BY <1>1, <1>2, <1>3, <1>4, <1>5

\* ... and is a stutter of the heap when no collection begins, ends or is rewired.
LEMMA HeapUnchanged ==
  ASSUME TypeOK, UNCHANGED <<state, generation, references, roots>>, Collection' = Collection,
         \A s \in Slots : state[s] = "Destroying" => (call' = "Barrier" <=> call = "Barrier")
  PROVE  UNCHANGED Heap!heapVars
<1>1. UNCHANGED <<LiveHandles, IssuedHandles, DoomedHandles, RootedHandles, LiveLinks>>
  BY ObjectsUnchanged
<1> QED
  BY <1>1 DEF Heap!heapVars

----------------------------------------------------------------------------
(* The steps of the store that are steps of the heap.                      *)

\* A committed construction publishes one fresh handle for each reservation.
LEMMA CommitPublishes ==
  ASSUME TypeOK, CycleInvariant, SlotsSound, RootsNameOccupants, Commit,
         UNCHANGED collectorVars
  PROVE  Heap!Publish
<1>0. Collection = "None" /\ Collection' = "None"
  <2>1. phase = "Idle" /\ UNCHANGED <<phase, rewired>>
    BY DEF Commit, CycleInvariant, LocksAgree, collectorVars
  <2> QED
    BY <2>1, SameCollection, CollectionMatchesPhase
<1> DEFINE new(s) == [index |-> s, generation |-> NextPublishGeneration(generation[s])]
           fresh == {new(s) : s \in Reserved}
<1>1. \A s \in Slots \ Reserved :
        state'[s] = state[s] /\ generation'[s] = generation[s] /\ references'[s] = references[s]
  BY DEF Commit, TypeOK
<1>2. \A s \in Reserved : /\ s \in Slots /\ state[s] = "Constructing" /\ state'[s] = "Live"
                         /\ generation'[s] = NextPublishGeneration(generation[s])
  BY DEF Commit, Reserved
<1>3. \A s \in Reserved : new(s) \in Handles /\ new(s) \notin IssuedHandles
  <2> TAKE s \in Reserved
  <2>1. generation[s] \in 0..MaxGeneration /\ s \in Slots
    BY <1>2 DEF TypeOK
  <2>2. NextPublishGeneration(generation[s]) \in 1..MaxGeneration
    BY <2>1, StoreAssumption DEF StoreAssumption, NextPublishGeneration
  <2>3. ~Issued(new(s))
    BY <1>2, <2>1 DEF Issued, NextPublishGeneration
  <2> QED
    BY <2>1, <2>2, <2>3 DEF Handles, IssuedHandles
<1>4. fresh \in SUBSET (Handles \ IssuedHandles) /\ fresh # {}
  BY <1>3 DEF Commit
<1>5. LiveSlots' = LiveSlots \cup Reserved
  BY <1>1, <1>2 DEF LiveSlots, Slots
<1>6. /\ \A s \in Reserved : HandleOf(s)' = new(s)
      /\ \A s \in LiveSlots : HandleOf(s)' = HandleOf(s)
  BY <1>1, <1>2 DEF HandleOf, LiveSlots
<1>7. LiveHandles' = LiveHandles \cup fresh
  BY <1>5, <1>6 DEF LiveHandles
<1>8. \A h \in Handles : Issued(h)' <=> Issued(h) \/ h \in fresh
  <2> TAKE h \in Handles
  <2>1. CASE h.index \notin Reserved
    BY <1>1, <2>1 DEF Issued, Handles
  <2>2. CASE h.index \in Reserved
    <3>1. h \in fresh <=> h.generation = NextPublishGeneration(generation[h.index])
      BY <2>2 DEF Handles
    <3>2. generation[h.index] \in Nat /\ h.generation \in Nat \ {0}
      BY <1>2, <2>2 DEF TypeOK, Handles
    <3>3. Issued(h) <=> generation[h.index] > h.generation
      BY <1>2, <2>2 DEF Issued
    <3>4. Issued(h)' <=> NextPublishGeneration(generation[h.index]) >= h.generation
      BY <1>2, <2>2, <3>2 DEF Issued, NextPublishGeneration
    <3> QED
      BY <3>1, <3>2, <3>3, <3>4 DEF NextPublishGeneration
  <2> QED
    BY <2>1, <2>2
<1>9. IssuedHandles' = IssuedHandles \cup fresh
  BY <1>4, <1>8 DEF IssuedHandles, Handles, Slots
<1>10. DoomedHandles' = DoomedHandles
  <2>1. call # "Barrier" /\ call' # "Barrier"
    BY DEF Commit
  <2> QED
    BY <1>1, <1>2, <2>1, SameDoomed
<1>11. RootedHandles' = RootedHandles
  <2>1. roots' = roots
    BY DEF Commit
  <2>2. \A r \in RootEntries : roots[r] \notin fresh
    <3> SUFFICES ASSUME NEW r \in RootEntries, NEW s \in Reserved, roots[r] = new(s)
                 PROVE  FALSE
      OBVIOUS
    <3>1. roots[r] # NoHandle /\ roots[r].index = s
      BY <1>2 DEF NoHandle, InvalidIndex, Slots
    <3> QED
      BY <1>2, <3>1 DEF RootsNameOccupants
  <2> QED
    BY <1>7, <2>1, <2>2 DEF RootedHandles, RootEntries
<1>12. \A s \in Reserved : \A h \in references'[s] : h \in fresh
  <2> TAKE s \in Reserved
  <2>1. references[s] = {}
    BY <1>2 DEF SlotsSound
  <2>2. references'[s] = IF \A t \in Reserved : s <= t
                         THEN {new(t) : t \in Reserved \ {s}} ELSE references[s]
    BY <1>2 DEF Commit
  <2> QED
    BY <2>1, <2>2
<1>13. /\ \A h \in LiveHandles : references'[h.index] = references[h.index]
       /\ \A h \in fresh : h.index \in Reserved
  BY <1>1 DEF LiveHandles, HandleOf, LiveSlots, Reserved
<1>14. LiveLinks \subseteq LiveLinks' /\ LiveLinks' \ LiveLinks \subseteq fresh \X fresh
  <2> HIDE DEF fresh
  <2> QED
    BY <1>4, <1>7, <1>12, <1>13 DEF LiveLinks, Handles, Slots
<1> HIDE DEF fresh
<1> QED
  BY <1>0, <1>4, <1>7, <1>9, <1>10, <1>11, <1>14 DEF Heap!Publish

\* Whatever takes a live slot out of service removes its object from the heap.
LEMMA LiveSlotRemoved ==
  ASSUME TypeOK, SlotsSound, NEW s \in Slots, state[s] = "Live",
         state'[s] \in {"PendingDestroy", "Destroying"},
         \A t \in Slots \ {s} : state'[t] = state[t],
         UNCHANGED <<generation, references, roots, phase, rewired>>
  PROVE  HandleOf(s) \in LiveHandles /\ Heap!Remove(HandleOf(s))
<1> DEFINE h == HandleOf(s)
<1>1. LiveSlots' = LiveSlots \ {s} /\ s \in LiveSlots
  BY DEF LiveSlots, Slots
<1>2. \A t \in Slots : HandleOf(t)' = HandleOf(t) /\ (HandleOf(t) = h => t = s)
  BY DEF HandleOf
<1>3. LiveHandles' = LiveHandles \ {h} /\ h \in LiveHandles
  BY <1>1, <1>2 DEF LiveHandles, LiveSlots
<1>4. IssuedHandles' = IssuedHandles
  BY SameIssued
<1>5. RootedHandles' = RootedHandles \ {h}
  BY <1>3 DEF RootedHandles
<1>6. LiveLinks' = {l \in LiveLinks : l[1] # h}
  BY <1>3 DEF LiveLinks, Handles, Slots
<1> QED
  BY <1>3, <1>4, <1>5, <1>6, SameCollection DEF Heap!Remove

\* A destruction request removes the object and dooms it.
LEMMA RequestRemoves ==
  ASSUME TypeOK, CycleInvariant, SlotsSound, NEW h \in Handles, MarkPendingDestroy(h),
         UNCHANGED collectorVars
  PROVE  Heap!RequestDestroy
<1> DEFINE s == h.index
<1>1. s \in Slots /\ state[s] = "Live" /\ h = HandleOf(s)
  BY DEF MarkPendingDestroy, Resolves, HandleOf, Handles
<1>2. /\ state'[s] = "PendingDestroy"
      /\ \A t \in Slots \ {s} : state'[t] = state[t]
      /\ UNCHANGED <<generation, references, roots, call, phase, rewired>>
  BY <1>1 DEF MarkPendingDestroy, TypeOK, collectorVars
<1>3. h \in LiveHandles /\ Heap!Remove(h)
  BY <1>1, <1>2, LiveSlotRemoved
<1>4. Pending' = Pending \cup {s}
  BY <1>1, <1>2 DEF Pending, Slots
<1>5. DoomedHandles' = DoomedHandles \cup {h}
  BY <1>1, <1>2, <1>4 DEF DoomedHandles, HandleOf
<1>6. Collection = "None"
  BY UnlockedIsIdle, CollectionMatchesPhase DEF MarkPendingDestroy
<1> QED
  BY <1>3, <1>5, <1>6 DEF Heap!RequestDestroy

\* The sweep of a cycle in which no field got a new target takes only objects no
\* root reaches: its survivors hold every rooted object and, with an object, what
\* it refers to.
LEMMA SweepCollects ==
  ASSUME TypeOK, CycleInvariant, SlotsSound, SweepSlot, state' # state
  PROVE  Heap!Collect
<1> DEFINE s == sweepCursor
           h == HandleOf(s)
           closed == {HandleOf(t) : t \in Survivors}
<1>1. s \in Slots /\ state[s] = "Live" /\ ~marked[s] /\ call = "Sweep" /\ call' = "Sweep"
  BY StoreAssumption DEF SweepSlot, BeginDestroySlot, TypeOK, Slots, StoreAssumption
<1>2. /\ state'[s] = "Destroying"
      /\ \A t \in Slots \ {s} : state'[t] = state[t]
      /\ UNCHANGED <<generation, references, roots, phase, rewired>>
  <2>1. state \in [Slots -> SlotStates]
    BY DEF TypeOK
  <2> QED
    BY <1>1, <2>1 DEF SweepSlot, BeginDestroySlot
<1>3. h \in LiveHandles /\ Heap!Remove(h)
  BY <1>1, <1>2, LiveSlotRemoved
<1>4. DoomedHandles' = DoomedHandles
  BY <1>1, <1>2, SameDoomed
<1>5. phase = "Sweep"
  BY <1>1 DEF CycleInvariant, LocksAgree, AdvanceCalls
<1>6. closed \subseteq LiveHandles
  BY DEF Survivors, LiveHandles
<1>7. \A k \in LiveHandles : k \in closed <=> k.index \in Survivors
  BY DEF LiveHandles, HandleOf, Survivors
<1>8. RootedHandles \subseteq closed
  <2> SUFFICES ASSUME NEW k \in RootedHandles PROVE k \in closed
    OBVIOUS
  <2>1. k \in LiveHandles /\ \E r \in RootEntries : roots[r] = k
    BY DEF RootedHandles
  <2>2. Resolves(k)
    BY <2>1, LiveHandlesTyped
  <2> QED
    BY <1>5, <1>7, <2>1, <2>2 DEF CycleInvariant, SurvivorsClosed
<1>9. h \notin closed
  <2>1. s \notin Survivors
    BY <1>1 DEF Survivors, Slots
  <2> QED
    BY <1>3, <1>7, <2>1 DEF HandleOf
<1>10. CASE rewired
  <2>1. Collection = "Rewired"
    BY <1>5, <1>10, CollectionMatchesPhase
  <2> QED
    BY <1>3, <1>4, <1>8, <1>9, <2>1 DEF Heap!Collect
<1> SUFFICES ASSUME ~rewired PROVE Heap!Collect
  BY <1>10
<1>11. \A k \in closed, t \in LiveHandles : <<k, t>> \in LiveLinks => t \in closed
  <2> SUFFICES ASSUME NEW k \in closed, NEW t \in LiveHandles, <<k, t>> \in LiveLinks
               PROVE  t \in closed
    OBVIOUS
  <2>1. k.index \in Survivors /\ t \in references[k.index] /\ Resolves(t)
    BY <1>6, <1>7, LiveHandlesTyped DEF LiveLinks
  <2> QED
    BY <1>5, <1>7, <2>1 DEF CycleInvariant, SurvivorsClosed
<1>12. h \notin Heap!Reachable
  <2> HIDE DEF closed, h
  <2> QED
    BY <1>6, <1>8, <1>11, <1>9 DEF Heap!Reachable
<1>13. Collection = "Steady"
  BY <1>5, CollectionMatchesPhase
<1> QED
  BY <1>3, <1>4, <1>12, <1>13 DEF Heap!Collect

\* The end of a destruction finishes it when the barrier ran it, and is nothing
\* to the heap when the sweep did.
LEMMA EndDestroyFinishes ==
  ASSUME TypeOK, CycleInvariant, SlotsSound, EndDestroySlot, UNCHANGED collectorVars
  PROVE  Heap!FinishDestroy \/ UNCHANGED Heap!heapVars
<1>0. Collection' = Collection
  BY SameCollection DEF collectorVars
<1> DEFINE s == destroying
           h == HandleOf(s)
<1>1. s \in Slots /\ state[s] = "Destroying" /\ call' = call
  BY DEF EndDestroySlot, CycleInvariant, LocksAgree, TypeOK
<1>2. \A t \in Slots \ {s} :
        state'[t] = state[t] /\ generation'[t] = generation[t] /\ references'[t] = references[t]
  BY <1>1 DEF EndDestroySlot, TypeOK
<1>3. \/ state'[s] = "Retired" /\ generation'[s] = generation[s]
      \/ state'[s] = "Vacant" /\ generation'[s] = generation[s] + 1
  BY <1>1 DEF EndDestroySlot, RecycledState, RecycledGeneration, TypeOK
<1>4. LiveSlots' = LiveSlots /\ LiveHandles' = LiveHandles
  BY <1>1, <1>2, <1>3, SameLive
<1>5. IssuedHandles' = IssuedHandles
  BY <1>1, <1>2, <1>3, SameIssued
<1>6. RootedHandles' = RootedHandles
  <2>1. h \notin LiveHandles
    BY <1>1 DEF LiveHandles, LiveSlots, HandleOf
  <2>2. \A k \in LiveHandles : \A r \in RootEntries : roots'[r] = k <=> roots[r] = k
    <3>1. \A r \in RootEntries : roots'[r] = IF roots[r] = h THEN NoHandle ELSE roots[r]
      BY DEF EndDestroySlot, RemoveAllRoots
    <3>2. NoHandle \notin LiveHandles
      BY LiveHandlesTyped DEF NoHandle, Handles, InvalidIndex, Slots
    <3> QED
      BY <2>1, <3>1, <3>2
  <2> QED
    BY <1>4, <2>2, SameRooted
<1>7. LiveLinks' = LiveLinks
  <2>1. \A t \in LiveSlots : references'[t] = references[t]
    BY <1>1, <1>2 DEF LiveSlots
  <2> QED
    BY <1>4, <2>1, SameLinks
<1>8. CASE call = "Barrier"
  <2>1. Pending' = Pending \ {s} /\ s \in Pending
    BY <1>1, <1>2, <1>3, <1>8 DEF Pending, Slots
  <2>2. \A t \in Pending \ {s} : HandleOf(t)' = HandleOf(t) /\ HandleOf(t) # h
    BY <1>2 DEF HandleOf, Pending
  <2>3. DoomedHandles' = DoomedHandles \ {h} /\ h \in DoomedHandles
    BY <2>1, <2>2 DEF DoomedHandles
  <2> QED
    BY <1>0, <1>4, <1>5, <1>6, <1>7, <2>3 DEF Heap!FinishDestroy
<1>9. CASE call # "Barrier"
  <2>1. DoomedHandles' = DoomedHandles
    BY <1>1, <1>2, <1>3, <1>9 DEF DoomedHandles, Pending, HandleOf, Slots
  <2> QED
    BY <1>0, <1>4, <1>5, <1>6, <1>7, <2>1 DEF Heap!heapVars
<1> QED
  BY <1>8, <1>9

\* Root tokens come and go; the heap sees the first and the last of an object.
LEMMA RootStepsMap ==
  ASSUME TypeOK, CycleInvariant, SlotsSound, NEW h \in Handles, AddRoot(h) \/ RemoveRoot(h),
         UNCHANGED collectorVars
  PROVE  Heap!Root \/ Heap!Unroot \/ UNCHANGED Heap!heapVars
<1>0. Collection' = Collection
  BY SameCollection DEF collectorVars
<1>1. UNCHANGED <<state, generation, references, call>>
  BY DEF AddRoot, RemoveRoot
<1>2. LiveHandles' = LiveHandles /\ LiveSlots' = LiveSlots
  BY <1>1, SameLive
<1>3. IssuedHandles' = IssuedHandles
  BY <1>1, SameIssued
<1>4. DoomedHandles' = DoomedHandles
  BY <1>1, SameDoomed
<1>5. LiveLinks' = LiveLinks
  BY <1>1, <1>2, SameLinks
<1>6. CASE AddRoot(h)
  <2>1. h \in LiveHandles
    BY <1>6, LiveHandlesTyped DEF AddRoot
  <2>2. PICK r \in RootEntries : roots[r] = NoHandle /\ roots' = [roots EXCEPT ![r] = h]
    BY <1>6 DEF AddRoot
  <2>3. NoHandle \notin LiveHandles
    BY LiveHandlesTyped DEF NoHandle, Handles, InvalidIndex, Slots
  <2>4. \A k \in LiveHandles : (\E q \in RootEntries : roots'[q] = k)
                             <=> k = h \/ (\E q \in RootEntries : roots[q] = k)
    BY <2>2, <2>3 DEF TypeOK
  <2>5. RootedHandles' = RootedHandles \cup {h}
    BY <1>2, <2>1, <2>4 DEF RootedHandles, RootEntries
  <2>6. Collection = "None"
    BY <1>6, UnlockedIsIdle, CollectionMatchesPhase DEF AddRoot
  <2> QED
    BY <1>0, <1>2, <1>3, <1>4, <1>5, <2>1, <2>5, <2>6 DEF Heap!Root
<1>7. CASE RemoveRoot(h)
  <2>1. PICK r \in RootEntries : roots[r] = h /\ roots' = [roots EXCEPT ![r] = NoHandle]
    BY <1>7 DEF RemoveRoot
  <2>2. NoHandle \notin LiveHandles
    BY LiveHandlesTyped DEF NoHandle, Handles, InvalidIndex, Slots
  <2>3. \A k \in LiveHandles \ {h} : (\E q \in RootEntries : roots'[q] = k)
                                   <=> (\E q \in RootEntries : roots[q] = k)
    BY <2>1, <2>2 DEF TypeOK
  <2>4. \A k \in Handles \ {h} : k \in RootedHandles' <=> k \in RootedHandles
    BY <1>2, <2>3 DEF RootedHandles
  <2>5. /\ RootedHandles \subseteq Handles /\ RootedHandles' \subseteq Handles
        /\ h \in RootedHandles' => h \in RootedHandles
    BY <1>2, <2>1, LiveHandlesTyped DEF RootedHandles
  <2>6. \/ RootedHandles' = RootedHandles
        \/ RootedHandles' = RootedHandles \ {h} /\ h \in RootedHandles
    <3> HIDE DEF RootedHandles
    <3> QED
      BY <2>4, <2>5
  <2> QED
    BY <1>0, <1>2, <1>3, <1>4, <1>5, <2>6 DEF Heap!Unroot, Heap!heapVars
<1> QED
  BY <1>6, <1>7

\* An assignment to the traced fields of a live object relinks it, and rewires the
\* collection under way when it adds a link.
LEMMA MutatorRelinks ==
  ASSUME TypeOK, CycleInvariant, CycleInvariant', SlotsSound, MutatorStep
  PROVE  Heap!Relink
<1> PICK s \in Slots, targets \in SUBSET Handles :
        /\ SetReferences(s, targets)
        /\ rewired' = (rewired \/ (phase # "Idle" /\ ~(targets \subseteq references[s])))
        /\ UNCHANGED <<phase, rootCursor, worklist, sweepCursor, visiting>>
  BY DEF MutatorStep
<1> DEFINE h == HandleOf(s)
<1>1. UNCHANGED <<state, generation, roots, call>> /\ state[s] = "Live"
  BY DEF SetReferences
<1>2. \A t \in Slots : references'[t] = IF t = s THEN targets ELSE references[t]
  BY DEF SetReferences, TypeOK
<1>3. LiveHandles' = LiveHandles /\ IssuedHandles' = IssuedHandles /\ DoomedHandles' = DoomedHandles
  BY <1>1, SameLive, SameIssued, SameDoomed
<1>4. RootedHandles' = RootedHandles
  BY <1>1, <1>3, SameRooted
<1>5. h \in LiveHandles
  BY <1>1 DEF LiveHandles, LiveSlots
<1>6. \A k \in LiveHandles : k.index \in Slots /\ (k.index = s => k = h)
  BY DEF LiveHandles, LiveSlots, HandleOf
<1>7. LiveLinks' \subseteq LiveHandles \X IssuedHandles
  <2>1. \A k \in LiveHandles : \A t \in references'[k.index] : Issued(t)
    BY <1>2, <1>6 DEF SetReferences, SlotsSound
  <2> QED
    BY <1>3, <2>1 DEF LiveLinks, IssuedHandles
<1>8. LiveLinks' \subseteq LiveLinks <=> targets \subseteq references[s]
  <2>1. ASSUME LiveLinks' \subseteq LiveLinks, NEW t \in targets PROVE t \in references[s]
    <3>1. h.index = s /\ t \in Handles /\ h \in LiveHandles'
      BY <1>3, <1>5 DEF HandleOf
    <3>2. <<h, t>> \in LiveLinks'
      BY <1>2, <3>1 DEF LiveLinks
    <3> QED
      BY <2>1, <3>1, <3>2 DEF LiveLinks
  <2>2. ASSUME targets \subseteq references[s] PROVE LiveLinks' \subseteq LiveLinks
    BY <1>2, <1>3, <1>6, <2>2 DEF LiveLinks
  <2> QED
    BY <2>1, <2>2
<1>9. Collection' = IF Collection = "None" \/ LiveLinks' \subseteq LiveLinks
                     THEN Collection ELSE "Rewired"
  <2>1. CASE phase = "Idle"
    <3>1. Collection = "None" /\ Collection' = "None"
      BY <2>1 DEF Collection
    <3> QED
      BY <3>1
  <2>2. CASE phase # "Idle" /\ targets \subseteq references[s]
    <3>1. Collection' = Collection
      BY <2>2 DEF Collection
    <3> QED
      BY <1>8, <2>2, <3>1
  <2>3. CASE phase # "Idle" /\ ~(targets \subseteq references[s])
    <3>1. Collection # "None" /\ Collection' = "Rewired"
      BY <2>3 DEF Collection
    <3> QED
      BY <1>8, <2>3, <3>1
  <2> QED
    BY <2>1, <2>2, <2>3
<1>10. {l \in LiveLinks' : l[1] # h} = {l \in LiveLinks : l[1] # h}
  BY <1>2, <1>3, <1>6 DEF LiveLinks
<1> HIDE DEF h
<1> QED
  BY <1>3, <1>4, <1>5, <1>7, <1>9, <1>10 DEF Heap!Relink

\* A phase function runs only in a cycle.
LEMMA CollectorNeedsCycle ==
  ASSUME CycleInvariant, CollectorStep \/ ReturnFromAdvance
  PROVE  phase # "Idle"
<1>1. call \in AdvanceCalls
  BY DEF CollectorStep, ReturnFromAdvance, HasWorkLeft, SeedRoot, EndSeedRoots, PopWorklist,
     ReportReference, EndMark, SweepSlot, EndSweep, AdvanceCalls
<1> QED
  BY <1>1, IdleFacts

\* Every step of the store and its collector is a step of the heap or none.
LEMMA StepMaps ==
  ASSUME TypeOK, CycleInvariant, CycleInvariant', RootsNameOccupants, SlotsSound, [Next]_vars
  PROVE  Heap!HeapNext \/ UNCHANGED Heap!heapVars
<1>1. CASE UNCHANGED vars
  BY <1>1, HeapUnchanged, SameCollection DEF vars, storeVars, collectorVars
<1>2. CASE StoreStep
  <2>0. UNCHANGED collectorVars /\ Collection' = Collection
    BY <1>2, SameCollection DEF StoreStep, collectorVars
  <2>1. CASE BeginConstruction \/ BeginDispatch \/ EndDispatch
    <3>1. UNCHANGED <<state, generation, references, roots>>
      BY <2>1 DEF BeginConstruction, BeginDispatch, EndDispatch
    <3>2. \A s \in Slots : state[s] = "Destroying" => (call' = "Barrier" <=> call = "Barrier")
      <4>1. CASE BeginConstruction
        BY <4>1, UnlockedIsIdle, StoreAssumption
           DEF BeginConstruction, CycleInvariant, LocksAgree, InvalidIndex, Slots,
               StoreAssumption
      <4>2. CASE BeginDispatch \/ EndDispatch
        BY <4>2 DEF BeginDispatch, EndDispatch
      <4> QED
        BY <2>1, <4>1, <4>2
    <3> QED
      BY <2>0, <3>1, <3>2, HeapUnchanged
  <2>2. CASE EndApplyPendingDestroy \/ \E budget \in 1..SlotCount : BeginApplyPendingDestroy(budget)
    <3>1. \A s \in Slots : state[s] # "Destroying"
      BY <2>2 DEF EndApplyPendingDestroy, BeginApplyPendingDestroy, CycleInvariant, LocksAgree,
         IsMutationLocked, Slots, InvalidIndex
    <3>2. UNCHANGED <<state, generation, references, roots>>
      BY <2>2 DEF EndApplyPendingDestroy, BeginApplyPendingDestroy
    <3> QED
      BY <2>0, <3>1, <3>2, HeapUnchanged
  <2>3. CASE Reserve \/ RollbackConstruction
    <3>1. /\ UNCHANGED <<generation, references, roots>>
          /\ call # "Barrier" /\ call' # "Barrier"
      BY <2>3 DEF Reserve, RollbackConstruction
    <3>2. \A s \in Slots : \/ state'[s] = state[s]
                           \/ /\ state[s] \in {"Vacant", "Constructing"}
                              /\ state'[s] \in {"Vacant", "Constructing"}
      <4>1. CASE Reserve
        BY <4>1 DEF Reserve, TypeOK
      <4>2. CASE RollbackConstruction
        BY <4>2 DEF RollbackConstruction, Reserved
      <4> QED
        BY <2>3, <4>1, <4>2
    <3>3. LiveHandles' = LiveHandles /\ LiveSlots' = LiveSlots
      BY <3>1, <3>2, SameLive
    <3>4. IssuedHandles' = IssuedHandles /\ DoomedHandles' = DoomedHandles
      BY <3>1, <3>2, SameIssued, SameDoomed
    <3>5. RootedHandles' = RootedHandles /\ LiveLinks' = LiveLinks
      BY <3>1, <3>3, SameRooted, SameLinks
    <3> QED
      BY <2>0, <3>3, <3>4, <3>5 DEF Heap!heapVars
  <2>4. CASE Commit
    BY <2>0, <2>4, CommitPublishes DEF Heap!HeapNext
  <2>5. CASE \E h \in Handles : MarkPendingDestroy(h)
    BY <2>0, <2>5, RequestRemoves DEF Heap!HeapNext
  <2>6. CASE VisitPendingSlot
    <3>1. state \in [Slots -> SlotStates]
      BY DEF TypeOK
    <3>2. \A s \in Slots : \/ state'[s] = state[s]
                           \/ state[s] = "PendingDestroy" /\ state'[s] = "Destroying"
      BY <2>6, <3>1 DEF VisitPendingSlot, BeginDestroySlot
    <3>3. UNCHANGED <<generation, references, roots>> /\ call = "Barrier" /\ call' = "Barrier"
      BY <2>6 DEF VisitPendingSlot
    <3>4. LiveHandles' = LiveHandles /\ LiveSlots' = LiveSlots
      BY <3>2, <3>3, SameLive
    <3>5. IssuedHandles' = IssuedHandles /\ DoomedHandles' = DoomedHandles
      BY <3>2, <3>3, SameIssued, SameDoomed
    <3>6. RootedHandles' = RootedHandles /\ LiveLinks' = LiveLinks
      BY <3>3, <3>4, SameRooted, SameLinks
    <3> QED
      BY <2>0, <3>4, <3>5, <3>6 DEF Heap!heapVars
  <2>7. CASE EndDestroySlot
    BY <2>0, <2>7, EndDestroyFinishes DEF Heap!HeapNext
  <2>8. CASE \E h \in Handles : AddRoot(h) \/ RemoveRoot(h)
    BY <2>0, <2>8, RootStepsMap DEF Heap!HeapNext
  <2> QED
    BY <1>2, <2>1, <2>2, <2>3, <2>4, <2>5, <2>6, <2>7, <2>8 DEF StoreStep
<1>3. CASE MutatorStep
  BY <1>3, MutatorRelinks DEF Heap!HeapNext
<1>4. CASE SweepSlot
  <2>1. CASE state' # state
    BY <1>4, <2>1, SweepCollects DEF Heap!HeapNext
  <2>2. CASE state' = state
    <3>1. UNCHANGED <<generation, references, roots, call, phase, rewired>>
      BY <1>4 DEF SweepSlot
    <3> QED
      BY <2>2, <3>1, HeapUnchanged, SameCollection
  <2> QED
    BY <2>1, <2>2
<1>5. CASE \/ RequestCollection \/ BeginAdvance \/ ReturnFromAdvance \/ CancelCollection
           \/ SeedRoot \/ EndSeedRoots \/ PopWorklist \/ ReportReference \/ EndMark
           \/ EndSweep
  <2>1. references' = references
    BY <1>5 DEF RequestCollection, BeginAdvance, ReturnFromAdvance, CancelCollection, SeedRoot,
       EndSeedRoots, PopWorklist, ReportReference, EndMark, EndSweep, otherStoreVars
  <2>2. /\ UNCHANGED <<state, generation, roots>>
        /\ call' = "Barrier" <=> call = "Barrier"
    BY <1>5, CollectorLeavesSlots
  <2>3. UNCHANGED <<LiveHandles, IssuedHandles, DoomedHandles, RootedHandles, LiveLinks>>
    BY <2>1, <2>2, ObjectsUnchanged
  <2>4. \/ Collection' = Collection
        \/ Collection = "None" /\ Collection' = "Steady"
        \/ Collection # "None" /\ Collection' = "None"
    <3>1. CASE RequestCollection
      <4>1. phase = "Idle" /\ phase' = "SeedRoots" /\ ~rewired /\ ~rewired'
        BY <3>1 DEF RequestCollection, CycleInvariant, LocksAgree
      <4> QED
        BY <4>1, CollectionMatchesPhase DEF Collection
    <3>2. CASE BeginAdvance \/ ReturnFromAdvance \/ PopWorklist
      BY <3>2, SameCollection DEF BeginAdvance, ReturnFromAdvance, PopWorklist, collectorVars
    <3>3. CASE \/ CancelCollection \/ SeedRoot \/ EndSeedRoots \/ ReportReference \/ EndMark
               \/ EndSweep
      <4>1. phase # "Idle"
        BY <3>3, CollectorNeedsCycle DEF CancelCollection, CollectorStep
      <4>2. phase' = "Idle" \/ (phase' # "Idle" /\ rewired' = rewired)
        BY <3>3, <4>1 DEF CancelCollection, SeedRoot, EndSeedRoots, ReportReference, EndMark,
           EndSweep, DiscoverReference, ResetCycle
      <4> QED
        BY <4>1, <4>2 DEF Collection
    <3> QED
      BY <1>5, <3>1, <3>2, <3>3
  <2> QED
    BY <2>3, <2>4 DEF Heap!HeapNext, Heap!BeginCollection, Heap!EndCollection, Heap!heapVars
<1> QED
  BY <1>1, <1>2, <1>3, <1>4, <1>5 DEF Next, CollectorStep

\* An empty store is an empty heap.
LEMMA InitMaps == Init => SlotsSound /\ Heap!HeapInit
<1> SUFFICES ASSUME Init PROVE SlotsSound /\ Heap!HeapInit
  OBVIOUS
<1>1. \A s \in Slots : state[s] = "Vacant" /\ generation[s] = 0 /\ references[s] = {}
  BY DEF Init, StoreInit
<1>2. SlotsSound
  BY <1>1 DEF SlotsSound, Occupied
<1>3. LiveHandles = {} /\ DoomedHandles = {}
  BY <1>1 DEF LiveHandles, LiveSlots, DoomedHandles, Pending
<1>4. IssuedHandles = {}
  BY <1>1 DEF IssuedHandles, Issued, Handles
<1>5. Collection = "None"
  BY DEF Init, CollectorInit, Collection
<1> QED
  BY <1>2, <1>3, <1>4, <1>5 DEF Heap!HeapInit, RootedHandles, LiveLinks

\* The store and its incremental collector implement the managed heap for every
\* capacity: handles are never reused, and whatever budgets a cycle is cut into,
\* it takes only what no root reaches, unless the program gave a traced field a new
\* target while it was suspended (GarbageCollector.cpp:146-309).
THEOREM StoreImplementsHeap == Spec => HeapRefinement
<1>1. TypeOK /\ TypeOK' /\ CycleInvariant /\ SlotsSound /\ [Next]_vars => SlotsSound'
  BY SlotsStaySound
<1>2. Spec => []SlotsSound
  BY <1>1, InitMaps, TypeCorrect, CycleCorrect, PTL DEF Spec
<1>3. TypeOK /\ CycleInvariant /\ CycleInvariant' /\ RootsNameOccupants /\ SlotsSound
        /\ [Next]_vars => [Heap!HeapNext]_(Heap!heapVars)
  BY StepMaps
<1> QED
  BY <1>2, <1>3, InitMaps, TypeCorrect, CycleCorrect, RootsSound, PTL
     DEF Spec, HeapRefinement, Heap!HeapSpec

----------------------------------------------------------------------------
(* What a completed cycle has reclaimed.                                   *)

\* Of what was garbage at the request, the rest is not found: it is unmarked, nobody
\* is about to report it, no root holds it, only garbage refers to it, and the sweep
\* has not passed it.
Undiscovered(h) ==
    /\ ~marked[h.index] /\ h \notin visiting
    /\ \A r \in RootEntries : roots[r] # h
    /\ \A s \in LiveSlots : h \in references[s] => HandleOf(s) \in garbageAtRequest
    /\ phase = "Sweep" => h.index >= sweepCursor

GarbageSound ==
    /\ garbageAtRequest \subseteq Handles
    /\ ~rewired => \A h \in garbageAtRequest : Resolves(h) => Undiscovered(h)

LEMMA ReachableHolds ==
    ASSUME TypeOK
    PROVE  /\ RootedHandles \subseteq Heap!Reachable
           /\ \A k \in Heap!Reachable, t \in LiveHandles :
                 <<k, t>> \in LiveLinks => t \in Heap!Reachable
<1>1. RootedHandles \subseteq LiveHandles
  BY DEF RootedHandles
<1>2. RootedHandles \subseteq Heap!Reachable
  BY <1>1 DEF Heap!Reachable
<1>3. ASSUME NEW k \in Heap!Reachable, NEW t \in LiveHandles, <<k, t>> \in LiveLinks
      PROVE  t \in Heap!Reachable
  <2> SUFFICES ASSUME NEW closed \in SUBSET LiveHandles, RootedHandles \subseteq closed,
                      \A j \in closed, u \in LiveHandles : <<j, u>> \in LiveLinks => u \in closed
               PROVE  t \in closed
    BY DEF Heap!Reachable
  <2>1. k \in closed
    BY DEF Heap!Reachable
  <2> QED
    BY <1>3, <2>1
<1> QED
  BY <1>2, <1>3

\* At the request: nothing is marked yet, and what is not reachable is held by nobody else.
LEMMA RequestFindsGarbage ==
    ASSUME TypeOK, CycleInvariant, SlotsSound, RequestCollection, garbageAtRequest' = Unreachable
    PROVE  GarbageSound'
<1>1. /\ UNCHANGED <<state, generation, references, roots, marked, visiting>>
      /\ phase = "Idle" /\ phase' = "SeedRoots"
  BY DEF RequestCollection, otherStoreVars
<1>2. \A h : Resolves(h)' <=> Resolves(h)
  BY <1>1 DEF Resolves
<1>3. Unreachable \subseteq LiveHandles /\ LiveHandles \subseteq Handles
  BY LiveHandlesTyped DEF Unreachable
<1>4. ASSUME NEW h \in Unreachable, Resolves(h)
      PROVE  Undiscovered(h)'
  <2>1. h.index \in Slots /\ ~marked[h.index] /\ visiting = {}
    BY <1>1, <1>4, IdleFacts DEF Resolves, Handles
  <2>2. \A r \in RootEntries : roots[r] # h
    BY <1>3, ReachableHolds DEF Unreachable, RootedHandles
  <2>3. ASSUME NEW s \in LiveSlots, h \in references[s]
        PROVE  HandleOf(s) \in Unreachable
    <3>1. HandleOf(s) \in LiveHandles /\ HandleOf(s).index = s
      BY DEF LiveHandles, HandleOf
    <3>2. <<HandleOf(s), h>> \in LiveLinks
      BY <1>3, <2>3, <3>1 DEF LiveLinks
    <3> QED
      BY <1>3, <3>1, <3>2, ReachableHolds DEF Unreachable
  <2>4. LiveSlots' = LiveSlots /\ \A s \in Slots : HandleOf(s)' = HandleOf(s)
    BY <1>1 DEF LiveSlots, HandleOf
  <2> QED
    BY <1>1, <2>1, <2>2, <2>3, <2>4 DEF Undiscovered, LiveSlots
<1> QED
  BY <1>2, <1>3, <1>4 DEF GarbageSound

LEMMA GarbageStays ==
    ASSUME GarbageSound, garbageAtRequest' = garbageAtRequest, rewired => rewired',
           \A h \in garbageAtRequest \cap Handles : Resolves(h)' =>
               Resolves(h) /\ (Undiscovered(h) => Undiscovered(h)')
    PROVE  GarbageSound'
  BY DEF GarbageSound

\* What the program does during a cycle: roots go, and destructions end.
LEMMA StoreStepKeepsGarbage ==
    ASSUME TypeOK, CycleInvariant, phase # "Idle", GarbageSound, StoreStep,
           garbageAtRequest' = garbageAtRequest
    PROVE  GarbageSound'
<1>1. /\ activeCollector /\ IsMutationLocked /\ ~dispatchLocked
      /\ call \notin {"Construct", "Barrier"}
  BY DEF CycleInvariant, LocksAgree, IsMutationLocked
<1>2. \/ EndDestroySlot \/ \E h \in Handles : RemoveRoot(h)
  BY <1>1 DEF StoreStep, BeginConstruction, Reserve, Commit, RollbackConstruction,
     MarkPendingDestroy, BeginApplyPendingDestroy, VisitPendingSlot, EndApplyPendingDestroy,
     AddRoot, BeginDispatch, EndDispatch
<1>3. UNCHANGED <<phase, visiting, sweepCursor, rewired>>
  BY DEF StoreStep, collectorVars
<1>4. CASE \E g \in Handles : RemoveRoot(g)
  <2>1. UNCHANGED <<state, generation, marked, references>>
    BY <1>4 DEF RemoveRoot
  <2>2. \A r \in RootEntries : roots'[r] = roots[r] \/ roots'[r] = NoHandle
    BY <1>4 DEF RemoveRoot, TypeOK
  <2>3. NoHandle \notin Handles
    BY StoreAssumption DEF NoHandle, Handles, InvalidIndex, Slots
  <2>4. LiveSlots' = LiveSlots /\ \A s \in LiveSlots : HandleOf(s)' = HandleOf(s)
    BY <2>1 DEF LiveSlots, HandleOf
  <2>5. \A h \in Handles : Resolves(h)' => Resolves(h)
    BY <2>1 DEF Resolves
  <2>6. \A h \in garbageAtRequest \cap Handles : Undiscovered(h) => Undiscovered(h)'
    BY <1>3, <2>1, <2>2, <2>3, <2>4 DEF Undiscovered
  <2> QED
    BY <1>3, <2>5, <2>6, GarbageStays
<1>5. CASE EndDestroySlot
  <2> DEFINE d == destroying
  <2>1. d \in Slots /\ state[d] = "Destroying"
    BY <1>5 DEF EndDestroySlot, TypeOK, CycleInvariant, LocksAgree
  <2>2. /\ state'[d] # "Live"
        /\ \A s \in Slots \ {d} : /\ state'[s] = state[s] /\ generation'[s] = generation[s]
                                /\ marked'[s] = marked[s] /\ references'[s] = references[s]
        /\ \A r \in RootEntries : roots'[r] = roots[r] \/ roots'[r] = NoHandle
    BY <1>5, <2>1 DEF EndDestroySlot, RecycledState, RemoveAllRoots, TypeOK
  <2> HIDE DEF d
  <2>3. NoHandle \notin Handles
    BY StoreAssumption DEF NoHandle, Handles, InvalidIndex, Slots
  <2>4. LiveSlots' \subseteq LiveSlots \ {d}
        /\ \A s \in LiveSlots' : s # d /\ HandleOf(s)' = HandleOf(s)
    BY <2>1, <2>2 DEF LiveSlots, HandleOf
  <2>5. \A h \in Handles : Resolves(h)' => Resolves(h) /\ h.index # d /\ h.index \in Slots
    BY <2>2 DEF Resolves, Handles
  <2>6. \A s \in LiveSlots' : references'[s] = references[s]
    BY <2>2, <2>4 DEF LiveSlots
  <2>7. \A h \in garbageAtRequest \cap Handles :
           Resolves(h)' /\ Undiscovered(h) => Undiscovered(h)'
    BY <1>3, <2>2, <2>3, <2>4, <2>5, <2>6 DEF Undiscovered
  <2> QED
    BY <1>3, <2>5, <2>7, GarbageStays
<1> QED
  BY <1>2, <1>4, <1>5

\* Discovery is of what somebody reports, so of no garbage.
LEMMA DiscoveryKeepsGarbage ==
    ASSUME TypeOK, GarbageSound, phase' # "Idle", garbageAtRequest' = garbageAtRequest,
           NEW g, NEW cursor, NEW rest, rest \subseteq visiting,
           \A h \in garbageAtRequest : Undiscovered(h) => g # h,
           UNCHANGED otherStoreVars, DiscoverReference(g, cursor, rest)
    PROVE  GarbageSound'
<1>1. UNCHANGED <<state, generation, references, roots>>
  BY DEF otherStoreVars
<1>2. /\ UNCHANGED <<phase, sweepCursor, rewired>> /\ visiting' = rest
      /\ marked' # marked => Resolves(g) /\ marked' = [marked EXCEPT ![g.index] = TRUE]
  BY DEF DiscoverReference, ResetCycle, IsAlreadyProcessed
<1>3. LiveSlots' = LiveSlots /\ \A s \in LiveSlots : HandleOf(s)' = HandleOf(s)
  BY <1>1 DEF LiveSlots, HandleOf
<1>4. \A h \in Handles : Resolves(h)' => Resolves(h)
  BY <1>1 DEF Resolves
<1>5. ASSUME NEW h \in garbageAtRequest \cap Handles, Resolves(h), Undiscovered(h)
      PROVE  Undiscovered(h)'
  <2>1. ~marked'[h.index]
    <3>1. CASE marked' = marked
      BY <1>5, <3>1 DEF Undiscovered
    <3>2. CASE marked' # marked
      <4>1. g \in Handles /\ g # h
        BY <1>2, <1>5, <3>2 DEF Resolves
      <4>2. g.index # h.index
        BY <1>2, <1>5, <3>2, <4>1 DEF Resolves, Handles
      <4> QED
        BY <1>2, <1>5, <3>2, <4>2 DEF Undiscovered, TypeOK, Handles
    <3> QED
      BY <3>1, <3>2
  <2> QED
    BY <1>1, <1>2, <1>3, <1>5, <2>1 DEF Undiscovered
<1> QED
  BY <1>2, <1>4, <1>5, GarbageStays

\* Whom a popped object refers to is no garbage, for it is marked.
LEMMA PopKeepsGarbage ==
    ASSUME TypeOK, CycleInvariant, GarbageSound, PopWorklist,
           garbageAtRequest' = garbageAtRequest
    PROVE  GarbageSound'
<1>1. UNCHANGED <<state, generation, references, roots, marked, phase, sweepCursor, rewired>>
  BY DEF PopWorklist, otherStoreVars
<1> SUFFICES ASSUME ~rewired PROVE GarbageSound'
  BY <1>1 DEF GarbageSound
<1>2. LiveSlots' = LiveSlots /\ \A s \in LiveSlots : HandleOf(s)' = HandleOf(s)
  BY <1>1 DEF LiveSlots, HandleOf
<1>3. \A h \in Handles : Resolves(h)' => Resolves(h)
  BY <1>1 DEF Resolves
<1> DEFINE w == worklist[Len(worklist)]
<1>4. Len(worklist) \in 1..Len(worklist)
  BY DEF PopWorklist, TypeOK
<1>5. w \in Handles /\ Resolves(w) /\ marked[w.index]
  BY <1>4 DEF CycleInvariant, WorklistSound, TypeOK
<1>6. visiting' = references[w.index]
  BY <1>5 DEF PopWorklist
<1> HIDE DEF w
<1>7. w.index \in LiveSlots /\ HandleOf(w.index) = w
  BY <1>5 DEF Resolves, LiveSlots, HandleOf, Handles
<1>8. w \notin garbageAtRequest
  BY <1>5 DEF GarbageSound, Undiscovered
<1>9. \A h \in garbageAtRequest \cap Handles : Undiscovered(h) => Undiscovered(h)'
  BY <1>1, <1>2, <1>6, <1>7, <1>8 DEF Undiscovered
<1> QED
  BY <1>1, <1>3, <1>9, GarbageStays

\* The sweep passes no garbage without destroying it.
LEMMA SweepKeepsGarbage ==
    ASSUME TypeOK, GarbageSound, SweepSlot, garbageAtRequest' = garbageAtRequest
    PROVE  GarbageSound'
<1> DEFINE c == sweepCursor
<1>1. c \in Slots /\ sweepCursor' = c + 1
  BY StoreAssumption DEF SweepSlot, TypeOK, Slots
<1>2. UNCHANGED <<generation, references, roots, phase, visiting, rewired>>
  BY DEF SweepSlot
<1>3. /\ \A s \in Slots \ {c} : state'[s] = state[s] /\ marked'[s] = marked[s]
      /\ state'[c] = "Live" => state[c] = "Live" /\ marked[c]
  BY <1>1 DEF SweepSlot, BeginDestroySlot, TypeOK
<1> HIDE DEF c
<1>4. LiveSlots' \subseteq LiveSlots /\ \A s \in LiveSlots' : HandleOf(s)' = HandleOf(s)
  BY <1>1, <1>2, <1>3 DEF LiveSlots, HandleOf
<1>5. \A h \in Handles : h.index \in Slots /\ (Resolves(h)' => Resolves(h))
  BY <1>1, <1>2, <1>3 DEF Resolves, Handles
<1>6. ASSUME NEW h \in garbageAtRequest \cap Handles, Resolves(h)', Undiscovered(h)
      PROVE  Undiscovered(h)'
  <2>1. h.index # c /\ h.index \in Slots
    BY <1>3, <1>5, <1>6 DEF Undiscovered, Resolves
  <2>2. phase = "Sweep" => h.index >= c + 1
    BY <1>1, <1>6, <2>1 DEF Undiscovered, Slots, c
  <2>3. ~marked'[h.index]
    BY <1>3, <1>6, <2>1 DEF Undiscovered
  <2>4. \A s \in LiveSlots' : h \in references'[s] => HandleOf(s)' \in garbageAtRequest
    BY <1>2, <1>4, <1>6 DEF Undiscovered
  <2> QED
    BY <1>1, <1>2, <1>6, <2>2, <2>3, <2>4 DEF Undiscovered
<1> QED
  BY <1>2, <1>5, <1>6, GarbageStays

\* The other steps of a cycle look at no object.
LEMMA ControlKeepsGarbage ==
    ASSUME TypeOK, CycleInvariant, GarbageSound, garbageAtRequest' = garbageAtRequest,
           BeginAdvance \/ ReturnFromAdvance \/ EndSeedRoots \/ EndMark \/ UNCHANGED vars
    PROVE  GarbageSound'
<1>1. UNCHANGED <<state, generation, references, roots, marked, visiting, sweepCursor, rewired>>
  BY DEF BeginAdvance, ReturnFromAdvance, EndSeedRoots, EndMark, otherStoreVars,
     collectorVars, vars, storeVars
<1>2. phase' = "Sweep" => phase = "Sweep" \/ sweepCursor = 0
  BY DEF BeginAdvance, ReturnFromAdvance, EndSeedRoots, EndMark, collectorVars, vars,
     CycleInvariant, LocksAgree, DiscoveryComplete, AdvanceCalls
<1>3. LiveSlots' = LiveSlots /\ \A s \in LiveSlots : HandleOf(s)' = HandleOf(s)
  BY <1>1 DEF LiveSlots, HandleOf
<1>4. \A h \in Handles : (Resolves(h)' => Resolves(h)) /\ h.index \in Slots
  BY <1>1 DEF Resolves, Handles
<1>5. \A h \in garbageAtRequest \cap Handles : Undiscovered(h) => Undiscovered(h)'
  BY <1>1, <1>2, <1>3, <1>4 DEF Undiscovered, Slots
<1> QED
  BY <1>1, <1>4, <1>5, GarbageStays

\* A field that gets no new target makes nothing reachable.
LEMMA MutatorKeepsGarbage ==
    ASSUME TypeOK, GarbageSound, MutatorStep, phase # "Idle",
           garbageAtRequest' = garbageAtRequest
    PROVE  GarbageSound'
<1>1. PICK s \in Slots, targets \in SUBSET Handles :
        /\ SetReferences(s, targets)
        /\ rewired' = (rewired \/ (phase # "Idle" /\ ~(targets \subseteq references[s])))
        /\ UNCHANGED <<phase, rootCursor, worklist, sweepCursor, visiting>>
  BY DEF MutatorStep
<1>2. CASE rewired'
  BY <1>2 DEF GarbageSound
<1>3. CASE ~rewired'
  <2>0. ~rewired
    BY <1>1, <1>3, Zenon
  <2>1. targets \subseteq references[s]
    BY <1>1, <1>3, Zenon
  <2>2. \A t \in Slots : references'[t] \subseteq references[t]
    BY <1>1, <2>1 DEF SetReferences, TypeOK
  <2>3. UNCHANGED <<state, generation, roots, marked, visiting, sweepCursor, phase>>
    BY <1>1 DEF SetReferences
  <2>4. LiveSlots' = LiveSlots /\ LiveSlots \subseteq Slots
        /\ \A t \in LiveSlots : HandleOf(t)' = HandleOf(t)
    BY <2>3 DEF LiveSlots, HandleOf
  <2>5. \A h \in Handles : Resolves(h)' => Resolves(h)
    BY <2>3 DEF Resolves
  <2>6. \A h \in garbageAtRequest \cap Handles : Undiscovered(h) => Undiscovered(h)'
    BY <2>2, <2>3, <2>4 DEF Undiscovered
  <2> QED
    BY <2>0, <2>5, <2>6, GarbageStays
<1> QED
  BY <1>2, <1>3

LEMMA GarbageHolds ==
    ASSUME TypeOK, CycleInvariant, SlotsSound, GarbageSound,
           [Next /\ RemembersGarbage]_<<vars, garbageAtRequest>>
    PROVE  GarbageSound'
<1>1. CASE UNCHANGED <<vars, garbageAtRequest>>
  BY <1>1, ControlKeepsGarbage
<1>2. CASE Next /\ RemembersGarbage /\ phase' = "Idle"
  BY <1>2 DEF RemembersGarbage, GarbageSound
<1>3. CASE Next /\ RemembersGarbage /\ phase = "Idle" /\ phase' # "Idle"
  <2>1. RequestCollection
    BY <1>3, CollectorNeedsCycle DEF Next, StoreStep, MutatorStep, BeginAdvance,
       CancelCollection, collectorVars
  <2>2. phase' = "SeedRoots"
    BY <2>1 DEF RequestCollection
  <2> QED
    BY <1>3, <2>1, <2>2, RequestFindsGarbage DEF RemembersGarbage
<1>4. CASE Next /\ RemembersGarbage /\ phase # "Idle" /\ phase' # "Idle"
  <2>1. garbageAtRequest' = garbageAtRequest
    BY <1>4 DEF RemembersGarbage
  <2>2. CASE StoreStep
    BY <1>4, <2>1, <2>2, StoreStepKeepsGarbage
  <2>3. CASE BeginAdvance \/ ReturnFromAdvance \/ EndSeedRoots \/ EndMark
    BY <2>1, <2>3, ControlKeepsGarbage
  <2>4. CASE SeedRoot
    <3>1. /\ roots[rootCursor] \in {roots[r] : r \in RootEntries}
          /\ UNCHANGED otherStoreVars
          /\ DiscoverReference(roots[rootCursor], rootCursor + 1, {})
      BY <2>4, StoreAssumption DEF SeedRoot, TypeOK, RootEntries
    <3> QED
      BY <1>4, <2>1, <3>1, DiscoveryKeepsGarbage DEF Undiscovered
  <2>5. CASE ReportReference
    <3>1. PICK g \in visiting : DiscoverReference(g, rootCursor, visiting \ {g})
      BY <2>5 DEF ReportReference
    <3>2. UNCHANGED otherStoreVars
      BY <2>5 DEF ReportReference
    <3> QED
      BY <1>4, <2>1, <3>1, <3>2, DiscoveryKeepsGarbage DEF Undiscovered
  <2>6. CASE PopWorklist
    BY <2>1, <2>6, PopKeepsGarbage
  <2>7. CASE SweepSlot
    BY <2>1, <2>7, SweepKeepsGarbage
  <2>8. CASE RequestCollection \/ CancelCollection \/ EndSweep
    BY <1>4, <2>8 DEF RequestCollection, CancelCollection, ResetCycle, EndSweep
  <2>9. CASE MutatorStep
    BY <1>4, <2>1, <2>9, MutatorKeepsGarbage
  <2> QED
    BY <1>4, <2>2, <2>3, <2>4, <2>5, <2>6, <2>7, <2>8, <2>9 DEF Next, CollectorStep
<1> QED
  BY <1>1, <1>2, <1>3, <1>4

\* Whatever was garbage when a cycle was requested is gone when the cycle completes, for
\* every number of slots, roots and objects, however the cycle is cut into budgets and
\* whatever its callbacks do, as long as no traced field gets a new target: nothing floats to the next cycle, and no mark of an
\* earlier one keeps anything (GarbageCollector.cpp:109-113, 279-317, 401-428).
THEOREM CyclesReclaimGarbage == CycleSpec => CycleReclaimsGarbage
<1>1. CycleSpec => Spec
  <2>1. MCInit => Init
    BY DEF MCInit
  <2>2. [Next /\ RemembersGarbage]_<<vars, garbageAtRequest>> => [Next]_vars
    OBVIOUS
  <2> QED
    BY <2>1, <2>2, PTL DEF CycleSpec, Spec
<1>2. Spec => [](TypeOK /\ CycleInvariant /\ SlotsSound)
  <2>1. TypeOK /\ TypeOK' /\ CycleInvariant /\ SlotsSound /\ [Next]_vars => SlotsSound'
    BY SlotsStaySound
  <2> QED
    BY <2>1, InitMaps, TypeCorrect, CycleCorrect, PTL DEF Spec
<1>3. MCInit => GarbageSound
  BY DEF MCInit, GarbageSound
<1>4. /\ TypeOK /\ CycleInvariant /\ SlotsSound /\ GarbageSound
      /\ [Next /\ RemembersGarbage]_<<vars, garbageAtRequest>>
      => GarbageSound'
  BY GarbageHolds
<1>5. /\ TypeOK /\ CycleInvariant /\ GarbageSound /\ EndSweep /\ ~rewired
      => \A h \in garbageAtRequest : ~Resolves(h)
  <2> SUFFICES ASSUME TypeOK, CycleInvariant, GarbageSound, EndSweep, ~rewired,
                      NEW h \in garbageAtRequest, Resolves(h)
               PROVE  FALSE
    OBVIOUS
  <2>1. phase = "Sweep" /\ sweepCursor >= SlotCount
    BY DEF EndSweep, CycleInvariant, LocksAgree, AdvanceCalls
  <2>2. h.index \in Slots /\ h.index >= sweepCursor
    BY <2>1 DEF GarbageSound, Undiscovered, Handles
  <2> QED
    BY <2>1, <2>2, StoreAssumption DEF Slots, TypeOK
<1>6. /\ TypeOK /\ CycleInvariant /\ GarbageSound
      => [EndSweep /\ ~rewired => \A h \in garbageAtRequest : ~Resolves(h)]_<<vars, garbageAtRequest>>
  BY <1>5
<1> QED
  BY <1>1, <1>2, <1>3, <1>4, <1>6, PTL DEF CycleSpec, CycleReclaimsGarbage

----------------------------------------------------------------------------
(* A step of the engine as the store sees it.                              *)

CollectorMoves ==
    \/ MutatorStep \/ RequestCollection \/ BeginAdvance
    \/ CollectorStep \/ ReturnFromAdvance \/ CancelCollection

\* A construction of one object in one step, with or without its root.
Publish(s) ==
    /\ ~IsMutationLocked /\ call = "None"
    /\ state[s] = "Vacant"
    /\ state' = [state EXCEPT ![s] = "Live"]
    /\ generation' = [generation EXCEPT ![s] = NextPublishGeneration(generation[s])]
    /\ \/ UNCHANGED roots
       \/ \E r \in RootEntries :
            /\ roots[r] = NoHandle
            /\ roots' = [roots EXCEPT
                    ![r] = [index |-> s, generation |-> NextPublishGeneration(generation[s])]]
    /\ UNCHANGED <<marked, references, pendingDestroyCount, pendingDestroyScanCursor,
                   mutationLocked, dispatchLocked, activeCollector, call, destroying,
                   visitsLeft, collectorVars>>

PublishWorld == \E s \in Slots : Publish(s)

LEMMA WorldPublished == CreateWorld => PublishWorld \/ UNCHANGED vars
<1> SUFFICES ASSUME CreateWorld, ~UNCHANGED vars PROVE PublishWorld
  OBVIOUS
<1>1. PICK s \in Slots :
        LET h == [index |-> s, generation |-> NextPublishGeneration(generation[s])] IN
        /\ ~IsMutationLocked /\ call = "None"
        /\ FirstVacant(s)
        /\ state' = [state EXCEPT ![s] = "Live"]
        /\ generation' = [generation EXCEPT ![s] = h.generation]
        /\ \/ UNCHANGED roots
           \/ \E r \in RootEntries : FirstFree(r) /\ roots' = [roots EXCEPT ![r] = h]
        /\ UNCHANGED <<marked, references, pendingDestroyCount, pendingDestroyScanCursor,
                       mutationLocked, dispatchLocked, activeCollector, call, destroying,
                       visitsLeft, collectorVars>>
  BY DEF CreateWorld
<1>2. Publish(s)
  BY <1>1 DEF Publish, FirstVacant, FirstFree
<1> QED
  BY <1>2 DEF PublishWorld

\* What a step of the engine asks of the store and its collector.
LEMMA EngineUsesStore ==
  ASSUME FrameNext
  PROVE  StoreStep \/ CollectorMoves \/ PublishWorld \/ UNCHANGED vars
<1>1. CASE Compose
  BY <1>1, WorldPublished DEF Compose, ConfigureNetworking, CreateMessagingSystem,
     CreateNetworkSystem
<1>2. CASE BeginApplication \/ BeginTick \/ EndApplication
  BY <1>2 DEF BeginApplication, BeginTick, EndApplication, frameOnly
<1>3. CASE UseStore
  BY <1>3 DEF UseStore, CollectorMoves
<1>4. CASE ToggleWorldDispatch
  BY <1>4 DEF ToggleWorldDispatch, StoreStep
<1>5. CASE GiveTurn \/ EndTurns
  BY <1>5 DEF GiveTurn, EndTurns
<1>6. CASE \/ BeginWorld \/ FailApplication \/ AdvanceTimers \/ Barrier \/ EndReclaim
           \/ EndTick \/ EndCall
  BY <1>6 DEF BeginWorld, FailApplication, AdvanceTimers, Barrier, EndReclaim, EndTick,
     EndCall, frameOnly
<1>7. CASE CompletePriorCollection
  BY <1>7 DEF CompletePriorCollection, CollectorMoves
<1>8. CASE AdvanceWorld
  BY <1>8 DEF AdvanceWorld, StoreStep
<1>9. CASE ReclaimPendingDestroy
  BY <1>9, FrameAssumption DEF ReclaimPendingDestroy, StoreStep, FrameAssumption
<1>10. CASE RequestFrameCollection \/ AdvanceFrameCollection
  BY <1>10 DEF RequestFrameCollection, AdvanceFrameCollection, CollectorMoves
<1>11. CASE Collect \/ Reclaim
  BY <1>11 DEF Collect, Reclaim, CollectorMoves, StoreStep
<1>12. CASE CancelActiveCollection
  BY <1>12 DEF CancelActiveCollection, CollectorMoves
<1>13. CASE EndWorld
  BY <1>13 DEF EndWorld, StoreStep
<1>14. CASE \/ SystemReturns \/ ConfigureReturns \/ BeginWorldReturns \/ FailedReturns
            \/ TimersReturn \/ BarrierReturns
  BY <1>14 DEF SystemReturns, ConfigureReturns, BeginWorldReturns, FailedReturns,
     TimersReturn, BarrierReturns, frameOnly
<1>15. CASE AdvanceWorldReturns \/ EndWorldReturns
  BY <1>15 DEF AdvanceWorldReturns, EndWorldReturns, StoreStep
<1> QED
  BY <1>1, <1>2, <1>3, <1>4, <1>5, <1>6, <1>7, <1>8, <1>9, <1>10, <1>11, <1>12, <1>13,
     <1>14, <1>15 DEF FrameNext, EngineStep, TurnReturns

----------------------------------------------------------------------------
(* Publishing a world in one step keeps what constructions keep.           *)

\* The store and the collector keep their types.
LEMMA PublishTypeOK == ASSUME TypeOK, PublishWorld PROVE TypeOK'
<1>1. PICK s \in Slots : Publish(s)
  BY DEF PublishWorld
<1>2. state' \in [Slots -> SlotStates]
  BY <1>1 DEF Publish, TypeOK, SlotStates
<1>3. NextPublishGeneration(generation[s]) \in 1..MaxGeneration
  BY StoreAssumption DEF TypeOK, NextPublishGeneration, StoreAssumption
<1>4. generation' \in [Slots -> 0..MaxGeneration]
  BY <1>1, <1>3 DEF Publish, TypeOK
<1>5. [index |-> s, generation |-> NextPublishGeneration(generation[s])] \in Handles
  BY <1>3 DEF Handles
<1>6. roots' \in [RootEntries -> Handles \cup {NoHandle}]
  BY <1>1, <1>5 DEF Publish, TypeOK
<1> QED
  BY <1>1, <1>2, <1>4, <1>6 DEF Publish, TypeOK, collectorVars

\* It happens between cycles.
LEMMA PublishCycle == ASSUME TypeOK, CycleInvariant, PublishWorld PROVE CycleInvariant'
<1>1. PICK s \in Slots : Publish(s)
  BY DEF PublishWorld
<1>2. phase = "Idle" /\ ~mutationLocked /\ ~dispatchLocked /\ destroying = InvalidIndex
  BY <1>1, UnlockedIsIdle DEF Publish
<1>3. \A t \in Slots : ~marked[t]
  BY <1>2, IdleFacts
<1>4. state' = [state EXCEPT ![s] = "Live"] /\ state \in [Slots -> SlotStates]
  BY <1>1 DEF Publish, TypeOK
<1>5. LocksAgree'
  <2>1. LocksAgree
    BY DEF CycleInvariant
  <2>2. UNCHANGED <<mutationLocked, dispatchLocked, activeCollector, call, destroying, phase,
                    rewired>>
    BY <1>1 DEF Publish, collectorVars
  <2> QED
    BY <1>1, <1>2, <1>4, <2>1, <2>2 DEF LocksAgree, Publish, AdvanceCalls
<1>6. \A t \in Slots : ~marked'[t]
  BY <1>1, <1>3 DEF Publish
<1>7. call # "Mark" /\ phase' = "Idle" /\ worklist' = worklist /\ visiting' = visiting
  BY <1>1, <1>2 DEF Publish, collectorVars
<1> QED
  BY <1>2, <1>5, <1>6, <1>7, IdleCycle

\* The new root names the new object; no other token named its vacant slot.
LEMMA PublishRoots ==
  ASSUME TypeOK, RootsNameOccupants, PublishWorld PROVE RootsNameOccupants'
<1>1. PICK s \in Slots : Publish(s)
  BY DEF PublishWorld
<1>2. state \in [Slots -> SlotStates] /\ generation \in [Slots -> 0..MaxGeneration]
  BY DEF TypeOK
<1>3. state'[s] = "Live" /\ generation'[s] = NextPublishGeneration(generation[s])
  BY <1>1, <1>2 DEF Publish
<1>4. \A t \in Slots : t # s => state'[t] = state[t] /\ generation'[t] = generation[t]
  BY <1>1, <1>2 DEF Publish
<1> SUFFICES ASSUME NEW r \in RootEntries, roots'[r] # NoHandle
             PROVE  /\ roots'[r] = [index |-> roots'[r].index,
                                    generation |-> generation'[roots'[r].index]]
                    /\ state'[roots'[r].index] \in Occupied
  BY DEF RootsNameOccupants, HandleOf, Occupied
<1>5. \/ roots'[r] = roots[r]
      \/ roots'[r] = [index |-> s, generation |-> NextPublishGeneration(generation[s])]
  BY <1>1 DEF Publish, TypeOK
<1>6. CASE roots'[r] = roots[r]
  <2>1. /\ roots[r].index \in Slots /\ roots[r] = HandleOf(roots[r].index)
        /\ state[roots[r].index] \in Occupied
    BY <1>6 DEF RootsNameOccupants, TypeOK, Handles, Occupied
  <2>2. roots[r].index # s
    BY <1>1, <2>1 DEF Publish, Occupied
  <2> QED
    BY <1>4, <1>6, <2>1, <2>2 DEF HandleOf
<1>7. CASE roots'[r] = [index |-> s, generation |-> NextPublishGeneration(generation[s])]
  BY <1>3, <1>7 DEF Occupied
<1> QED
  BY <1>5, <1>6, <1>7

----------------------------------------------------------------------------
(* The store's invariants through a step of the engine.                    *)

StoreInvariant == TypeOK /\ CycleInvariant /\ RootsNameOccupants

LEMMA StoreInvariantHolds ==
  ASSUME StoreInvariant, [FrameNext]_allVars PROVE StoreInvariant'
<1> USE DEF StoreInvariant
<1>1. CASE StoreStep
  BY <1>1, StoreStepTypeOK, StoreStepCycle, StoreStepRoots
<1>2. CASE CollectorMoves
  <2>1. TypeOK'
    BY <1>2, CollectorTypeOK DEF CollectorMoves
  <2>2. CycleInvariant'
    BY <1>2, ControlCycle, MarkCycle, SweepCycle DEF CollectorMoves, CollectorStep
  <2>3. RootsNameOccupants'
    <3>1. CASE SweepSlot
      BY <3>1, RootsKept DEF SweepSlot, BeginDestroySlot, Occupied, TypeOK, Slots
    <3> QED
      BY <1>2, <3>1, CollectorLeavesSlots, RootsKept DEF CollectorMoves, CollectorStep
  <2> QED
    BY <2>1, <2>2, <2>3
<1>3. CASE PublishWorld
  BY <1>3, PublishTypeOK, PublishCycle, PublishRoots
<1>4. CASE UNCHANGED vars
  BY <1>4, StutterTypeOK, StutterCycle, RootsKept DEF vars, storeVars
<1>5. CASE UNCHANGED allVars
  BY <1>4, <1>5 DEF allVars
<1> QED
  BY <1>1, <1>2, <1>3, <1>4, <1>5, EngineUsesStore

----------------------------------------------------------------------------
(* The stages of a call.                                                   *)

\* The stages each call goes through.
StagesOf(c) ==
    CASE c = "None" -> {"Return"}
      [] c = "BeginPlay" -> {"Configure", "BeginPlay", "BeginWorld", "EndPlay", "Failed"}
      [] c = "Tick" -> {"CatchUp", "PreAdvance", "Timers", "AdvanceWorld", "Barrier", "Reclaim",
                        "Reclaiming", "PostAdvance", "Collect", "Collecting"}
      [] c = "EndPlay" -> {"Cancel", "EndWorld", "EndPlay", "Return"}

\* The stages that may meet a cycle: they end or start one, and give no turns.
CycleStages == {"CatchUp", "Collect", "Collecting", "Cancel"}

\* A cycle is open only between calls, once play has begun, or in these stages.
StagesSound ==
    /\ frame.stage \in StagesOf(frame.call)
    /\ frame.call = "None" => frame = NoFrame
    /\ frame.stage \in CycleStages => ~frame.turn
    /\ frame.call # "None" /\ frame.stage \notin CycleStages => phase = "Idle"
    /\ application = "Constructed" => frame = NoFrame /\ phase = "Idle"

EngineTypes ==
    /\ application \in {"Constructed", "Playing", "Ended", "Failed"}
    /\ frame \in Frames
    /\ bound \in Systems \cup {NoSystem}
    /\ composed \subseteq Systems \ {"System"}
    /\ lastTurn \in [Systems -> Turns \cup {"None"}]
    /\ world \in Handles \cup {NoHandle}
    /\ worldState \in {"None", "Constructed", "Playing", "Ended", "Failed"}
    /\ referencesMade \in BOOLEAN /\ worldUsable \in BOOLEAN

LEMMA EngineTyped == FrameTypeOK <=> TypeOK /\ EngineTypes
BY DEF FrameTypeOK, EngineTypes

\* Only the collector's own steps move the phase.
LEMMA PhaseMoves ==
  ASSUME StoreStep \/ MutatorStep \/ PublishWorld \/ BeginAdvance \/ UNCHANGED vars
  PROVE  phase' = phase
BY DEF StoreStep, MutatorStep, PublishWorld, Publish, BeginAdvance, collectorVars, vars

\* Steps that leave the call and its stage alone and open no cycle.
LEMMA SameStage ==
  ASSUME StagesSound, UNCHANGED <<application, frame>>, phase = "Idle" => phase' = "Idle"
  PROVE  StagesSound'
BY DEF StagesSound

\* Steps of a call that stay out of a cycle.
LEMMA NextStage ==
  ASSUME StagesSound, frame \in Frames, frame.call # "None", frame'.call = frame.call,
         frame'.stage \in StagesOf(frame.call),
         frame'.stage \in CycleStages => ~frame'.turn,
         frame'.stage \in CycleStages \/ phase' = "Idle",
         application' \in {application, "Failed"}
  PROVE  StagesSound'
<1>1. application # "Constructed" /\ application' # "Constructed"
  BY DEF StagesSound, NoFrame
<1> QED
  BY <1>1 DEF StagesSound

\* The fields of a frame after it goes on to a stage or gives a turn.
LEMMA StageFields ==
  ASSUME frame \in Frames, NEW stage \in StagesOf("BeginPlay") \cup StagesOf("Tick")
                                            \cup StagesOf("EndPlay")
  PROVE  /\ Stage(stage) => /\ frame' \in Frames
                            /\ frame'.call = frame.call /\ frame'.stage = stage
                            /\ frame'.at = 1 /\ ~frame'.turn
         /\ Turn(stage) => /\ frame' \in Frames
                           /\ frame'.call = frame.call /\ frame'.stage = stage
                           /\ frame'.at = frame.at /\ frame'.turn
<1>1. stage \in Turns \cup {"Return", "Configure", "BeginWorld", "Failed", "CatchUp", "Timers",
                        "AdvanceWorld", "Barrier", "Reclaim", "Reclaiming", "Collect",
                        "Collecting", "Cancel", "EndWorld"}
  BY DEF StagesOf, Turns
<1>2. ASSUME Stage(stage)
      PROVE  /\ frame' \in Frames
             /\ frame'.call = frame.call /\ frame'.stage = stage
             /\ frame'.at = 1 /\ ~frame'.turn
  <2>1. frame' \in Frames /\ frame'.call = frame.call /\ frame'.stage = stage /\ frame'.at = 1
    <3>1. frame'.call = frame.call /\ frame'.stage = stage /\ frame'.at = 1
      BY <1>2 DEF Stage, Frames
    <3>2. frame' \in Frames
      <4>1. frame' = [call |-> frame.call, stage |-> stage, at |-> 1, turn |-> FALSE]
        BY <1>2 DEF Stage, Frames
      <4>2. frame.call \in {"None", "BeginPlay", "Tick", "EndPlay"} /\ 1 \in 1..5
        BY DEF Frames
      <4> QED
        BY <1>1, <4>1, <4>2 DEF Frames
    <3> QED
      BY <3>1, <3>2
  <2>2. ~frame'.turn
    BY <1>2, Zenon DEF Stage, Frames
  <2> QED
    BY <2>1, <2>2
<1>3. ASSUME Turn(stage)
      PROVE  /\ frame' \in Frames
             /\ frame'.call = frame.call /\ frame'.stage = stage
             /\ frame'.at = frame.at /\ frame'.turn
  <2>1. frame' \in Frames /\ frame'.call = frame.call /\ frame'.stage = stage
        /\ frame'.at = frame.at
    BY <1>1, <1>3 DEF Turn, Frames
  <2>2. frame'.turn
    BY <1>3, Zenon DEF Turn, Frames
  <2> QED
    BY <2>1, <2>2
<1> QED
  BY <1>2, <1>3

LEMMA NoFrameIsFrame == NoFrame \in Frames
BY DEF NoFrame, Frames

\* What goes on without a move of the engine: composition and uses of the store.
LEMMA UsesKeepStage ==
  ASSUME CycleInvariant, StagesSound, Compose \/ UseStore \/ ToggleWorldDispatch
  PROVE  StagesSound' /\ UNCHANGED <<application, frame, bound, lastTurn>> /\ phase' = phase
<1>1. CASE ConfigureNetworking \/ CreateMessagingSystem \/ CreateNetworkSystem
  BY <1>1, SameStage, PhaseMoves DEF ConfigureNetworking, CreateMessagingSystem,
     CreateNetworkSystem, compositionVars
<1>2. CASE CreateWorld
  <2>1. phase' = phase
    BY <1>2, WorldPublished, PhaseMoves
  <2>2. UNCHANGED <<application, frame, bound, lastTurn>>
    BY <1>2 DEF CreateWorld, compositionVars
  <2> QED
    BY <2>1, <2>2, SameStage
<1>3. CASE UseStore
  BY <1>3, SameStage, PhaseMoves DEF UseStore, engineVars
<1>4. CASE ToggleWorldDispatch
  BY <1>4, SameStage DEF ToggleWorldDispatch, engineVars, collectorVars
<1> QED
  BY <1>1, <1>2, <1>3, <1>4 DEF Compose

\* The call a stage belongs to.
LEMMA CallOfStage ==
  ASSUME StagesSound, EngineTypes
  PROVE  /\ frame.stage \in {"Configure", "BeginPlay", "BeginWorld", "Failed"}
                => frame.call = "BeginPlay"
         /\ frame.stage \in StagesOf("Tick") => frame.call = "Tick"
         /\ frame.stage \in {"Cancel", "EndWorld"} => frame.call = "EndPlay"
<1>1. frame.call \in {"None", "BeginPlay", "Tick", "EndPlay"}
  BY DEF EngineTypes, Frames
<1> QED
  BY <1>1 DEF StagesSound, StagesOf

\* The engine goes on from one stage to another.
LEMMA GoesOn ==
  ASSUME StagesSound, EngineTypes, NEW to, frame.call # "None", to \in StagesOf(frame.call),
         \/ Stage(to)
         \/ Turn(to) /\ to \notin CycleStages,
         \/ frame.stage \notin CycleStages /\ phase' = phase
         \/ phase' = "Idle"
         \/ to \in CycleStages,
         application' = application
  PROVE  StagesSound'
<1>0. frame \in Frames
  BY DEF EngineTypes
<1>1. to \in StagesOf("BeginPlay") \cup StagesOf("Tick") \cup StagesOf("EndPlay")
  BY <1>0 DEF Frames
<1>2. /\ frame'.call = frame.call /\ frame'.stage = to
      /\ to \in CycleStages => ~frame'.turn
  BY <1>0, <1>1, StageFields
<1>3. to \in CycleStages \/ phase' = "Idle"
  BY DEF StagesSound
<1> QED
  BY <1>0, <1>2, <1>3, NextStage

\* The stages stay as they are expected, and no turn is given in a cycle.
LEMMA StagesHold ==
  ASSUME CycleInvariant, EngineTypes, StagesSound, [FrameNext]_allVars
  PROVE  StagesSound'
<1>0. frame \in Frames
  BY DEF EngineTypes
<1>1. CASE Compose \/ UseStore \/ ToggleWorldDispatch
  BY <1>1, UsesKeepStage
<1>2. CASE BeginApplication \/ BeginTick \/ EndApplication
  <2>2. CASE BeginApplication
    <3>1. /\ frame'.call = "BeginPlay" /\ frame'.stage = "Configure"
          /\ application' = "Playing" /\ phase' = phase /\ application = "Constructed"
      BY <2>2 DEF BeginApplication, NoFrame, frameOnly, vars, collectorVars
    <3> QED
      BY <3>1 DEF StagesSound, StagesOf, CycleStages
  <2>3. CASE BeginTick
    <3>1. /\ frame'.call = "Tick" /\ frame'.stage = "CatchUp" /\ ~frame'.turn
          /\ application' = "Playing"
      BY <2>3 DEF BeginTick, NoFrame
    <3> QED
      BY <3>1 DEF StagesSound, StagesOf, CycleStages
  <2>4. CASE EndApplication
    <3>1. /\ frame'.call = "EndPlay" /\ frame'.stage = "Cancel" /\ ~frame'.turn
          /\ application' = "Ended"
      BY <2>4 DEF EndApplication, NoFrame
    <3> QED
      BY <3>1 DEF StagesSound, StagesOf, CycleStages
  <2> QED
    BY <1>2, <2>2, <2>3, <2>4
<1>3. CASE EndTick \/ EndCall \/ FailedReturns \/ (BeginWorldReturns /\ Return)
  <2>1. frame' = NoFrame /\ application' # "Constructed"
    BY <1>3 DEF EndTick, EndCall, FailedReturns, BeginWorldReturns, Return, At, InTurn,
       StagesSound, NoFrame
  <2>2. NoFrame.call = "None" /\ NoFrame.stage = "Return"
    BY DEF NoFrame
  <2> QED
    BY <2>1, <2>2 DEF StagesSound, StagesOf, CycleStages
<1>4. CASE Collect \/ Reclaim \/ RequestFrameCollection
  <2>1. CASE Collect
    BY <2>1, CollectorNeedsCycle, SameStage DEF Collect, engineVars
  <2>2. CASE Reclaim
    BY <2>2, SameStage DEF Reclaim, engineVars, collectorVars
  <2>3. CASE RequestFrameCollection
    <3>1. frame.stage = "Collect" /\ UNCHANGED <<application, frame>>
      BY <2>3 DEF RequestFrameCollection, At, engineVars
    <3>2. application # "Constructed"
      BY <3>1 DEF StagesSound, NoFrame
    <3> QED
      BY <3>1, <3>2 DEF StagesSound, CycleStages
  <2> QED
    BY <1>4, <2>1, <2>2, <2>3
<1>5. CASE GiveTurn
  <2>1. /\ frame'.call = frame.call /\ frame'.stage = frame.stage /\ phase' = phase
        /\ frame.call # "None" /\ frame.stage \in Turns /\ application' = application
    BY <1>0, <1>5 DEF GiveTurn, At, Frames, vars, collectorVars
  <2>2. frame.stage \notin CycleStages
    BY <2>1 DEF Turns, CycleStages
  <2> QED
    BY <1>0, <2>1, <2>2, NextStage DEF StagesSound
<1>6. CASE EndTurns \/ SystemReturns
  <2>1. frame.stage \in Turns /\ frame.call # "None" /\ phase' = phase
        /\ application' = application
    BY <1>6 DEF EndTurns, SystemReturns, At, InTurn, StagesSound, NoFrame, Turns, vars,
       collectorVars
  <2>2. phase = "Idle"
    BY <2>1 DEF StagesSound, Turns, CycleStages
  <2>3. frame.stage \in StagesOf(frame.call)
    BY DEF StagesSound
  <2>4. CASE EndTurns
    <3>1. StageAfter(frame.stage) \in StagesOf(frame.call)
      BY <1>0, <2>1, <2>3 DEF StageAfter, StagesOf, Turns, Frames
    <3>2. Stage(StageAfter(frame.stage))
      BY <2>4 DEF EndTurns
    <3>3. frame'.call = frame.call /\ frame'.stage = StageAfter(frame.stage) /\ ~frame'.turn
      <4>1. StageAfter(frame.stage) \in StagesOf("BeginPlay") \cup StagesOf("Tick")
                                          \cup StagesOf("EndPlay")
        BY <1>0, <2>1, <3>1 DEF Frames
      <4> HIDE DEF StageAfter
      <4> QED
        BY <1>0, <3>2, <4>1, StageFields
    <3> QED
      BY <1>0, <2>1, <2>2, <3>1, <3>3, NextStage
  <2>5. CASE SystemReturns
    <3>1. frame'.call = frame.call /\ frame'.stage = frame.stage
      BY <1>0, <2>5 DEF SystemReturns, Frames
    <3>2. frame.stage \notin CycleStages
      BY <2>1 DEF Turns, CycleStages
    <3> QED
      BY <1>0, <2>1, <2>2, <2>3, <3>1, <3>2, NextStage
  <2> QED
    BY <1>6, <2>4, <2>5
<1>8. CASE ConfigureReturns
  <2>1. /\ frame.stage = "Configure" /\ application' = application /\ phase' = phase
        /\ Stage("Failed") \/ Stage("BeginPlay")
    BY <1>8 DEF ConfigureReturns, InTurn, frameOnly, vars, collectorVars
  <2>2. frame.call = "BeginPlay"
    BY <2>1, CallOfStage DEF StagesOf
  <2> QED
    BY <2>1, <2>2, GoesOn DEF StagesOf, CycleStages
<1>9. CASE BeginWorld
  <2>1. /\ frame.stage = "BeginWorld" /\ application' = application /\ phase' = phase
        /\ Turn("BeginWorld") \/ Stage("EndPlay")
    BY <1>9 DEF BeginWorld, At, frameOnly, vars, collectorVars
  <2>2. frame.call = "BeginPlay"
    BY <2>1, CallOfStage DEF StagesOf
  <2> QED
    BY <2>1, <2>2, GoesOn DEF StagesOf, CycleStages
<1>10. CASE BeginWorldReturns
  <2>1. /\ frame.stage = "BeginWorld" /\ application' = application /\ phase' = phase
        /\ Return \/ Stage("EndPlay")
    BY <1>10 DEF BeginWorldReturns, InTurn, frameOnly, vars, collectorVars
  <2>2. frame.call = "BeginPlay"
    BY <2>1, CallOfStage DEF StagesOf
  <2> QED
    BY <2>1, <2>2, GoesOn, <1>3, <1>10 DEF StagesOf, CycleStages
<1>11. CASE FailApplication
  <2>1. /\ frame.stage = "Failed" /\ application' = application /\ phase' = phase
        /\ Turn("Failed")
    BY <1>11 DEF FailApplication, At, frameOnly, vars, collectorVars
  <2>2. frame.call = "BeginPlay"
    BY <2>1, CallOfStage DEF StagesOf
  <2> QED
    BY <2>1, <2>2, GoesOn DEF StagesOf, CycleStages
<1>12. CASE AdvanceTimers
  <2>1. /\ frame.stage = "Timers" /\ application' = application /\ phase' = phase
        /\ Turn("Timers")
    BY <1>12 DEF AdvanceTimers, At, frameOnly, vars, collectorVars
  <2>2. frame.call = "Tick"
    BY <2>1, CallOfStage DEF StagesOf
  <2> QED
    BY <2>1, <2>2, GoesOn DEF StagesOf, CycleStages
<1>13. CASE TimersReturn
  <2>1. /\ frame.stage = "Timers" /\ application' = application /\ phase' = phase
        /\ Stage("AdvanceWorld")
    BY <1>13 DEF TimersReturn, InTurn, frameOnly, vars, collectorVars
  <2>2. frame.call = "Tick"
    BY <2>1, CallOfStage DEF StagesOf
  <2> QED
    BY <2>1, <2>2, GoesOn DEF StagesOf, CycleStages
<1>14. CASE AdvanceWorld
  <2>1. /\ frame.stage = "AdvanceWorld" /\ application' = application /\ phase' = phase
        /\ Turn("AdvanceWorld") \/ Stage("Reclaim")
    BY <1>14 DEF AdvanceWorld, At, vars, collectorVars
  <2>2. frame.call = "Tick"
    BY <2>1, CallOfStage DEF StagesOf
  <2> QED
    BY <2>1, <2>2, GoesOn DEF StagesOf, CycleStages
<1>15. CASE AdvanceWorldReturns
  <2>1. /\ frame.stage = "AdvanceWorld" /\ application' = application /\ phase' = phase
        /\ Stage("Barrier") \/ Stage("Reclaim")
    BY <1>15 DEF AdvanceWorldReturns, collectorVars
  <2>2. frame.call = "Tick"
    BY <2>1, CallOfStage DEF StagesOf
  <2> QED
    BY <2>1, <2>2, GoesOn DEF StagesOf, CycleStages
<1>16. CASE Barrier
  <2>1. /\ frame.stage = "Barrier" /\ application' = application /\ phase' = phase
        /\ Turn("Barrier")
    BY <1>16 DEF Barrier, At, frameOnly, vars, collectorVars
  <2>2. frame.call = "Tick"
    BY <2>1, CallOfStage DEF StagesOf
  <2> QED
    BY <2>1, <2>2, GoesOn DEF StagesOf, CycleStages
<1>17. CASE BarrierReturns
  <2>1. /\ frame.stage = "Barrier" /\ application' = application /\ phase' = phase
        /\ Stage("Reclaim")
    BY <1>17 DEF BarrierReturns, InTurn, frameOnly, vars, collectorVars
  <2>2. frame.call = "Tick"
    BY <2>1, CallOfStage DEF StagesOf
  <2> QED
    BY <2>1, <2>2, GoesOn DEF StagesOf, CycleStages
<1>18. CASE ReclaimPendingDestroy
  <2>1. /\ frame.stage = "Reclaim" /\ application' = application /\ phase' = phase
        /\ Stage("Reclaiming")
    BY <1>18 DEF ReclaimPendingDestroy, At, vars, collectorVars
  <2>2. frame.call = "Tick"
    BY <2>1, CallOfStage DEF StagesOf
  <2> QED
    BY <2>1, <2>2, GoesOn DEF StagesOf, CycleStages
<1>19. CASE EndReclaim
  <2>1. /\ frame.stage = "Reclaiming" /\ application' = application /\ phase' = phase
        /\ Stage("PostAdvance")
    BY <1>19 DEF EndReclaim, At, frameOnly, vars, collectorVars
  <2>2. frame.call = "Tick"
    BY <2>1, CallOfStage DEF StagesOf
  <2> QED
    BY <2>1, <2>2, GoesOn DEF StagesOf, CycleStages
<1>20. CASE AdvanceFrameCollection
  <2>1. /\ frame.stage = "Collect" /\ application' = application
        /\ Stage("Collecting")
    BY <1>20 DEF AdvanceFrameCollection, At
  <2>2. frame.call = "Tick"
    BY <2>1, CallOfStage DEF StagesOf
  <2> QED
    BY <2>1, <2>2, GoesOn DEF StagesOf, CycleStages
<1>21. CASE CancelActiveCollection
  <2>1. /\ frame.stage = "Cancel" /\ application' = application /\ phase' = "Idle"
        /\ Stage("EndWorld")
    BY <1>21 DEF CancelActiveCollection, At, CancelCollection,
       ResetCycle, vars, collectorVars
  <2>2. frame.call = "EndPlay"
    BY <2>1, CallOfStage DEF StagesOf
  <2> QED
    BY <2>1, <2>2, GoesOn DEF StagesOf, CycleStages
<1>22. CASE EndWorld
  <2>1. /\ frame.stage = "EndWorld" /\ application' = application /\ phase' = phase
        /\ Turn("EndWorld") \/ Stage("EndPlay")
    BY <1>22 DEF EndWorld, At, vars, collectorVars
  <2>2. frame.call = "EndPlay"
    BY <2>1, CallOfStage DEF StagesOf
  <2> QED
    BY <2>1, <2>2, GoesOn DEF StagesOf, CycleStages
<1>23. CASE EndWorldReturns
  <2>1. /\ frame.stage = "EndWorld" /\ application' = application /\ phase' = phase
        /\ Stage("EndPlay")
    BY <1>23 DEF EndWorldReturns, collectorVars
  <2>2. frame.call = "EndPlay"
    BY <2>1, CallOfStage DEF StagesOf
  <2> QED
    BY <2>1, <2>2, GoesOn DEF StagesOf, CycleStages
<1>24. CASE CompletePriorCollection
  <2>1. /\ frame.stage = "CatchUp" /\ application' = application
        /\ \/ phase = "Idle" /\ phase' = phase /\ Stage("PreAdvance")
           \/ phase' = phase /\ UNCHANGED frame
    BY <1>24 DEF CompletePriorCollection, At, vars, collectorVars, BeginAdvance
  <2>2. frame.call = "Tick"
    BY <2>1, CallOfStage DEF StagesOf
  <2> QED
    BY <2>1, <2>2, GoesOn, SameStage DEF StagesOf, CycleStages
<1>25. CASE UNCHANGED allVars
  BY <1>25, SameStage DEF allVars, engineVars, vars, collectorVars
<1> QED
  BY <1>1, <1>2, <1>3, <1>4, <1>5, <1>6, <1>8, <1>9, <1>10, <1>11, <1>12, <1>13, <1>14,
     <1>15, <1>16, <1>17, <1>18, <1>19, <1>20, <1>21, <1>22, <1>23, <1>24, <1>25
     DEF FrameNext, EngineStep, TurnReturns

----------------------------------------------------------------------------
(* The types of the engine.                                                *)

\* The world's handle is one the store can resolve, or none.
LEMMA WorldHandle ==
  ASSUME TypeOK, CreateWorld, world \in Handles \cup {NoHandle}
  PROVE  world' \in Handles \cup {NoHandle}
<1>1. \/ world' = world
      \/ \E s \in Slots :
            world' = [index |-> s, generation |-> NextPublishGeneration(generation[s])]
  BY DEF CreateWorld
<1>2. \A s \in Slots : NextPublishGeneration(generation[s]) \in 1..MaxGeneration
  BY StoreAssumption DEF TypeOK, NextPublishGeneration, StoreAssumption
<1> QED
  BY <1>1, <1>2 DEF Handles

\* Every variable of the engine keeps its type.
LEMMA EngineTypesHold ==
  ASSUME TypeOK, EngineTypes, StagesSound, [FrameNext]_allVars PROVE EngineTypes'
<1>0. frame \in Frames
  BY DEF EngineTypes
<1>1. frame' \in Frames
  <2>1. ASSUME NEW to \in StagesOf("BeginPlay") \cup StagesOf("Tick") \cup StagesOf("EndPlay"),
               Stage(to) \/ Turn(to)
        PROVE  frame' \in Frames
    BY <1>0, <2>1, StageFields
  <2>2. CASE \/ ConfigureReturns \/ BeginWorld \/ FailApplication \/ AdvanceTimers \/ TimersReturn
             \/ Barrier \/ BarrierReturns \/ EndReclaim
    BY <2>1, <2>2 DEF ConfigureReturns, BeginWorld, FailApplication, AdvanceTimers,
       TimersReturn, Barrier, BarrierReturns, EndReclaim, StagesOf
  <2>3. CASE \/ AdvanceWorld \/ AdvanceWorldReturns \/ ReclaimPendingDestroy \/ EndWorld
             \/ EndWorldReturns \/ AdvanceFrameCollection \/ CancelActiveCollection
    BY <2>1, <2>3 DEF AdvanceWorld, AdvanceWorldReturns, ReclaimPendingDestroy, EndWorld,
       EndWorldReturns, AdvanceFrameCollection, CancelActiveCollection, StagesOf
  <2>4. CASE BeginWorldReturns \/ CompletePriorCollection
    BY <1>0, <2>1, <2>4, NoFrameIsFrame DEF BeginWorldReturns, CompletePriorCollection, Return,
       StagesOf
  <2>5. CASE EndTick \/ EndCall \/ FailedReturns
    BY <2>5, NoFrameIsFrame DEF EndTick, EndCall, FailedReturns, Return
  <2>6. CASE \/ Compose \/ UseStore \/ ToggleWorldDispatch \/ Collect \/ Reclaim
             \/ RequestFrameCollection \/ UNCHANGED allVars
    BY <1>0, <2>6 DEF Compose, ConfigureNetworking, CreateMessagingSystem, CreateNetworkSystem,
       CreateWorld, compositionVars, UseStore, ToggleWorldDispatch, Collect, Reclaim,
       RequestFrameCollection, engineVars, allVars
  <2>7. CASE BeginApplication \/ BeginTick \/ EndApplication
    <3>1. \/ frame' = [call |-> "BeginPlay", stage |-> "Configure", at |-> 1, turn |-> TRUE]
          \/ frame' = [call |-> "Tick", stage |-> "CatchUp", at |-> 1, turn |-> FALSE]
          \/ frame' = [call |-> "EndPlay", stage |-> "Cancel", at |-> 1, turn |-> FALSE]
      BY <2>7 DEF BeginApplication, BeginTick, EndApplication, NoFrame
    <3>2. [call |-> "BeginPlay", stage |-> "Configure", at |-> 1, turn |-> TRUE] \in Frames
      BY DEF Frames
    <3>3. [call |-> "Tick", stage |-> "CatchUp", at |-> 1, turn |-> FALSE] \in Frames
      BY DEF Frames
    <3>4. [call |-> "EndPlay", stage |-> "Cancel", at |-> 1, turn |-> FALSE] \in Frames
      BY DEF Frames
    <3> QED
      BY <3>1, <3>2, <3>3, <3>4
  <2>8. CASE GiveTurn
    <3>1. PICK i \in frame.at..4 : frame' = [frame EXCEPT !.at = i + 1, !.turn = TRUE]
      BY <2>8 DEF GiveTurn
    <3>2. i + 1 \in 1..5
      BY <1>0 DEF Frames
    <3> QED
      BY <1>0, <3>1, <3>2 DEF Frames
  <2>9. CASE EndTurns
    <3>1. StageAfter(frame.stage) \in StagesOf("BeginPlay") \cup StagesOf("Tick")
                                        \cup StagesOf("EndPlay")
      BY <2>9 DEF EndTurns, StageAfter, StagesOf, Turns
    <3>2. Stage(StageAfter(frame.stage))
      BY <2>9 DEF EndTurns
    <3> HIDE DEF StageAfter
    <3> QED
      BY <2>1, <3>1, <3>2
  <2>10. CASE SystemReturns
    <3>1. frame' = [call |-> frame.call, stage |-> frame.stage, at |-> frame.at, turn |-> FALSE]
      BY <1>0, <2>10 DEF SystemReturns, Frames
    <3>2. /\ frame.call \in {"None", "BeginPlay", "Tick", "EndPlay"} /\ frame.at \in 1..5
          /\ frame.stage \in Turns
      BY <1>0, <2>10 DEF SystemReturns, Frames
    <3> QED
      BY <3>1, <3>2 DEF Frames
  <2> QED
    BY <2>2, <2>3, <2>4, <2>5, <2>6, <2>7, <2>8, <2>9, <2>10
       DEF FrameNext, EngineStep, TurnReturns
<1>2. application' \in {"Constructed", "Playing", "Ended", "Failed"} /\ bound' = bound
  <2>1. CASE Compose \/ UseStore \/ ToggleWorldDispatch
    BY <2>1 DEF EngineTypes, Compose, ConfigureNetworking, CreateMessagingSystem,
       CreateNetworkSystem, CreateWorld, compositionVars, UseStore, ToggleWorldDispatch,
       engineVars
  <2>2. CASE BeginApplication \/ BeginTick \/ EndApplication \/ TurnReturns
    BY <2>2 DEF EngineTypes, BeginApplication, BeginTick, EndApplication, frameOnly,
       TurnReturns, SystemReturns, ConfigureReturns, BeginWorldReturns, FailedReturns,
       TimersReturn, AdvanceWorldReturns, BarrierReturns, EndWorldReturns
  <2>3. CASE EngineStep
    BY <2>3 DEF EngineTypes, EngineStep, GiveTurn, EndTurns, BeginWorld, FailApplication,
       CompletePriorCollection, AdvanceTimers, AdvanceWorld, Barrier, ReclaimPendingDestroy,
       EndReclaim, RequestFrameCollection, AdvanceFrameCollection, EndTick, Collect, Reclaim,
       CancelActiveCollection, EndWorld, EndCall, frameOnly, engineVars
  <2>4. CASE UNCHANGED allVars
    BY <2>4 DEF EngineTypes, allVars, engineVars
  <2> QED
    BY <2>1, <2>2, <2>3, <2>4 DEF FrameNext
<1>3. CASE Compose
  <2>1. composed' \subseteq Systems \ {"System"} /\ lastTurn' = lastTurn
    <3>1. CASE ConfigureNetworking
      BY <3>1 DEF ConfigureNetworking, Unwound, NetworkLayers, compositionVars, Systems
    <3>2. CASE CreateMessagingSystem \/ CreateNetworkSystem \/ CreateWorld
      BY <3>2 DEF EngineTypes, CreateMessagingSystem, CreateNetworkSystem, CreateWorld,
         compositionVars, Systems
    <3> QED
      BY <1>3, <3>1, <3>2 DEF Compose
  <2>2. world' \in Handles \cup {NoHandle}
    BY <1>3, WorldHandle DEF EngineTypes, Compose, ConfigureNetworking, CreateMessagingSystem,
       CreateNetworkSystem
  <2>3. worldState' \in {worldState, "Constructed"}
    BY <1>3 DEF Compose, ConfigureNetworking, CreateMessagingSystem, CreateNetworkSystem,
       CreateWorld
  <2>4. referencesMade' \in BOOLEAN
    BY <1>3, Zenon DEF EngineTypes, Compose, ConfigureNetworking, CreateMessagingSystem,
       CreateNetworkSystem, CreateWorld
  <2>5. worldUsable' \in BOOLEAN
    BY <1>3, Zenon DEF EngineTypes, Compose, ConfigureNetworking, CreateMessagingSystem,
       CreateNetworkSystem, CreateWorld
  <2> QED
    BY <1>1, <1>2, <2>1, <2>2, <2>3, <2>4, <2>5 DEF EngineTypes
<1>4. CASE UseStore \/ ToggleWorldDispatch \/ UNCHANGED allVars
  BY <1>4 DEF EngineTypes, UseStore, ToggleWorldDispatch, engineVars, allVars
<1>5. CASE GiveTurn
  <2>1. PICK x : lastTurn' = [lastTurn EXCEPT ![x] = frame.stage]
    BY <1>5 DEF GiveTurn
  <2>2. frame.stage \in Turns
    BY <1>5 DEF GiveTurn
  <2>3. lastTurn' \in [Systems -> Turns \cup {"None"}]
    BY <2>1, <2>2 DEF EngineTypes
  <2> QED
    BY <1>1, <1>2, <1>5, <2>3 DEF EngineTypes, GiveTurn
<1>6. ASSUME ~Compose, ~UseStore, ~ToggleWorldDispatch, ~UNCHANGED allVars, ~GiveTurn
      PROVE  /\ UNCHANGED <<composed, lastTurn, world, referencesMade, worldUsable>>
             /\ worldState' \in {worldState, "Playing", "Ended", "Failed"}
  <2>1. CASE BeginApplication \/ BeginTick \/ EndApplication \/ TurnReturns
    BY <2>1 DEF BeginApplication, BeginTick, EndApplication, frameOnly,
       TurnReturns, SystemReturns, ConfigureReturns, BeginWorldReturns, FailedReturns,
       TimersReturn, AdvanceWorldReturns, BarrierReturns, EndWorldReturns
  <2>2. CASE EngineStep
    BY <1>6, <2>2 DEF EngineStep, EndTurns, BeginWorld, FailApplication,
       CompletePriorCollection, AdvanceTimers, AdvanceWorld, Barrier, ReclaimPendingDestroy,
       EndReclaim, RequestFrameCollection, AdvanceFrameCollection, EndTick, Collect, Reclaim,
       CancelActiveCollection, EndWorld, EndCall, frameOnly, engineVars
  <2> QED
    BY <1>6, <2>1, <2>2 DEF FrameNext
<1> QED
  BY <1>1, <1>2, <1>3, <1>4, <1>5, <1>6 DEF EngineTypes

----------------------------------------------------------------------------
(* The rooted world.                                                       *)

\* A world that was made is alive and holds a root token.
WorldRooted ==
    world # NoHandle => Resolves(world) /\ \E r \in RootEntries : roots[r] = world

\* A root that stays keeps its live object in place.
LEMMA WorldStays ==
  ASSUME world # NoHandle, world' = world, world \in Handles, RootsNameOccupants',
         state'[world.index] = "Live", \E r \in RootEntries : roots'[r] = world
  PROVE  WorldRooted'
<1>2. PICK r \in RootEntries : roots'[r] = world
  OBVIOUS
<1>3. roots'[r] # NoHandle
  BY <1>2
<1>4. roots'[r] = [index |-> roots'[r].index, generation |-> generation'[roots'[r].index]]
  BY <1>2, <1>3 DEF RootsNameOccupants, HandleOf
<1>5. world.generation = generation'[world.index]
  BY <1>2, <1>4 DEF Handles
<1> QED
  BY <1>2, <1>5 DEF WorldRooted, Resolves

\* The world survives every sweep, and only its own token's release could end it.
LEMMA WorldHolds ==
  ASSUME StoreInvariant, StoreInvariant', EngineTypes, WorldRooted, [FrameNext]_allVars
  PROVE  WorldRooted'
<1>1. CASE CreateWorld
  <2>1. CASE world' = world
    BY <1>1, <2>1 DEF CreateWorld, WorldRooted
  <2>2. CASE world' # world
    <3>1. PICK s \in Slots, r \in RootEntries :
            LET h == [index |-> s, generation |-> NextPublishGeneration(generation[s])] IN
            /\ state' = [state EXCEPT ![s] = "Live"]
            /\ generation' = [generation EXCEPT ![s] = h.generation]
            /\ roots' = [roots EXCEPT ![r] = h]
            /\ world' = h
      BY <1>1, <2>2 DEF CreateWorld
    <3>2. NextPublishGeneration(generation[s]) \in 1..MaxGeneration
      BY StoreAssumption
         DEF StoreInvariant, TypeOK, NextPublishGeneration, StoreAssumption
    <3>3. state'[s] = "Live" /\ generation'[s] = NextPublishGeneration(generation[s])
          /\ roots'[r] = world'
      BY <3>1 DEF StoreInvariant, TypeOK
    <3>4. world' \in Handles /\ world'.index = s /\ world'.generation = generation'[s]
      BY <3>1, <3>2, <3>3 DEF Handles
    <3> QED
      BY <3>3, <3>4 DEF WorldRooted, Resolves
  <2> QED
    BY <2>1, <2>2
<1>2. ASSUME ~CreateWorld PROVE world' = world
  <2>1. CASE Compose \/ UseStore \/ ToggleWorldDispatch \/ UNCHANGED allVars
    BY <1>2, <2>1 DEF Compose, ConfigureNetworking, CreateMessagingSystem,
       CreateNetworkSystem, UseStore, ToggleWorldDispatch, engineVars, allVars
  <2>2. CASE BeginApplication \/ BeginTick \/ EndApplication \/ TurnReturns
    BY <2>2 DEF BeginApplication, BeginTick, EndApplication, frameOnly,
       TurnReturns, SystemReturns, ConfigureReturns, BeginWorldReturns, FailedReturns,
       TimersReturn, AdvanceWorldReturns, BarrierReturns, EndWorldReturns
  <2>3. CASE EngineStep
    BY <2>3 DEF EngineStep, GiveTurn, EndTurns, BeginWorld, FailApplication,
       CompletePriorCollection, AdvanceTimers, AdvanceWorld, Barrier, ReclaimPendingDestroy,
       EndReclaim, RequestFrameCollection, AdvanceFrameCollection, EndTick, Collect, Reclaim,
       CancelActiveCollection, EndWorld, EndCall, frameOnly, engineVars
  <2> QED
    BY <2>1, <2>2, <2>3 DEF FrameNext
<1>3. CASE world = NoHandle
  BY <1>1, <1>2, <1>3 DEF WorldRooted
<1> SUFFICES ASSUME ~CreateWorld, world # NoHandle PROVE WorldRooted'
  BY <1>1, <1>3
<1>4. /\ world \in Handles /\ world.index \in Slots /\ world' = world
      /\ state[world.index] = "Live" /\ generation[world.index] = world.generation
      /\ \E r \in RootEntries : roots[r] = world
  BY <1>2 DEF WorldRooted, Resolves, Handles
<1> SUFFICES state'[world.index] = "Live" /\ \E r \in RootEntries : roots'[r] = world
  BY <1>4, WorldStays DEF StoreInvariant
<1>5. CASE UseStore
  BY <1>5 DEF UseStore
<1>6. CASE UNCHANGED <<state, roots>>
  BY <1>4, <1>6
<1>7. CASE SweepSlot
  <2>1. phase = "Sweep" /\ roots' = roots
    BY <1>7 DEF SweepSlot, StoreInvariant, CycleInvariant, LocksAgree, AdvanceCalls
  <2>2. world.index \in Survivors
    BY <1>4, <2>1 DEF StoreInvariant, CycleInvariant, SurvivorsClosed, Resolves
  <2>3. marked[world.index] \/ world.index < sweepCursor
    BY <2>2 DEF Survivors
  <2>4. sweepCursor \in Nat /\ world.index \in Nat
    BY <1>4 DEF StoreInvariant, TypeOK, Slots
  <2>5. state'[world.index] = "Live"
    BY <1>4, <1>7, <2>3, <2>4
       DEF SweepSlot, BeginDestroySlot, StoreInvariant, TypeOK
  <2> QED
    BY <1>4, <2>1, <2>5
<1>8. CASE VisitPendingSlot
  <2>1. roots' = roots
    BY <1>8 DEF VisitPendingSlot
  <2>2. state'[world.index] = "Live"
    BY <1>4, <1>8 DEF VisitPendingSlot, BeginDestroySlot, StoreInvariant, TypeOK
  <2> QED
    BY <1>4, <2>1, <2>2
<1>9. CASE EndDestroySlot
  <2>1. destroying \in Slots /\ state[destroying] = "Destroying"
    BY <1>9 DEF EndDestroySlot, StoreInvariant, TypeOK, CycleInvariant, LocksAgree
  <2>2. destroying # world.index
    BY <1>4, <2>1
  <2>3. state'[world.index] = "Live"
    BY <1>4, <1>9, <2>1, <2>2 DEF EndDestroySlot, StoreInvariant, TypeOK
  <2>4. PICK r \in RootEntries : roots[r] = world
    BY <1>4
  <2>5. world # HandleOf(destroying)
    BY <2>2 DEF HandleOf
  <2>6. roots'[r] = world
    BY <1>9, <2>4, <2>5 DEF EndDestroySlot, RemoveAllRoots
  <2> QED
    BY <2>3, <2>6
<1>10. CASE \/ Compose \/ ToggleWorldDispatch \/ UNCHANGED allVars
            \/ BeginApplication \/ BeginTick \/ EndApplication
  BY <1>6, <1>10 DEF Compose, ConfigureNetworking, CreateMessagingSystem, CreateNetworkSystem,
     ToggleWorldDispatch, BeginDispatch, EndDispatch, BeginApplication, BeginTick,
     EndApplication, frameOnly, allVars, vars, storeVars
<1>11. CASE TurnReturns
  BY <1>6, <1>11 DEF TurnReturns, SystemReturns, ConfigureReturns, BeginWorldReturns,
     FailedReturns, TimersReturn, AdvanceWorldReturns, BarrierReturns, EndWorldReturns,
     EndDispatch, frameOnly, vars, storeVars
<1>12. CASE Collect
  <2>1. SweepSlot \/ UNCHANGED <<state, roots>>
    BY <1>12, CollectorLeavesSlots DEF Collect, CollectorStep, StoreInvariant
  <2> QED
    BY <1>6, <1>7, <2>1
<1>13. CASE Reclaim
  BY <1>6, <1>8, <1>9, <1>13 DEF Reclaim, EndApplyPendingDestroy
<1>14. CASE EngineStep /\ ~Collect /\ ~Reclaim
  BY <1>6, <1>14 DEF EngineStep, GiveTurn, EndTurns, BeginWorld, FailApplication,
     CompletePriorCollection, BeginAdvance, AdvanceTimers, AdvanceWorld, BeginDispatch, Barrier,
     ReclaimPendingDestroy, BeginApplyPendingDestroy, EndReclaim, RequestFrameCollection,
     RequestCollection, AdvanceFrameCollection, EndTick, CancelActiveCollection,
     CancelCollection, EndWorld, EndCall, frameOnly, otherStoreVars, vars, storeVars
<1> QED
  BY <1>5, <1>10, <1>11, <1>12, <1>13, <1>14 DEF FrameNext

----------------------------------------------------------------------------
(* The composed network.                                                   *)

\* Only a composition changes the layers: ConfigureNetworking starts from none and
\* leaves all or none, and there is nothing to add to all of them.
LEMMA NetworkHolds ==
  ASSUME EngineTypes, NetworkIsWhole, [FrameNext]_allVars PROVE NetworkIsWhole'
<1>1. CASE ConfigureNetworking
  <2>1. \A made \in {{"Device"}, {"Device", "Messaging"}, NetworkLayers} : Unwound(made) = {}
    BY DEF Unwound, NetworkLayers
  <2>2. composed' \in {NetworkLayers, {}}
    BY <1>1, <2>1 DEF ConfigureNetworking
  <2> QED
    BY <2>2 DEF NetworkIsWhole
<1>2. CASE CreateMessagingSystem \/ CreateNetworkSystem
  <2>1. "Device" \notin composed
    BY <1>2 DEF CreateMessagingSystem, CreateNetworkSystem, NetworkIsWhole, NetworkLayers
  <2>2. "Device" \notin composed'
    BY <1>2, <2>1 DEF CreateMessagingSystem, CreateNetworkSystem
  <2> QED
    BY <2>2 DEF NetworkIsWhole
<1>3. ASSUME ~ConfigureNetworking, ~CreateMessagingSystem, ~CreateNetworkSystem
      PROVE  composed' = composed
  <2>1. CASE Compose \/ UseStore \/ ToggleWorldDispatch \/ UNCHANGED allVars
    BY <1>3, <2>1 DEF Compose, CreateWorld, UseStore, ToggleWorldDispatch, engineVars, allVars
  <2>2. CASE BeginApplication \/ BeginTick \/ EndApplication \/ TurnReturns
    BY <2>2 DEF BeginApplication, BeginTick, EndApplication, frameOnly,
       TurnReturns, SystemReturns, ConfigureReturns, BeginWorldReturns, FailedReturns,
       TimersReturn, AdvanceWorldReturns, BarrierReturns, EndWorldReturns
  <2>3. CASE EngineStep
    BY <2>3 DEF EngineStep, GiveTurn, EndTurns, BeginWorld, FailApplication,
       CompletePriorCollection, AdvanceTimers, AdvanceWorld, Barrier, ReclaimPendingDestroy,
       EndReclaim, RequestFrameCollection, AdvanceFrameCollection, EndTick, Collect, Reclaim,
       CancelActiveCollection, EndWorld, EndCall, frameOnly, engineVars
  <2> QED
    BY <2>1, <2>2, <2>3 DEF FrameNext
<1>4. CASE composed' = composed
  BY <1>4 DEF NetworkIsWhole
<1> QED
  BY <1>1, <1>2, <1>3, <1>4

----------------------------------------------------------------------------
(* The invariant of the engine and its store, and what it gives.           *)

FrameInvariant == StoreInvariant /\ EngineTypes /\ StagesSound /\ WorldRooted /\ NetworkIsWhole

LEMMA FrameInit_Invariant == FrameInit => FrameInvariant
<1> SUFFICES ASSUME FrameInit PROVE FrameInvariant
  OBVIOUS
<1> USE DEF FrameInit
<1>1. StoreInvariant
  <2>1. RootsNameOccupants
    BY DEF Init, StoreInit, RootsNameOccupants
  <2> QED
    BY <2>1, InitTypeOK, InitCycle DEF StoreInvariant
<1>2. EngineTypes
  BY NoFrameIsFrame DEF EngineTypes, Systems, Turns
<1>3. StagesSound
  BY DEF StagesSound, NoFrame, StagesOf, CycleStages, Init, CollectorInit
<1>4. WorldRooted /\ NetworkIsWhole
  BY DEF WorldRooted, NetworkIsWhole
<1> QED
  BY <1>1, <1>2, <1>3, <1>4 DEF FrameInvariant

LEMMA FrameInvariantHolds == FrameSpec => []FrameInvariant
<1>1. FrameInvariant /\ [FrameNext]_allVars => FrameInvariant'
  BY StoreInvariantHolds, EngineTypesHold, StagesHold, WorldHolds, NetworkHolds
     DEF FrameInvariant, StoreInvariant
<1> QED
  BY <1>1, FrameInit_Invariant, PTL DEF FrameSpec

\* No turn is given and none goes on while a collector owns the store, whatever
\* the budgets leave of a cycle at the end of a frame and whatever user code
\* does between frames (EngineHost.h:595).
THEOREM TurnsSeeNoCycle == FrameSpec => []CallbacksSeeNoCycle
<1>1. FrameInvariant => CallbacksSeeNoCycle
  <2> SUFFICES ASSUME FrameInvariant, frame.turn PROVE phase = "Idle" /\ ~activeCollector
    BY DEF CallbacksSeeNoCycle
  <2>1. frame.call # "None"
    BY DEF FrameInvariant, StagesSound, NoFrame
  <2>2. phase = "Idle"
    BY <2>1 DEF FrameInvariant, StagesSound
  <2> QED
    BY <2>2 DEF FrameInvariant, StoreInvariant, CycleInvariant, LocksAgree
<1> QED
  BY <1>1, FrameInvariantHolds, PTL

\* The engine keeps its types, the world it rooted stays the live object it made
\* through every cycle, barrier and use of the store (EngineHost.h:763), and a setup
\* of the network that fails leaves no layer of it behind (EngineHost.h:281-329).
THEOREM WorldOutlivesCycles == FrameSpec => []EngineSound
<1>1. FrameInvariant => EngineSound
  BY EngineTyped DEF FrameInvariant, StoreInvariant, EngineSound, WorldIsKept, WorldRooted
<1> QED
  BY <1>1, FrameInvariantHolds, PTL

----------------------------------------------------------------------------
(* Whose turn it is.                                                       *)

\* The seat a system has in a beginning or a pre-advance.
Place(x) ==
    CASE x = "Device" -> IF "Device" \in composed THEN 1 ELSE 2
      [] x = "System" -> 2
      [] x = "Messaging" -> 3
      [] x = "Network" -> 4

Seat(x) == IF frame.stage \in {"BeginPlay", "PreAdvance"} THEN Place(x) ELSE 5 - Place(x)
Passed(x) == frame.at > Seat(x)
Present(x) == x = bound \/ x \in composed

\* The turns a system may have had last, when it has had one: in a stage of
\* turns that depends on whether the stage is past the system's seat.
Rested == {"BeginPlay", "PostAdvance"}

TurnsBefore(stage, callOf, play, passed) ==
    CASE stage = "Configure" -> {}
      [] stage = "BeginPlay" -> IF passed THEN {"BeginPlay"} ELSE {}
      [] stage = "BeginWorld" -> {"BeginPlay"}
      [] stage \in {"CatchUp", "Cancel", "EndWorld"} -> Rested
      [] stage = "PreAdvance" -> IF passed THEN {"PreAdvance"} ELSE Rested
      [] stage \in {"Timers", "AdvanceWorld", "Barrier", "Reclaim", "Reclaiming"} ->
            {"PreAdvance"}
      [] stage = "PostAdvance" -> IF passed THEN {"PostAdvance"} ELSE {"PreAdvance"}
      [] stage \in {"Collect", "Collecting"} -> {"PostAdvance"}
      [] stage = "EndPlay" ->
            IF passed THEN {"EndPlay"} ELSE IF callOf = "BeginPlay" THEN {"BeginPlay"} ELSE Rested
      [] stage = "Failed" -> {"EndPlay"}
      [] stage = "Return" ->
            IF callOf = "None" /\ play = "Constructed" THEN {}
            ELSE IF callOf = "None" /\ play = "Playing" THEN Rested ELSE {"EndPlay"}

Latest(x) == TurnsBefore(frame.stage, frame.call, application, Passed(x))

\* An application that is in a call of the engine began to play or ended.
PlayMatches ==
    /\ frame.call \in {"BeginPlay", "Tick"} => application = "Playing"
    /\ frame.call = "EndPlay" => application = "Ended"

\* Without a world play does not begin.
WorldFirst ==
    world = NoHandle =>
        /\ frame.stage \in {"Configure", "Failed", "Return"}
        /\ application = "Playing" => frame.call = "BeginPlay"
        /\ \A x \in Systems : lastTurn[x] = "None"

TurnsSound ==
    /\ bound \in {NoSystem, "System", "Device"}
    /\ PlayMatches
    /\ WorldFirst
    /\ \A x \in Systems : lastTurn[x] # "None" => Present(x) /\ lastTurn[x] \in Latest(x)

\* Every present system has a seat, and it is the one in its seat.
LEMMA Seated ==
  ASSUME EngineTypes, bound \in {NoSystem, "System", "Device"}, frame.stage \in Turns
  PROVE  /\ \A x \in Systems : Seat(x) \in 1..4
         /\ \A x \in Systems : Present(x) => Occupying(Seat(x)) = x
         /\ \A i \in 1..4 : Occupying(i) \in Systems => Seat(Occupying(i)) = i
<1>1. \A x \in Systems : Place(x) \in 1..4
  BY DEF Place, Systems
<1>2. \A x \in Systems : Present(x) => Occupant(Place(x)) = x
  BY SystemAssumption
     DEF EngineTypes, Present, Occupant, Place, IsConfiguredDeviceBoundAsSystem, Systems,
         SystemAssumption
<1>3. \A i \in 1..4 : Occupant(i) \in Systems => Place(Occupant(i)) = i
  BY SystemAssumption
     DEF Occupant, Place, IsConfiguredDeviceBoundAsSystem, Systems, SystemAssumption
<1> HIDE DEF Place, Occupant
<1>4. \A i \in 1..4 : 5 - i \in 1..4 /\ 5 - (5 - i) = i
  OBVIOUS
<1> QED
  BY <1>1, <1>2, <1>3, <1>4 DEF Seat, Occupying

\* A step that gives no turn, composes nothing and takes nothing back from what
\* a system may have had.
LEMMA TurnsCarry ==
  ASSUME TurnsSound, UNCHANGED <<bound, composed, lastTurn, world>>, PlayMatches',
         world = NoHandle =>
            /\ frame'.stage \in {"Configure", "Failed", "Return"}
            /\ application' = "Playing" => frame'.call = "BeginPlay",
         \A x \in Systems : Present(x) /\ lastTurn[x] # "None" => Latest(x) \subseteq Latest(x)'
  PROVE  TurnsSound'
BY DEF TurnsSound, WorldFirst, Present

\* Composition and uses of the store leave everybody's turns as they were.
LEMMA UsesKeepTurns ==
  ASSUME EngineTypes, CycleInvariant, StagesSound, TurnsSound,
         Compose \/ UseStore \/ ToggleWorldDispatch
  PROVE  TurnsSound'
<1>1. UNCHANGED <<application, frame, bound, lastTurn>>
  BY UsesKeepStage
<1>2. CASE \A x \in Systems : lastTurn[x] = "None"
  <2>1. world' = NoHandle => world = NoHandle
    <3>1. CASE CreateWorld
      <4>1. \A s \in Slots : s # InvalidIndex
        BY StoreAssumption DEF Slots, InvalidIndex, StoreAssumption
      <4> QED
        BY <3>1, <4>1 DEF CreateWorld, NoHandle
    <3>2. CASE ~CreateWorld
      BY <3>2 DEF Compose, ConfigureNetworking, CreateMessagingSystem, CreateNetworkSystem,
         UseStore, ToggleWorldDispatch, engineVars
    <3> QED
      BY <3>1, <3>2
  <2>2. PlayMatches' /\ WorldFirst'
    BY <1>1, <1>2, <2>1 DEF TurnsSound, PlayMatches, WorldFirst
  <2> QED
    BY <1>1, <1>2, <2>2 DEF TurnsSound
<1>3. CASE ~\A x \in Systems : lastTurn[x] = "None"
  <2>1. world # NoHandle
    BY <1>3 DEF TurnsSound, WorldFirst
  <2>2. world' = world
    BY <2>1 DEF Compose, ConfigureNetworking, CreateMessagingSystem, CreateNetworkSystem,
       CreateWorld, UseStore, ToggleWorldDispatch, engineVars
  <2>3. composed \subseteq composed' /\ ("Device" \in composed' => "Device" \in composed)
    BY <2>1 DEF Unwound, NetworkLayers, Compose, ConfigureNetworking, CreateMessagingSystem, CreateNetworkSystem,
       CreateWorld, UseStore, ToggleWorldDispatch, engineVars
  <2>4. \A x : Latest(x)' = Latest(x)
    <3>1. \A x : Place(x)' = Place(x)
      BY <2>3 DEF Place
    <3> QED
      BY <1>1, <3>1 DEF Latest, Passed, Seat
  <2>5. \A x \in Systems : Present(x) => Present(x)'
    BY <1>1, <2>3 DEF Present
  <2>6. PlayMatches' /\ WorldFirst'
    BY <1>1, <2>1, <2>2 DEF TurnsSound, PlayMatches, WorldFirst
  <2> QED
    BY <1>1, <2>4, <2>5, <2>6 DEF TurnsSound
<1> QED
  BY <1>2, <1>3

\* The system whose turn it is has not been passed; it and everyone passed
\* before have now had this turn.
LEMMA GivenInTurn ==
  ASSUME EngineTypes, TurnsSound, GiveTurn
  PROVE  /\ TurnsSound'
         /\ Occupying(frame'.at - 1) \in Systems
         /\ lastTurn[Occupying(frame'.at - 1)] = "None"
            \/ frame.stage \in MayFollow(lastTurn[Occupying(frame'.at - 1)])
<1>0. frame \in Frames /\ frame.stage \in Turns /\ frame.call # "None"
  BY DEF EngineTypes, GiveTurn, At
<1>1. PICK i \in frame.at..4 :
        /\ Occupying(i) # NoSystem
        /\ \A j \in frame.at..(i - 1) : Occupying(j) = NoSystem
        /\ lastTurn' = [lastTurn EXCEPT ![Occupying(i)] = frame.stage]
        /\ frame' = [frame EXCEPT !.at = i + 1, !.turn = TRUE]
  BY DEF GiveTurn
<1>2. UNCHANGED <<application, bound, composed, world>>
  BY DEF GiveTurn
<1>3. frame.at \in 1..4 /\ i \in 1..4
  BY <1>0, <1>1 DEF Frames
<1>4. frame'.at = i + 1 /\ frame'.stage = frame.stage /\ frame'.call = frame.call
  BY <1>0, <1>1 DEF Frames
<1>5. PICK x : x = Occupying(i)
  OBVIOUS
<1>6. x \in Systems
  <2>1. \A p \in 1..4 : Occupant(p) \in Systems \cup {NoSystem}
    BY DEF Occupant, Systems, TurnsSound
  <2> HIDE DEF Occupant
  <2> QED
    BY <1>1, <1>3, <1>5, <2>1 DEF Occupying
<1>7. bound \in {NoSystem, "System", "Device"}
  BY DEF TurnsSound
<1>8. Seat(x) = i
  BY <1>0, <1>3, <1>5, <1>6, <1>7, Seated
<1>9. \A y \in Systems : Seat(y)' = Seat(y) /\ Seat(y) \in 1..4
  <2>1. \A y \in Systems : Seat(y) \in 1..4
    BY <1>0, <1>7, Seated
  <2>2. \A y : Place(y)' = Place(y)
    BY <1>2 DEF Place
  <2> HIDE DEF Place
  <2> QED
    BY <1>4, <2>1, <2>2 DEF Seat
<1>10. ~Passed(x) /\ Passed(x)'
  BY <1>1, <1>3, <1>4, <1>6, <1>8, <1>9 DEF Passed
<1>11. \A y \in Systems : y # x /\ Present(y) => (Passed(y) <=> Passed(y)')
  <2> SUFFICES ASSUME NEW y \in Systems, y # x, Present(y)
               PROVE  Passed(y) <=> Passed(y)'
    OBVIOUS
  <2>1. Occupying(Seat(y)) = y /\ Seat(y) \in 1..4
    BY <1>0, <1>7, Seated
  <2>2. Seat(y) # i
    BY <1>5, <2>1
  <2>3. y # NoSystem
    BY SystemAssumption DEF SystemAssumption
  <2>4. Seat(y) \notin frame.at..(i - 1)
    BY <1>1, <2>1, <2>3
  <2>5. frame.at > Seat(y) <=> i + 1 > Seat(y)
    BY <1>1, <1>3, <2>1, <2>2, <2>4
  <2> QED
    BY <1>4, <1>9, <2>5 DEF Passed
<1>12. lastTurn'[x] = frame.stage /\ \A y \in Systems : y # x => lastTurn'[y] = lastTurn[y]
  BY <1>1, <1>5, <1>6 DEF EngineTypes
<1>13. Present(x)
  <2>1. Occupant(Place(x)) = x /\ Place(x) \in 1..4
    <3>1. Place(x) \in 1..4 /\ (i = Place(x) \/ i = 5 - Place(x))
      BY <1>6, <1>8 DEF Place, Seat, Systems
    <3>2. Occupying(i) = Occupant(Place(x))
      <4> HIDE DEF Place
      <4> QED
        BY <1>8, <3>1 DEF Occupying, Seat
    <3> QED
      BY <1>5, <3>1, <3>2
  <2>2. x # NoSystem
    BY <1>6, SystemAssumption DEF SystemAssumption
  <2> QED
    BY <2>1, <2>2 DEF Occupant, Present
<1>14. world # NoHandle
  BY <1>0 DEF TurnsSound, WorldFirst, Turns, PlayMatches, Frames
<1>15. \A y \in Systems : lastTurn'[y] # "None" => Present(y)' /\ lastTurn'[y] \in Latest(y)'
  <2>1. frame.stage \in Latest(x)'
    BY <1>0, <1>4, <1>10 DEF Latest, TurnsBefore, Turns
  <2>2. ASSUME NEW y \in Systems, y # x, lastTurn[y] # "None"
        PROVE  Present(y)' /\ lastTurn[y] \in Latest(y)'
    <3>1. Present(y) /\ lastTurn[y] \in Latest(y)
      BY <2>2 DEF TurnsSound
    <3>2. Passed(y) <=> Passed(y)'
      BY <1>11, <2>2, <3>1
    <3>3. Latest(y)' = Latest(y)
      <4>1. CASE Passed(y)
        BY <1>0, <1>2, <1>4, <3>2, <4>1 DEF Latest, TurnsBefore, Turns
      <4>2. CASE ~Passed(y)
        BY <1>0, <1>2, <1>4, <3>2, <4>2 DEF Latest, TurnsBefore, Turns
      <4> QED
        BY <4>1, <4>2
    <3> QED
      BY <1>2, <3>1, <3>3 DEF Present
  <2>3. Present(x)'
    BY <1>2, <1>13 DEF Present
  <2> QED
    BY <1>12, <2>1, <2>2, <2>3
<1>16. TurnsSound'
  <2>1. PlayMatches' /\ WorldFirst'
    BY <1>2, <1>4, <1>14 DEF TurnsSound, PlayMatches, WorldFirst
  <2> QED
    BY <1>2, <1>15, <2>1 DEF TurnsSound
<1>17. lastTurn[x] = "None" \/ frame.stage \in MayFollow(lastTurn[x])
  <2> SUFFICES ASSUME lastTurn[x] # "None" PROVE frame.stage \in MayFollow(lastTurn[x])
    OBVIOUS
  <2>1. lastTurn[x] \in TurnsBefore(frame.stage, frame.call, application, FALSE)
    BY <1>6, <1>10 DEF TurnsSound, Latest, TurnsBefore
  <2> QED
    BY <1>0, <2>1 DEF TurnsBefore, Turns, Rested, MayFollow
<1> QED
  BY <1>3, <1>4, <1>5, <1>6, <1>16, <1>17

\* Outside a stage of turns nobody's seat matters.
LEMMA SeatsMatterInTurns ==
  ASSUME NEW stage, stage \notin Turns, NEW callOf, NEW play, NEW x
  PROVE  TurnsBefore(stage, callOf, play, Passed(x)) = TurnsBefore(stage, callOf, play, FALSE)
<1>1. CASE Passed(x)
  BY <1>1 DEF TurnsBefore, Turns
<1>2. CASE ~Passed(x)
  BY <1>2 DEF TurnsBefore, Turns
<1> QED
  BY <1>1, <1>2

\* The engine goes on from a stage that gives no turns to systems.
LEMMA TurnsGoOn ==
  ASSUME EngineTypes, StagesSound, TurnsSound, NEW to, frame.call # "None",
         to \in StagesOf(frame.call), Stage(to) \/ (Turn(to) /\ to = frame.stage),
         frame.stage \notin Turns,
         UNCHANGED <<application, bound, composed, lastTurn, world>>,
         world = NoHandle => to \in {"Configure", "Failed", "Return"},
         TurnsBefore(frame.stage, frame.call, application, FALSE)
            \subseteq TurnsBefore(to, frame.call, application, FALSE)
  PROVE  TurnsSound'
<1>1. to \in StagesOf("BeginPlay") \cup StagesOf("Tick") \cup StagesOf("EndPlay")
  BY DEF EngineTypes, Frames
<1>2. /\ frame'.call = frame.call /\ frame'.stage = to
      /\ to \in Turns => frame'.at = 1
  BY <1>1, StageFields DEF EngineTypes
<1>3. PlayMatches'
  BY <1>2 DEF TurnsSound, PlayMatches
<1>4. ASSUME NEW x \in Systems PROVE Latest(x) \subseteq Latest(x)'
  <2>1. Latest(x) = TurnsBefore(frame.stage, frame.call, application, FALSE)
    BY SeatsMatterInTurns DEF Latest
  <2>2. Latest(x)' = TurnsBefore(to, frame.call, application, Passed(x)')
    BY <1>2 DEF Latest
  <2>3. CASE to \notin Turns
    <3>1. Latest(x)' = TurnsBefore(to, frame.call, application, FALSE)
      <4>1. CASE Passed(x)'
        BY <2>2, <2>3, <4>1 DEF TurnsBefore, Turns
      <4>2. CASE ~Passed(x)'
        BY <2>2, <2>3, <4>2 DEF TurnsBefore, Turns
      <4> QED
        BY <4>1, <4>2
    <3> QED
      BY <2>1, <3>1
  <2>4. CASE to \in Turns
    <3>1. Seat(x)' \in 1..4
      <4>1. Place(x)' \in 1..4
        BY DEF Place, Systems
      <4> HIDE DEF Place
      <4> QED
        BY <4>1 DEF Seat
    <3>2. ~Passed(x)'
      BY <1>2, <2>4, <3>1 DEF Passed
    <3>3. Latest(x)' = TurnsBefore(to, frame.call, application, FALSE)
      BY <2>2, <2>4, <3>2 DEF TurnsBefore, Turns
    <3> QED
      BY <2>1, <3>3
  <2> QED
    BY <2>3, <2>4
<1>5. world = NoHandle =>
        /\ frame'.stage \in {"Configure", "Failed", "Return"}
        /\ application' = "Playing" => frame'.call = "BeginPlay"
  BY <1>2 DEF TurnsSound, WorldFirst
<1> QED
  BY <1>3, <1>4, <1>5, TurnsCarry

\* A call ends where every system has rested or ended.
LEMMA TurnsReturn ==
  ASSUME TurnsSound, frame' = NoFrame, UNCHANGED <<bound, composed, lastTurn, world>>,
         \/ application' = "Playing" /\ world # NoHandle
         \/ application' \in {"Ended", "Failed"},
         \A x \in Systems : Latest(x)
            \subseteq TurnsBefore("Return", "None", application', FALSE)
  PROVE  TurnsSound'
<1>1. frame'.stage = "Return" /\ frame'.call = "None"
  BY DEF NoFrame
<1>2. PlayMatches'
  BY <1>1 DEF PlayMatches
<1>3. \A x \in Systems : Latest(x)' = TurnsBefore("Return", "None", application', FALSE)
  BY <1>1 DEF Latest, TurnsBefore
<1>4. world = NoHandle =>
        /\ frame'.stage \in {"Configure", "Failed", "Return"}
        /\ application' = "Playing" => frame'.call = "BeginPlay"
  BY <1>1
<1> QED
  BY <1>2, <1>3, <1>4, TurnsCarry

\* When nobody is left to have a turn, everybody present has had it.
LEMMA EndOfTurns ==
  ASSUME EngineTypes, StagesSound, TurnsSound, EndTurns PROVE TurnsSound'
<1>0. frame \in Frames /\ frame.stage \in Turns /\ frame.call # "None"
  BY DEF EngineTypes, EndTurns, At
<1>1. UNCHANGED <<application, bound, composed, lastTurn, world>>
  BY DEF EndTurns
<1>2. PICK to : to = StageAfter(frame.stage)
  OBVIOUS
<1>3. /\ to \in StagesOf("BeginPlay") \cup StagesOf("Tick") \cup StagesOf("EndPlay")
      /\ to \notin Turns
  BY <1>0, <1>2 DEF StageAfter, StagesOf, Turns
<1>4. frame'.call = frame.call /\ frame'.stage = to
  BY <1>0, <1>2, <1>3, StageFields DEF EndTurns
<1>5. ASSUME NEW x \in Systems, Present(x) PROVE Latest(x) \subseteq Latest(x)'
  <2>1. Occupying(Seat(x)) = x /\ Seat(x) \in 1..4
    BY <1>0, <1>5, Seated DEF TurnsSound
  <2>2. x # NoSystem
    BY SystemAssumption DEF SystemAssumption
  <2>3. Seat(x) \notin frame.at..4
    BY <2>1, <2>2 DEF EndTurns
  <2>4. Passed(x)
    BY <1>0, <2>1, <2>3 DEF Passed, Frames
  <2>5. Latest(x) = {frame.stage}
    BY <1>0, <2>4 DEF Latest, TurnsBefore, Turns
  <2>6. frame.stage \in TurnsBefore(to, frame.call, application, FALSE)
    BY <1>0, <1>2 DEF StageAfter, TurnsBefore, Turns, Rested, StagesSound, StagesOf
  <2>7. Latest(x)' = TurnsBefore(to, frame.call, application, FALSE)
    <3>1. Latest(x)' = TurnsBefore(to, frame.call, application, Passed(x)')
      BY <1>1, <1>4 DEF Latest
    <3>2. CASE Passed(x)'
      BY <1>3, <3>1, <3>2 DEF TurnsBefore, Turns
    <3>3. CASE ~Passed(x)'
      BY <1>3, <3>1, <3>3 DEF TurnsBefore, Turns
    <3> QED
      BY <3>2, <3>3
  <2> QED
    BY <2>5, <2>6, <2>7
<1>6. PlayMatches'
  BY <1>1, <1>4 DEF TurnsSound, PlayMatches
<1>7. world # NoHandle
  BY <1>0 DEF TurnsSound, WorldFirst, Turns, PlayMatches, Frames
<1> QED
  BY <1>1, <1>5, <1>6, <1>7, TurnsCarry

\* Every step keeps the systems in turn.
LEMMA TurnsHold ==
  ASSUME CycleInvariant, EngineTypes, StagesSound, TurnsSound, [FrameNext]_allVars
  PROVE  TurnsSound'
<1>0. frame \in Frames
  BY DEF EngineTypes
<1>1. CASE Compose \/ UseStore \/ ToggleWorldDispatch
  BY <1>1, UsesKeepTurns
<1>2. CASE GiveTurn
  BY <1>2, GivenInTurn
<1>3. CASE EndTurns
  BY <1>3, EndOfTurns
<1>4. CASE Collect \/ Reclaim \/ RequestFrameCollection \/ UNCHANGED allVars
  <2>1. UNCHANGED engineVars
    BY <1>4 DEF Collect, Reclaim, RequestFrameCollection, allVars
  <2>2. \A x \in Systems : Latest(x)' = Latest(x)
    BY <2>1 DEF engineVars, Latest, Passed, Seat, Place
  <2> QED
    BY <2>1, <2>2 DEF engineVars, TurnsSound, PlayMatches, WorldFirst, Present
<1>5. CASE SystemReturns
  <2>1. /\ UNCHANGED <<application, bound, composed, lastTurn, world>>
        /\ frame'.stage = frame.stage /\ frame'.call = frame.call /\ frame'.at = frame.at
    BY <1>0, <1>5 DEF SystemReturns, Frames
  <2>2. \A x \in Systems : Latest(x)' = Latest(x)
    BY <2>1 DEF Latest, Passed, Seat, Place
  <2> QED
    BY <2>1, <2>2 DEF TurnsSound, PlayMatches, WorldFirst, Present
<1>6. CASE BeginApplication \/ BeginTick \/ EndApplication
  <2>0. /\ frame.call = "None" /\ frame.stage = "Return"
        /\ UNCHANGED <<bound, composed, lastTurn, world>>
    BY <1>6 DEF BeginApplication, BeginTick, EndApplication, Between, NoFrame, frameOnly
  <2>1. \A x \in Systems : Latest(x) = TurnsBefore("Return", "None", application, FALSE)
    BY <2>0 DEF Latest, TurnsBefore
  <2>2. CASE BeginApplication
    <3>1. /\ frame'.call = "BeginPlay" /\ frame'.stage = "Configure"
          /\ application = "Constructed" /\ application' = "Playing"
      BY <2>2 DEF BeginApplication, NoFrame
    <3>2. \A x \in Systems : Latest(x) = {}
      BY <2>1, <3>1 DEF TurnsBefore
    <3> QED
      BY <2>0, <3>1, <3>2, TurnsCarry DEF PlayMatches
  <2>3. CASE BeginTick \/ EndApplication
    <3>1. /\ application = "Playing"
          /\ \/ /\ frame'.call = "Tick" /\ frame'.stage = "CatchUp" /\ application' = "Playing"
             \/ /\ frame'.call = "EndPlay" /\ frame'.stage = "Cancel" /\ application' = "Ended"
      BY <2>3 DEF BeginTick, EndApplication, NoFrame
    <3>2. \A x \in Systems : Latest(x) = Rested
      BY <2>1, <3>1 DEF TurnsBefore
    <3>3. \A x \in Systems : Latest(x)' = Rested
      BY <3>1 DEF Latest, TurnsBefore
    <3>4. world # NoHandle
      BY <2>0, <3>1 DEF TurnsSound, WorldFirst
    <3> QED
      BY <2>0, <3>1, <3>2, <3>3, <3>4, TurnsCarry DEF PlayMatches
  <2> QED
    BY <1>6, <2>2, <2>3
<1>7. CASE EndTick
  <2>1. /\ frame.stage = "Collecting" /\ frame' = NoFrame
        /\ UNCHANGED <<application, bound, composed, lastTurn, world>>
    BY <1>7 DEF EndTick, At, Return, frameOnly
  <2>2. application = "Playing" /\ world # NoHandle
    BY <2>1, CallOfStage DEF StagesOf, TurnsSound, PlayMatches, WorldFirst
  <2>3. \A x \in Systems : Latest(x) \subseteq TurnsBefore("Return", "None", application', FALSE)
    BY <2>1, <2>2 DEF Latest, TurnsBefore, Rested
  <2> QED
    BY <2>1, <2>2, <2>3, TurnsReturn
<1>8. CASE EndCall
  <2>1. /\ frame.stage = "Return" /\ frame.call # "None" /\ frame' = NoFrame
        /\ UNCHANGED <<application, bound, composed, lastTurn, world>>
    BY <1>8 DEF EndCall, At, Return, frameOnly
  <2>2. frame.call = "EndPlay" /\ application = "Ended"
    BY <1>0, <2>1 DEF StagesSound, StagesOf, Frames, TurnsSound, PlayMatches
  <2>3. \A x \in Systems : Latest(x) \subseteq TurnsBefore("Return", "None", application', FALSE)
    BY <2>1, <2>2 DEF Latest, TurnsBefore
  <2> QED
    BY <2>1, <2>2, <2>3, TurnsReturn
<1>9. CASE FailedReturns
  <2>1. /\ frame.stage = "Failed" /\ frame' = NoFrame /\ application' = "Failed"
        /\ UNCHANGED <<bound, composed, lastTurn, world>>
    BY <1>9 DEF FailedReturns, InTurn, Return, frameOnly
  <2>2. \A x \in Systems : Latest(x) \subseteq TurnsBefore("Return", "None", application', FALSE)
    BY <2>1 DEF Latest, TurnsBefore
  <2> QED
    BY <2>1, <2>2, TurnsReturn
<1>10. CASE BeginWorldReturns /\ Return
  <2>1. /\ frame.stage = "BeginWorld" /\ frame' = NoFrame
        /\ UNCHANGED <<application, bound, composed, lastTurn, world>>
    BY <1>10 DEF BeginWorldReturns, InTurn, Return, frameOnly
  <2>2. application = "Playing" /\ world # NoHandle
    BY <2>1, CallOfStage DEF TurnsSound, PlayMatches, WorldFirst
  <2>3. \A x \in Systems : Latest(x) \subseteq TurnsBefore("Return", "None", application', FALSE)
    BY <2>1, <2>2 DEF Latest, TurnsBefore, Rested
  <2> QED
    BY <2>1, <2>2, <2>3, TurnsReturn
<1>11. CASE ConfigureReturns
  <2>1. /\ frame.stage = "Configure" /\ UNCHANGED <<application, bound, composed, lastTurn, world>>
        /\ \/ Stage("Failed")
           \/ world # NoHandle /\ Stage("BeginPlay")
    BY <1>11 DEF ConfigureReturns, InTurn, frameOnly
  <2>2. frame.call = "BeginPlay"
    BY <2>1, CallOfStage DEF StagesOf
  <2>3. "Failed" \in StagesOf("BeginPlay") /\ "BeginPlay" \in StagesOf("BeginPlay") /\ frame.stage \notin Turns
    BY <2>1 DEF StagesOf, Turns
  <2>4. TurnsBefore("Configure", "BeginPlay", application, FALSE)
           \subseteq TurnsBefore("Failed", "BeginPlay", application, FALSE)
    BY DEF TurnsBefore, Rested
  <2>5. TurnsBefore("Configure", "BeginPlay", application, FALSE)
           \subseteq TurnsBefore("BeginPlay", "BeginPlay", application, FALSE)
    BY DEF TurnsBefore, Rested
  <2> QED
    BY <2>1, <2>2, <2>3, <2>4, <2>5, TurnsGoOn
<1>12. CASE BeginWorld
  <2>1. /\ frame.stage = "BeginWorld" /\ UNCHANGED <<application, bound, composed, lastTurn, world>>
        /\ \/ Turn("BeginWorld")
           \/ Stage("EndPlay")
    BY <1>12 DEF BeginWorld, At, frameOnly
  <2>2. frame.call = "BeginPlay"
    BY <2>1, CallOfStage DEF StagesOf
  <2>3. world # NoHandle
    BY <2>1 DEF TurnsSound, WorldFirst
  <2>4. "BeginWorld" \in StagesOf("BeginPlay") /\ "EndPlay" \in StagesOf("BeginPlay") /\ frame.stage \notin Turns
    BY <2>1 DEF StagesOf, Turns
  <2>5. TurnsBefore("BeginWorld", "BeginPlay", application, FALSE)
           \subseteq TurnsBefore("EndPlay", "BeginPlay", application, FALSE)
    BY DEF TurnsBefore, Rested
  <2> QED
    BY <2>1, <2>2, <2>3, <2>4, <2>5, TurnsGoOn
<1>13. CASE BeginWorldReturns /\ ~Return
  <2>1. /\ frame.stage = "BeginWorld" /\ UNCHANGED <<application, bound, composed, lastTurn, world>>
        /\ Stage("EndPlay")
    BY <1>13 DEF BeginWorldReturns, InTurn, frameOnly
  <2>2. frame.call = "BeginPlay"
    BY <2>1, CallOfStage DEF StagesOf
  <2>3. world # NoHandle
    BY <2>1 DEF TurnsSound, WorldFirst
  <2>4. "EndPlay" \in StagesOf("BeginPlay") /\ frame.stage \notin Turns
    BY <2>1 DEF StagesOf, Turns
  <2>5. TurnsBefore("BeginWorld", "BeginPlay", application, FALSE)
           \subseteq TurnsBefore("EndPlay", "BeginPlay", application, FALSE)
    BY DEF TurnsBefore, Rested
  <2> QED
    BY <2>1, <2>2, <2>3, <2>4, <2>5, TurnsGoOn
<1>14. CASE FailApplication
  <2>1. /\ frame.stage = "Failed" /\ UNCHANGED <<application, bound, composed, lastTurn, world>>
        /\ Turn("Failed")
    BY <1>14 DEF FailApplication, At, frameOnly
  <2>2. frame.call = "BeginPlay"
    BY <2>1, CallOfStage DEF StagesOf
  <2>3. "Failed" \in StagesOf("BeginPlay") /\ frame.stage \notin Turns
    BY <2>1 DEF StagesOf, Turns
  <2> QED
    BY <2>1, <2>2, <2>3, TurnsGoOn
<1>15. CASE AdvanceTimers
  <2>1. /\ frame.stage = "Timers" /\ UNCHANGED <<application, bound, composed, lastTurn, world>>
        /\ Turn("Timers")
    BY <1>15 DEF AdvanceTimers, At, frameOnly
  <2>2. frame.call = "Tick"
    BY <2>1, CallOfStage DEF StagesOf
  <2>3. world # NoHandle
    BY <2>1 DEF TurnsSound, WorldFirst
  <2>4. "Timers" \in StagesOf("Tick") /\ frame.stage \notin Turns
    BY <2>1 DEF StagesOf, Turns
  <2> QED
    BY <2>1, <2>2, <2>3, <2>4, TurnsGoOn
<1>16. CASE TimersReturn
  <2>1. /\ frame.stage = "Timers" /\ UNCHANGED <<application, bound, composed, lastTurn, world>>
        /\ Stage("AdvanceWorld")
    BY <1>16 DEF TimersReturn, InTurn, frameOnly
  <2>2. frame.call = "Tick"
    BY <2>1, CallOfStage DEF StagesOf
  <2>3. world # NoHandle
    BY <2>1 DEF TurnsSound, WorldFirst
  <2>4. "AdvanceWorld" \in StagesOf("Tick") /\ frame.stage \notin Turns
    BY <2>1 DEF StagesOf, Turns
  <2>5. TurnsBefore("Timers", "Tick", application, FALSE)
           \subseteq TurnsBefore("AdvanceWorld", "Tick", application, FALSE)
    BY DEF TurnsBefore, Rested
  <2> QED
    BY <2>1, <2>2, <2>3, <2>4, <2>5, TurnsGoOn
<1>17. CASE AdvanceWorld
  <2>1. /\ frame.stage = "AdvanceWorld" /\ UNCHANGED <<application, bound, composed, lastTurn, world>>
        /\ \/ Turn("AdvanceWorld")
           \/ Stage("Reclaim")
    BY <1>17 DEF AdvanceWorld, At
  <2>2. frame.call = "Tick"
    BY <2>1, CallOfStage DEF StagesOf
  <2>3. world # NoHandle
    BY <2>1 DEF TurnsSound, WorldFirst
  <2>4. "AdvanceWorld" \in StagesOf("Tick") /\ "Reclaim" \in StagesOf("Tick") /\ frame.stage \notin Turns
    BY <2>1 DEF StagesOf, Turns
  <2>5. TurnsBefore("AdvanceWorld", "Tick", application, FALSE)
           \subseteq TurnsBefore("Reclaim", "Tick", application, FALSE)
    BY DEF TurnsBefore, Rested
  <2> QED
    BY <2>1, <2>2, <2>3, <2>4, <2>5, TurnsGoOn
<1>18. CASE AdvanceWorldReturns
  <2>1. /\ frame.stage = "AdvanceWorld" /\ UNCHANGED <<application, bound, composed, lastTurn, world>>
        /\ \/ Stage("Barrier")
           \/ Stage("Reclaim")
    BY <1>18 DEF AdvanceWorldReturns
  <2>2. frame.call = "Tick"
    BY <2>1, CallOfStage DEF StagesOf
  <2>3. world # NoHandle
    BY <2>1 DEF TurnsSound, WorldFirst
  <2>4. "Barrier" \in StagesOf("Tick") /\ "Reclaim" \in StagesOf("Tick") /\ frame.stage \notin Turns
    BY <2>1 DEF StagesOf, Turns
  <2>5. TurnsBefore("AdvanceWorld", "Tick", application, FALSE)
           \subseteq TurnsBefore("Barrier", "Tick", application, FALSE)
    BY DEF TurnsBefore, Rested
  <2>6. TurnsBefore("AdvanceWorld", "Tick", application, FALSE)
           \subseteq TurnsBefore("Reclaim", "Tick", application, FALSE)
    BY DEF TurnsBefore, Rested
  <2> QED
    BY <2>1, <2>2, <2>3, <2>4, <2>5, <2>6, TurnsGoOn
<1>19. CASE Barrier
  <2>1. /\ frame.stage = "Barrier" /\ UNCHANGED <<application, bound, composed, lastTurn, world>>
        /\ Turn("Barrier")
    BY <1>19 DEF Barrier, At, frameOnly
  <2>2. frame.call = "Tick"
    BY <2>1, CallOfStage DEF StagesOf
  <2>3. world # NoHandle
    BY <2>1 DEF TurnsSound, WorldFirst
  <2>4. "Barrier" \in StagesOf("Tick") /\ frame.stage \notin Turns
    BY <2>1 DEF StagesOf, Turns
  <2> QED
    BY <2>1, <2>2, <2>3, <2>4, TurnsGoOn
<1>20. CASE BarrierReturns
  <2>1. /\ frame.stage = "Barrier" /\ UNCHANGED <<application, bound, composed, lastTurn, world>>
        /\ Stage("Reclaim")
    BY <1>20 DEF BarrierReturns, InTurn, frameOnly
  <2>2. frame.call = "Tick"
    BY <2>1, CallOfStage DEF StagesOf
  <2>3. world # NoHandle
    BY <2>1 DEF TurnsSound, WorldFirst
  <2>4. "Reclaim" \in StagesOf("Tick") /\ frame.stage \notin Turns
    BY <2>1 DEF StagesOf, Turns
  <2>5. TurnsBefore("Barrier", "Tick", application, FALSE)
           \subseteq TurnsBefore("Reclaim", "Tick", application, FALSE)
    BY DEF TurnsBefore, Rested
  <2> QED
    BY <2>1, <2>2, <2>3, <2>4, <2>5, TurnsGoOn
<1>21. CASE ReclaimPendingDestroy
  <2>1. /\ frame.stage = "Reclaim" /\ UNCHANGED <<application, bound, composed, lastTurn, world>>
        /\ Stage("Reclaiming")
    BY <1>21 DEF ReclaimPendingDestroy, At
  <2>2. frame.call = "Tick"
    BY <2>1, CallOfStage DEF StagesOf
  <2>3. world # NoHandle
    BY <2>1 DEF TurnsSound, WorldFirst
  <2>4. "Reclaiming" \in StagesOf("Tick") /\ frame.stage \notin Turns
    BY <2>1 DEF StagesOf, Turns
  <2>5. TurnsBefore("Reclaim", "Tick", application, FALSE)
           \subseteq TurnsBefore("Reclaiming", "Tick", application, FALSE)
    BY DEF TurnsBefore, Rested
  <2> QED
    BY <2>1, <2>2, <2>3, <2>4, <2>5, TurnsGoOn
<1>22. CASE EndReclaim
  <2>1. /\ frame.stage = "Reclaiming" /\ UNCHANGED <<application, bound, composed, lastTurn, world>>
        /\ Stage("PostAdvance")
    BY <1>22 DEF EndReclaim, At, frameOnly
  <2>2. frame.call = "Tick"
    BY <2>1, CallOfStage DEF StagesOf
  <2>3. world # NoHandle
    BY <2>1 DEF TurnsSound, WorldFirst
  <2>4. "PostAdvance" \in StagesOf("Tick") /\ frame.stage \notin Turns
    BY <2>1 DEF StagesOf, Turns
  <2>5. TurnsBefore("Reclaiming", "Tick", application, FALSE)
           \subseteq TurnsBefore("PostAdvance", "Tick", application, FALSE)
    BY DEF TurnsBefore, Rested
  <2> QED
    BY <2>1, <2>2, <2>3, <2>4, <2>5, TurnsGoOn
<1>23. CASE AdvanceFrameCollection
  <2>1. /\ frame.stage = "Collect" /\ UNCHANGED <<application, bound, composed, lastTurn, world>>
        /\ Stage("Collecting")
    BY <1>23 DEF AdvanceFrameCollection, At
  <2>2. frame.call = "Tick"
    BY <2>1, CallOfStage DEF StagesOf
  <2>3. world # NoHandle
    BY <2>1 DEF TurnsSound, WorldFirst
  <2>4. "Collecting" \in StagesOf("Tick") /\ frame.stage \notin Turns
    BY <2>1 DEF StagesOf, Turns
  <2>5. TurnsBefore("Collect", "Tick", application, FALSE)
           \subseteq TurnsBefore("Collecting", "Tick", application, FALSE)
    BY DEF TurnsBefore, Rested
  <2> QED
    BY <2>1, <2>2, <2>3, <2>4, <2>5, TurnsGoOn
<1>24. CASE CancelActiveCollection
  <2>1. /\ frame.stage = "Cancel" /\ UNCHANGED <<application, bound, composed, lastTurn, world>>
        /\ Stage("EndWorld")
    BY <1>24 DEF CancelActiveCollection, At
  <2>2. frame.call = "EndPlay"
    BY <2>1, CallOfStage DEF StagesOf
  <2>3. world # NoHandle
    BY <2>1 DEF TurnsSound, WorldFirst
  <2>4. "EndWorld" \in StagesOf("EndPlay") /\ frame.stage \notin Turns
    BY <2>1 DEF StagesOf, Turns
  <2>5. TurnsBefore("Cancel", "EndPlay", application, FALSE)
           \subseteq TurnsBefore("EndWorld", "EndPlay", application, FALSE)
    BY DEF TurnsBefore, Rested
  <2> QED
    BY <2>1, <2>2, <2>3, <2>4, <2>5, TurnsGoOn
<1>25. CASE EndWorld
  <2>1. /\ frame.stage = "EndWorld" /\ UNCHANGED <<application, bound, composed, lastTurn, world>>
        /\ \/ Turn("EndWorld")
           \/ Stage("EndPlay")
    BY <1>25 DEF EndWorld, At
  <2>2. frame.call = "EndPlay"
    BY <2>1, CallOfStage DEF StagesOf
  <2>3. world # NoHandle
    BY <2>1 DEF TurnsSound, WorldFirst
  <2>4. "EndWorld" \in StagesOf("EndPlay") /\ "EndPlay" \in StagesOf("EndPlay") /\ frame.stage \notin Turns
    BY <2>1 DEF StagesOf, Turns
  <2>5. TurnsBefore("EndWorld", "EndPlay", application, FALSE)
           \subseteq TurnsBefore("EndPlay", "EndPlay", application, FALSE)
    BY DEF TurnsBefore, Rested
  <2> QED
    BY <2>1, <2>2, <2>3, <2>4, <2>5, TurnsGoOn
<1>26. CASE EndWorldReturns
  <2>1. /\ frame.stage = "EndWorld" /\ UNCHANGED <<application, bound, composed, lastTurn, world>>
        /\ Stage("EndPlay")
    BY <1>26 DEF EndWorldReturns
  <2>2. frame.call = "EndPlay"
    BY <2>1, CallOfStage DEF StagesOf
  <2>3. world # NoHandle
    BY <2>1 DEF TurnsSound, WorldFirst
  <2>4. "EndPlay" \in StagesOf("EndPlay") /\ frame.stage \notin Turns
    BY <2>1 DEF StagesOf, Turns
  <2>5. TurnsBefore("EndWorld", "EndPlay", application, FALSE)
           \subseteq TurnsBefore("EndPlay", "EndPlay", application, FALSE)
    BY DEF TurnsBefore, Rested
  <2> QED
    BY <2>1, <2>2, <2>3, <2>4, <2>5, TurnsGoOn
<1>27. CASE CompletePriorCollection
  <2>1. /\ frame.stage = "CatchUp" /\ UNCHANGED <<application, bound, composed, lastTurn, world>>
        /\ Stage("PreAdvance") \/ UNCHANGED frame
    BY <1>27 DEF CompletePriorCollection, At
  <2>2. frame.call = "Tick"
    BY <2>1, CallOfStage DEF StagesOf
  <2>3. world # NoHandle
    BY <2>1 DEF TurnsSound, WorldFirst
  <2>4. CASE Stage("PreAdvance")
    <3>1. "PreAdvance" \in StagesOf("Tick") /\ frame.stage \notin Turns
      BY <2>1 DEF StagesOf, Turns
    <3>2. TurnsBefore("CatchUp", "Tick", application, FALSE)
             \subseteq TurnsBefore("PreAdvance", "Tick", application, FALSE)
      BY DEF TurnsBefore
    <3> QED
      BY <2>1, <2>2, <2>3, <2>4, <3>1, <3>2, TurnsGoOn
  <2>5. CASE UNCHANGED frame
    <3>1. \A x \in Systems : Latest(x)' = Latest(x)
      <4>1. \A x : Place(x)' = Place(x)
        BY <2>1 DEF Place
      <4> QED
        BY <2>1, <2>5, <4>1 DEF Latest, Passed, Seat
    <3> QED
      BY <2>1, <2>5, <3>1 DEF TurnsSound, PlayMatches, WorldFirst, Present
  <2> QED
    BY <2>1, <2>4, <2>5
<1> QED
  BY <1>1, <1>2, <1>3, <1>4, <1>5, <1>6, <1>7, <1>8, <1>9, <1>10, <1>11, <1>12, <1>13,
     <1>14, <1>15, <1>16, <1>17, <1>18, <1>19, <1>20, <1>21, <1>22, <1>23, <1>24, <1>25,
     <1>26, <1>27
     DEF FrameNext, EngineStep, TurnReturns

\* The systems take their turns in turn, whatever is composed meanwhile and
\* whoever is bound as the device, and their play ends when the application's
\* does (EngineHost.h:522-571, 650-698).
THEOREM SystemsTakeTurns == FrameSpec => TurnsAlternate
<1>1. FrameInit => TurnsSound
  BY SystemAssumption
     DEF FrameInit, TurnsSound, PlayMatches, WorldFirst, NoFrame
<1>2. FrameInvariant /\ TurnsSound /\ [FrameNext]_allVars => TurnsSound'
  BY TurnsHold DEF FrameInvariant, StoreInvariant
<1>3. ASSUME FrameInvariant, TurnsSound, TurnsSound', FrameNext, NEW x \in Systems
      PROVE  /\ Given(x) => frame.stage \in MayFollow(lastTurn[x])
             /\ application' \in {"Ended", "Failed"} /\ frame' = NoFrame =>
                  lastTurn[x] \in {"None", "EndPlay"}
  <2>0. frame \in Frames
    BY <1>3 DEF FrameInvariant, EngineTypes
  <2>1. ASSUME Given(x) PROVE GiveTurn
    <3>1. frame.stage \in Turns /\ frame.call # "None" /\ ~frame.turn /\ frame'.turn
      BY <2>1 DEF Given, At
    <3>2. frame # NoFrame /\ ~UserCode
      BY <3>1 DEF NoFrame, UserCode
    <3>3. CASE Compose \/ UseStore \/ ToggleWorldDispatch
      BY <3>1, <3>2, <3>3 DEF Compose, ConfigureNetworking, CreateMessagingSystem,
         CreateNetworkSystem, CreateWorld, UseStore, ToggleWorldDispatch, engineVars
    <3>4. CASE BeginApplication \/ BeginTick \/ EndApplication \/ TurnReturns
      BY <3>1, <3>2, <3>4 DEF BeginApplication, BeginTick, EndApplication, Between, TurnReturns,
         SystemReturns, ConfigureReturns, BeginWorldReturns, FailedReturns, TimersReturn,
         AdvanceWorldReturns, BarrierReturns, EndWorldReturns, InTurn
    <3>5. CASE Collect \/ Reclaim \/ RequestFrameCollection
      BY <3>1, <3>5 DEF Collect, Reclaim, RequestFrameCollection, engineVars
    <3>6. CASE EndTurns
      <4>1. StageAfter(frame.stage) \in StagesOf("BeginPlay") \cup StagesOf("Tick")
                                          \cup StagesOf("EndPlay")
        BY <3>1 DEF StageAfter, StagesOf, Turns
      <4>2. Stage(StageAfter(frame.stage))
        BY <3>6 DEF EndTurns
      <4> HIDE DEF StageAfter
      <4> QED
        BY <2>0, <3>1, <4>1, <4>2, StageFields
    <3>7. CASE EngineStep /\ ~GiveTurn /\ ~EndTurns /\ ~Collect /\ ~Reclaim
               /\ ~RequestFrameCollection
      BY <3>1, <3>7 DEF EngineStep, At, BeginWorld, FailApplication, CompletePriorCollection,
         AdvanceTimers, AdvanceWorld, Barrier, ReclaimPendingDestroy, EndReclaim,
         AdvanceFrameCollection, EndTick, CancelActiveCollection, EndWorld, EndCall, Turns
    <3> QED
      BY <1>3, <3>3, <3>4, <3>5, <3>6, <3>7 DEF FrameNext, EngineStep
  <2>2. ASSUME Given(x) PROVE frame.stage \in MayFollow(lastTurn[x])
    <3>1. /\ frame.stage \in Turns /\ Occupying(frame'.at - 1) = x
      BY <2>2 DEF Given
    <3>2. lastTurn[x] = "None" \/ frame.stage \in MayFollow(lastTurn[x])
      BY <1>3, <2>1, <2>2, <3>1, GivenInTurn DEF FrameInvariant
    <3> QED
      BY <3>1, <3>2 DEF MayFollow
  <2>3. ASSUME application' \in {"Ended", "Failed"}, frame' = NoFrame
        PROVE  lastTurn[x] \in {"None", "EndPlay"}
    <3>1. ~GiveTurn
      <4>1. ASSUME GiveTurn PROVE frame'.turn
        <5>1. PICK i : frame' = [frame EXCEPT !.at = i + 1, !.turn = TRUE]
          BY <4>1 DEF GiveTurn
        <5> QED
          BY <2>0, <5>1, Zenon DEF Frames
      <4> QED
        BY <2>3, <4>1 DEF NoFrame
    <3>2. lastTurn' = lastTurn
      <4>1. CASE Compose \/ UseStore \/ ToggleWorldDispatch
        BY <4>1 DEF Compose, ConfigureNetworking, CreateMessagingSystem,
           CreateNetworkSystem, CreateWorld, compositionVars, UseStore, ToggleWorldDispatch,
           engineVars
      <4>2. CASE BeginApplication \/ BeginTick \/ EndApplication \/ TurnReturns
        BY <4>2 DEF BeginApplication, BeginTick, EndApplication, frameOnly, TurnReturns,
           SystemReturns, ConfigureReturns, BeginWorldReturns, FailedReturns, TimersReturn,
           AdvanceWorldReturns, BarrierReturns, EndWorldReturns
      <4>3. CASE EngineStep
        BY <3>1, <4>3 DEF EngineStep, EndTurns, BeginWorld, FailApplication,
           CompletePriorCollection, AdvanceTimers, AdvanceWorld, Barrier,
           ReclaimPendingDestroy, EndReclaim, RequestFrameCollection, AdvanceFrameCollection,
           EndTick, Collect, Reclaim, CancelActiveCollection, EndWorld, EndCall, frameOnly,
           engineVars
      <4> QED
        BY <1>3, <4>1, <4>2, <4>3 DEF FrameNext
    <3>3. lastTurn'[x] # "None" => lastTurn'[x] \in Latest(x)'
      BY <1>3 DEF TurnsSound
    <3>4. Latest(x)' = {"EndPlay"}
      BY <2>3 DEF Latest, TurnsBefore, NoFrame
    <3> QED
      BY <3>2, <3>3, <3>4
  <2> QED
    BY <2>2, <2>3
<1>4. FrameInvariant /\ TurnsSound /\ TurnsSound' /\ [FrameNext]_allVars =>
        [\A x \in Systems :
            /\ Given(x) => frame.stage \in MayFollow(lastTurn[x])
            /\ application' \in {"Ended", "Failed"} /\ frame' = NoFrame =>
                lastTurn[x] \in {"None", "EndPlay"}]_allVars
  BY <1>3
<1> QED
  BY <1>1, <1>2, <1>4, FrameInvariantHolds, PTL DEF FrameSpec, TurnsAlternate
=============================================================================
