---------------------------- MODULE SmartPointers ----------------------------
(***************************************************************************)
(* TSharedPtr, TWeakPtr and TUniquePtr over one arena.  The last owner of  *)
(* a value runs its destructor, which is code of the application and may   *)
(* use every pointer there is, those inside the dying value included; the  *)
(* block of the value goes back to the arena after that, or when the last  *)
(* weak pointer goes.  A value is given one strong and one weak pointer    *)
(* of its own, so that values own, observe and outlive each other.         *)
(***************************************************************************)
EXTENDS FixedArena

CONSTANTS
    StrongOwners, WeakOwners, UniqueOwners,  \* pointers that lie outside any value
    SharedSizeBytes, SharedAlignment,        \* TSharedAllocationLayout
    UniqueSizeBytes, UniqueAlignment,        \* sizeof and alignof of a unique value
    MaxReferenceCount,                       \* the limit of FReferenceCount
    NoBlock                                  \* the null ControlBlock

ASSUME PointerAssumption ==
    /\ MaxReferenceCount \in Nat \ {0}
    /\ SharedSizeBytes \in Nat \ {0} /\ UniqueSizeBytes \in Nat \ {0}
    /\ SharedAlignment \in Nat \ {0} /\ UniqueAlignment \in Nat \ {0}
    /\ NoBlock \notin Offsets /\ NoBlock \notin MemoryBlocks
    /\ (StrongOwners \cup WeakOwners) \cap Offsets = {}
    /\ IsFiniteSet(StrongOwners) /\ IsFiniteSet(WeakOwners)

VARIABLES
    strong,    \* the block each TSharedPtr refers to; those in the value of block b at b
    weak,      \* the same of each TWeakPtr
    unique,    \* the allocation each TUniquePtr owns
    control,   \* the control blocks, by the address of their allocation
    stack      \* destructors and assignments that are running, the latest first

pointerVars == <<strong, weak, unique, control, stack>>
memoryVars == <<arenaVars, pointerVars>>

StrongHandles == StrongOwners \cup Offsets
WeakHandles == WeakOwners \cup Offsets

PointerInit ==
    /\ ArenaInit
    /\ strong = [h \in StrongHandles |-> NoBlock]
    /\ weak = [h \in WeakHandles |-> NoBlock]
    /\ unique = [u \in UniqueOwners |-> NoBlock]
    /\ control = [b \in {} |-> {}]
    /\ stack = <<>>

ValueFrame(b) == [kind |-> "value", block |-> b]
AssignFrame(to, from) == [kind |-> "assign", to |-> to, from |-> from, adopts |-> strong[from]]
UniqueFrame(to, from) == [kind |-> "unique", to |-> to, from |-> from, block |-> unique[to]]

Push(frame) == stack' = <<frame>> \o stack
Pop == stack' = Tail(stack)

IsOnTop(kind) == stack # <<>> /\ stack[1].kind = kind

\* Code of the application runs: no assignment is between its Reset and its end.
InUserCode == ~IsOnTop("assign")

Frames(kind) == {i \in 1..Len(stack) : stack[i].kind = kind}

\* The pointers inside the value of block b are there until its destructor ends.
HasMembers(b) == b \in DOMAIN control /\ (control[b].hasValue \/ control[b].destroying)

\* Pointers the application may use: an object under assignment is left alone.
UsableStrong ==
    {h \in StrongHandles :
        /\ h \in StrongOwners \/ HasMembers(h)
        /\ \A i \in Frames("assign") : h # stack[i].to /\ (h = stack[i].from => h \in Offsets)}

UsableWeak == {h \in WeakHandles : h \in WeakOwners \/ HasMembers(h)}

UsableUnique ==
    {u \in UniqueOwners : \A i \in Frames("unique") : u \notin {stack[i].to, stack[i].from}}

----------------------------------------------------------------------------
(* Shared values.                                                          *)

ConstructSharedBlock(b) ==
    [strongCount |-> 1, weakCount |-> 0, hasValue |-> TRUE, destroying |-> FALSE,
     allocation |-> [Address |-> b, SizeBytes |-> SharedSizeBytes]]

\* Without room, or with an alignment the arena does not have, nothing changes.
MakeShared(h) ==
    /\ InUserCode
    /\ h \in UsableStrong /\ strong[h] = NoBlock
    /\ CanAllocate(SharedSizeBytes, SharedAlignment)
    /\ LET b == FindAlignedFreeRange(SharedSizeBytes, SharedAlignment)
       IN  /\ CommitAllocation(b, SharedSizeBytes)
           /\ control' = [a \in DOMAIN control \cup {b} |->
                            IF a = b THEN ConstructSharedBlock(b) ELSE control[a]]
           /\ strong' = [strong EXCEPT ![h] = b]
    /\ UNCHANGED <<weak, unique, stack>>

HasLiveStrongReference(b) == b # NoBlock /\ control[b].strongCount # 0
HasLiveValue(b) == HasLiveStrongReference(b) /\ control[b].hasValue

AdoptStrong(h, b) ==
    /\ h \in UsableStrong /\ strong[h] = NoBlock
    /\ control[b].strongCount # MaxReferenceCount
    /\ control' = [control EXCEPT ![b].strongCount = @ + 1]
    /\ strong' = [strong EXCEPT ![h] = b]
    /\ UNCHANGED <<weak, unique, stack, arenaVars>>

AdoptWeak(h, b) ==
    /\ h \in UsableWeak /\ weak[h] = NoBlock
    /\ control[b].weakCount # MaxReferenceCount
    /\ control' = [control EXCEPT ![b].weakCount = @ + 1]
    /\ weak' = [weak EXCEPT ![h] = b]
    /\ UNCHANGED <<strong, unique, stack, arenaVars>>

TryShare(from, to) ==
    /\ InUserCode
    /\ from \in UsableStrong /\ HasLiveStrongReference(strong[from])
    /\ AdoptStrong(to, strong[from])

TryAcquireWeak(from, to) ==
    /\ InUserCode
    /\ from \in UsableStrong /\ HasLiveStrongReference(strong[from])
    /\ AdoptWeak(to, strong[from])

TryObserve(from, to) ==
    /\ InUserCode
    /\ from \in UsableWeak /\ HasLiveValue(weak[from])
    /\ AdoptWeak(to, weak[from])

TryAcquireStrong(from, to) ==
    /\ InUserCode
    /\ from \in UsableWeak /\ HasLiveValue(weak[from])
    /\ AdoptStrong(to, weak[from])

\* The block goes back to the arena.
DestroySharedControlBlock(b) ==
    /\ Deallocate(control[b].allocation)
    /\ control' = [a \in DOMAIN control \ {b} |-> control[a]]

IsLastOwner(h) == strong[h] # NoBlock /\ control[strong[h]].strongCount = 1

\* The final strong Reset, up to the destructor; `below` is what it returns to.
DestroyValueInPlace(h, below) ==
    /\ control' = [control EXCEPT ![strong[h]].strongCount = 0,
                                  ![strong[h]].hasValue = FALSE,
                                  ![strong[h]].destroying = TRUE]
    /\ strong' = [strong EXCEPT ![h] = NoBlock]
    /\ stack' = <<ValueFrame(strong[h])>> \o below \o stack

ResetLast(h) ==
    /\ InUserCode
    /\ h \in UsableStrong /\ IsLastOwner(h)
    /\ DestroyValueInPlace(h, <<>>)
    /\ UNCHANGED <<weak, unique, arenaVars>>

\* TSharedPtr: one owner of several lets go, whether or not it adopts another value.
OneOwnerLess(h) ==
    control' = IF strong[h] = NoBlock THEN control
               ELSE [control EXCEPT ![strong[h]].strongCount = @ - 1]

Reset(h) ==
    /\ InUserCode
    /\ h \in UsableStrong /\ strong[h] # NoBlock /\ ~IsLastOwner(h)
    /\ OneOwnerLess(h)
    /\ strong' = [strong EXCEPT ![h] = NoBlock]
    /\ UNCHANGED <<weak, unique, stack, arenaVars>>

\* operator= where its Reset runs no destructor.
MoveAssign(to, from) ==
    /\ InUserCode
    /\ to \in UsableStrong /\ from \in UsableStrong /\ to # from
    /\ ~IsLastOwner(to)
    /\ OneOwnerLess(to)
    /\ strong' = [strong EXCEPT ![to] = strong[from], ![from] = NoBlock]
    /\ UNCHANGED <<weak, unique, stack, arenaVars>>

\* operator= that releases the last owner of a value: the destructor runs between
\* the Reset and the adoption.
MoveAssignOverLast(to, from) ==
    /\ InUserCode
    /\ to \in UsableStrong \cap StrongOwners /\ from \in UsableStrong /\ to # from
    /\ IsLastOwner(to)
    /\ DestroyValueInPlace(to, <<AssignFrame(to, from)>>)
    /\ UNCHANGED <<weak, unique, arenaVars>>

\* The second half of operator=.  If the source has been destroyed with the value, its
\* storage is read all the same: empty as its destructor left it, or, where that store
\* was optimised away as dead, what it referred to before.
AdoptAfterReset ==
    /\ IsOnTop("assign")
    /\ LET to == stack[1].to  from == stack[1].from
       IN  IF from \in StrongOwners \/ HasMembers(from)
           THEN strong' = [strong EXCEPT ![to] = strong[from], ![from] = NoBlock]
           ELSE \E b \in {NoBlock, stack[1].adopts} : strong' = [strong EXCEPT ![to] = b]
    /\ Pop
    /\ UNCHANGED <<weak, unique, control, arenaVars>>

\* The destructor of the value is through, its own pointers last.
DestructorReturns ==
    /\ IsOnTop("value")
    /\ LET b == stack[1].block
       IN  /\ strong[b] = NoBlock /\ weak[b] = NoBlock
           /\ IF control[b].weakCount = 0
              THEN DestroySharedControlBlock(b)
              ELSE /\ control' = [control EXCEPT ![b].destroying = FALSE]
                   /\ UNCHANGED arenaVars
    /\ Pop
    /\ UNCHANGED <<strong, weak, unique>>

\* The destructor of the value may still run in the block.
ReleasesBlockAnyway(b) == control[b].weakCount = 1 /\ control[b].strongCount = 0

\* The last weak pointer of an expired value returns the block, unless the
\* destructor still runs in it.
ReleasesBlock(b) ==
    /\ control[b].weakCount = 1 /\ control[b].strongCount = 0
    /\ ~control[b].destroying

ReleaseWeak(b) ==
    CASE b = NoBlock -> UNCHANGED <<control, arenaVars>>
      [] b # NoBlock /\ ReleasesBlock(b) -> DestroySharedControlBlock(b)
      [] OTHER -> /\ control' = [control EXCEPT ![b].weakCount = @ - 1]
                  /\ UNCHANGED arenaVars

ResetWeak(h) ==
    /\ InUserCode
    /\ h \in UsableWeak /\ weak[h] # NoBlock
    /\ ReleaseWeak(weak[h])
    /\ weak' = [weak EXCEPT ![h] = NoBlock]
    /\ UNCHANGED <<strong, unique, stack>>

MoveAssignWeak(to, from) ==
    /\ InUserCode
    /\ to \in UsableWeak /\ from \in UsableWeak /\ to # from
    /\ ReleaseWeak(weak[to])
    /\ weak' = [weak EXCEPT ![to] = weak[from], ![from] = NoBlock]
    /\ UNCHANGED <<strong, unique, stack>>

----------------------------------------------------------------------------
(* Unique values.                                                          *)

MakeUnique(u) ==
    /\ InUserCode
    /\ u \in UsableUnique /\ unique[u] = NoBlock
    /\ CanAllocate(UniqueSizeBytes, UniqueAlignment)
    /\ LET a == FindAlignedFreeRange(UniqueSizeBytes, UniqueAlignment)
       IN  /\ CommitAllocation(a, UniqueSizeBytes)
           /\ unique' = [unique EXCEPT ![u] = [Address |-> a, SizeBytes |-> UniqueSizeBytes]]
    /\ UNCHANGED <<strong, weak, control, stack>>

\* std::unique_ptr empties itself before it calls the deleter.
ResetUnique(u) ==
    /\ InUserCode
    /\ u \in UsableUnique /\ unique[u] # NoBlock
    /\ unique' = [unique EXCEPT ![u] = NoBlock]
    /\ Push(UniqueFrame(u, u))
    /\ UNCHANGED <<strong, weak, control, arenaVars>>

\* It adopts the source's value before it calls the deleter of its own.
MoveAssignUnique(to, from) ==
    /\ InUserCode
    /\ to \in UsableUnique /\ from \in UsableUnique /\ to # from
    /\ unique' = [unique EXCEPT ![to] = unique[from], ![from] = NoBlock]
    /\ IF unique[to] = NoBlock THEN UNCHANGED stack ELSE Push(UniqueFrame(to, from))
    /\ UNCHANGED <<strong, weak, control, arenaVars>>

\* FResourceDeleter, after the destructor.
DeleterReturns ==
    /\ IsOnTop("unique")
    /\ Deallocate(stack[1].block)
    /\ Pop
    /\ UNCHANGED <<strong, weak, unique, control>>

----------------------------------------------------------------------------
SharedStep ==
    \/ \E h \in StrongHandles : MakeShared(h) \/ Reset(h) \/ ResetLast(h)
    \/ \E from, to \in StrongHandles : TryShare(from, to) \/ MoveAssign(to, from)
    \/ \E from, to \in StrongOwners : MoveAssignOverLast(to, from)
    \/ AdoptAfterReset \/ DestructorReturns

WeakStep ==
    \/ \E h \in WeakHandles : ResetWeak(h)
    \/ \E from, to \in WeakHandles : TryObserve(from, to) \/ MoveAssignWeak(to, from)
    \/ \E from \in StrongHandles, to \in WeakHandles : TryAcquireWeak(from, to)
    \/ \E from \in WeakHandles, to \in StrongHandles : TryAcquireStrong(from, to)

UniqueStep ==
    \/ \E u \in UniqueOwners : MakeUnique(u) \/ ResetUnique(u)
    \/ \E from, to \in UniqueOwners : MoveAssignUnique(to, from)
    \/ DeleterReturns

PointerNext == SharedStep \/ WeakStep \/ UniqueStep

\* A program that also assigns from inside the value it releases, as the head of a
\* list that drops its first node does: Head = std::move(Head.Get()->Next).
PopsLists ==
    \E to \in StrongOwners :
        /\ strong[to] # NoBlock /\ strong[strong[to]] # NoBlock
        /\ MoveAssignOverLast(to, strong[to])

ListSpec == PointerInit /\ [][PointerNext \/ PopsLists]_memoryVars
----------------------------------------------------------------------------
(* Properties.                                                             *)

CountsExact(b) ==
    /\ control[b].strongCount = Cardinality({h \in StrongHandles : strong[h] = b})
    /\ control[b].weakCount = Cardinality({h \in WeakHandles : weak[h] = b})

\* Every pointer refers to a block that is there, the counts are exact, a value lives
\* as long as it is owned and its block until its destructor has ended and nobody
\* observes it, whatever destructors do to the pointers meanwhile; no pointer inside
\* a value outlives it (SharedPtr.h:129-201, WeakPtr.h:113-130).
BlocksSound ==
    /\ \A h \in StrongHandles : strong[h] # NoBlock => strong[h] \in DOMAIN control
    /\ \A h \in WeakHandles : weak[h] # NoBlock => weak[h] \in DOMAIN control
    /\ \A b \in Offsets : ~HasMembers(b) => strong[b] = NoBlock /\ weak[b] = NoBlock
    /\ \A b \in DOMAIN control :
        /\ CountsExact(b)
        /\ control[b].hasValue <=> control[b].strongCount # 0
        /\ control[b].destroying <=> \E i \in Frames("value") : stack[i].block = b
        /\ control[b].destroying => ~control[b].hasValue
        /\ control[b].hasValue \/ control[b].destroying \/ control[b].weakCount # 0
    /\ \A i, j \in Frames("value") : stack[i].block = stack[j].block => i = j

\* The allocations somebody will give back.
Outstanding ==
    {control[b].allocation : b \in DOMAIN control}
        \cup {unique[u] : u \in {v \in UniqueOwners : unique[v] # NoBlock}}
        \cup {stack[i].block : i \in Frames("unique")}

\* The scan finds the first range that fits, if there is one.
ScanFindsFirstFit ==
    \A size \in 1..StorageCapacityBytes, alignment \in {SharedAlignment, UniqueAlignment} :
        LET scan == ScanForRange(size, alignment)
            ranges == FreeRanges(size, alignment)
        IN  /\ scan.found <=> ranges # {}
            /\ scan.found => scan.start = Min(ranges)

\* The bit sets of the arena describe the outstanding allocations and nothing else:
\* none is lost, none overlaps another, Deallocate would accept just them, and the
\* scan of the bits misses no room, however the storage is cut up
\* (FixedArena.h:88-132, 165-294).
ArenaSound ==
    /\ ScanFindsFirstFit
    /\ \A x, y \in Outstanding : x = y \/ Bytes(x) \cap Bytes(y) = {}
    /\ \A x \in Outstanding : Bytes(x) \subseteq Offsets
    /\ allocationStartMarkers = {x.Address : x \in Outstanding}
    /\ allocationEndMarkers = {LastByte(x) : x \in Outstanding}
    /\ usedSizeBytes = Cardinality(UNION {Bytes(x) : x \in Outstanding})
    /\ \A x \in [Address : Offsets, SizeBytes : 0..StorageCapacityBytes] :
        IsExactAllocation(x) <=> x \in Outstanding

\* "Release any current owner, then adopt the source handle and leave the source
\* empty" (SharedPtr.h:77): the value to be adopted is still there when operator= comes
\* to adopt it.
AssignedValueSurvives ==
    IsOnTop("assign") /\ stack[1].adopts # NoBlock
        => stack[1].adopts \in DOMAIN control /\ control[stack[1].adopts].hasValue
=============================================================================
