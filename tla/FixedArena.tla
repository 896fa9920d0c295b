----------------------------- MODULE FixedArena -----------------------------
(***************************************************************************)
(* TFixedArena: storage of a fixed size, cut into ranges that are known by *)
(* two bit sets only, the first and the last byte of each.  Nothing in the *)
(* arena says whom a range belongs to: Deallocate accepts what its bits    *)
(* make look like one active range.                                        *)
(***************************************************************************)
EXTENDS Naturals, FiniteSets, FiniteSetsExt, SequencesExt

CONSTANTS StorageCapacityBytes, GuaranteedAlignmentBytes

ASSUME ArenaAssumption ==
    /\ StorageCapacityBytes \in Nat \ {0}
    /\ \E k \in 0..GuaranteedAlignmentBytes : GuaranteedAlignmentBytes = 2^k

VARIABLES allocationStartMarkers, allocationEndMarkers, usedSizeBytes

arenaVars == <<allocationStartMarkers, allocationEndMarkers, usedSizeBytes>>

Offsets == 0..(StorageCapacityBytes - 1)

\* An FMemoryBlock, its address given from the start of the storage.
MemoryBlocks == [Address : Nat, SizeBytes : Nat]

LastByte(block) == block.Address + block.SizeBytes - 1

Bytes(block) == block.Address..LastByte(block)

ArenaInit ==
    /\ allocationStartMarkers = {}
    /\ allocationEndMarkers = {}
    /\ usedSizeBytes = 0

\* What bInsideAllocation of the scan says of a byte.
IsInsideAllocation(offset) ==
    \E start \in allocationStartMarkers :
        /\ start <= offset
        /\ \A end \in allocationEndMarkers : end < start \/ end >= offset

IsSupportedAlignment(alignment) ==
    /\ alignment <= GuaranteedAlignmentBytes
    /\ \E k \in 0..alignment : alignment = 2^k

FitsFreeCapacity(size) == size # 0 /\ size <= StorageCapacityBytes - usedSizeBytes

\* The aligned free ranges of that size; the scan from the front takes the first.
FreeRanges(size, alignment) ==
    {start \in Offsets :
        /\ start % alignment = 0
        /\ start + size <= StorageCapacityBytes
        /\ \A offset \in start..(start + size - 1) : ~IsInsideAllocation(offset)}

CanAllocate(size, alignment) ==
    /\ IsSupportedAlignment(alignment)
    /\ FitsFreeCapacity(size)
    /\ FreeRanges(size, alignment) # {}

FindAlignedFreeRange(size, alignment) == Min(FreeRanges(size, alignment))

\* One byte of the scan, which carries the range it is in until one is long enough.
ScanByte(size, alignment, scan, offset) ==
    LET inside == scan.inside \/ offset \in allocationStartMarkers
        start == IF ~inside /\ scan.size = 0 THEN offset ELSE scan.start
        length == CASE inside -> 0
                    [] ~inside /\ scan.size > 0 -> scan.size + 1
                    [] OTHER -> IF offset % alignment = 0 THEN 1 ELSE 0
    IN  IF scan.found THEN scan
        ELSE [inside |-> inside /\ offset \notin allocationEndMarkers,
              start |-> start, size |-> length, found |-> length = size]

ScanStart == [inside |-> FALSE, start |-> 0, size |-> 0, found |-> FALSE]

\* The scan of the storage from its first byte to its last.
ScanForRange(size, alignment) ==
    LET scan[scanned \in 0..StorageCapacityBytes] ==
            IF scanned = 0 THEN ScanStart
            ELSE ScanByte(size, alignment, scan[scanned - 1], scanned - 1)
    IN  scan[StorageCapacityBytes]

CommitAllocation(start, size) ==
    /\ allocationStartMarkers' = allocationStartMarkers \cup {start}
    /\ allocationEndMarkers' = allocationEndMarkers \cup {start + size - 1}
    /\ usedSizeBytes' = usedSizeBytes + size

\* A boundary of a neighbour inside the block goes unnoticed.
HasBothEnds(block) ==
    /\ block.SizeBytes # 0
    /\ block.Address \in allocationStartMarkers
    /\ LastByte(block) \in allocationEndMarkers

\* Deallocate takes the block for one of its own: it starts and ends where an
\* allocation does, and no other boundary lies between.
IsExactAllocation(block) ==
    /\ block.SizeBytes # 0
    /\ block.Address \in Offsets
    /\ block.SizeBytes <= StorageCapacityBytes - block.Address
    /\ Bytes(block) \cap allocationStartMarkers = {block.Address}
    /\ Bytes(block) \cap allocationEndMarkers = {LastByte(block)}
    /\ usedSizeBytes >= block.SizeBytes

\* Callers of Deallocate ignore its result: what is refused stays allocated.
Deallocate(block) ==
    IF IsExactAllocation(block)
    THEN /\ allocationStartMarkers' = allocationStartMarkers \ {block.Address}
         /\ allocationEndMarkers' = allocationEndMarkers \ {LastByte(block)}
         /\ usedSizeBytes' = usedSizeBytes - block.SizeBytes
    ELSE UNCHANGED arenaVars
=============================================================================
