------------------------ MODULE FixedStorage_proofs ------------------------
(***************************************************************************)
(* Proofs about pointers and their arena, for every size of the storage    *)
(* and of the values, every limit of the counts and any finite number of   *)
(* pointers, whatever destructors do; and about the registry of classes,   *)
(* for every number of classes, types and ids.                             *)
(***************************************************************************)
EXTENDS FixedStorage, TableLemmas, SequenceTheorems

-----------------------------------------------------------------------------
(* The arena: its marks describe the blocks that are owned.                *)

ArenaHolds(owned) ==
    /\ \A x \in owned : x \in MemoryBlocks /\ x.SizeBytes # 0 /\ Bytes(x) \subseteq Offsets
    /\ \A x, y \in owned : x = y \/ Bytes(x) \cap Bytes(y) = {}
    /\ allocationStartMarkers = {x.Address : x \in owned}
    /\ allocationEndMarkers = {LastByte(x) : x \in owned}
    /\ usedSizeBytes = Cardinality(UNION {Bytes(x) : x \in owned})

LEMMA BlockIs ==
    ASSUME NEW x \in MemoryBlocks
    PROVE  /\ x.Address \in Nat /\ x.SizeBytes \in Nat
           /\ LastByte(x) \in Int
           /\ x = [Address |-> x.Address, SizeBytes |-> x.SizeBytes]
           /\ x.SizeBytes # 0 => x.Address \in Bytes(x) /\ LastByte(x) \in Bytes(x)
           /\ \A k \in Int : k \in Bytes(x) <=> x.Address <= k /\ k <= LastByte(x)
           /\ IsFiniteSet(Bytes(x)) /\ Cardinality(Bytes(x)) = x.SizeBytes
           /\ Bytes(x) \subseteq Nat
<1>1. x.Address \in Nat /\ x.SizeBytes \in Nat
      /\ x = [Address |-> x.Address, SizeBytes |-> x.SizeBytes]
  BY DEF MemoryBlocks
<1>2. IsFiniteSet(Bytes(x)) /\ Cardinality(Bytes(x)) = x.SizeBytes
  <2>1. x.Address \in Int /\ LastByte(x) \in Int
    BY <1>1 DEF LastByte
  <2> QED
    BY <1>1, <2>1, FS_Interval DEF Bytes, LastByte
<1> QED
  BY <1>1, <1>2 DEF Bytes, LastByte

\* A byte of an owned block is inside an allocation for the scan.
LEMMA OwnedIsInside ==
    ASSUME NEW owned, ArenaHolds(owned), NEW y \in owned, NEW k \in Bytes(y)
    PROVE  IsInsideAllocation(k)
<1>1. y \in MemoryBlocks /\ k \in Nat /\ y.Address <= k /\ k <= LastByte(y)
      /\ y.Address \in allocationStartMarkers
  BY BlockIs DEF ArenaHolds
<1>2. ASSUME NEW end \in allocationEndMarkers PROVE end < y.Address \/ end >= k
  <2>1. PICK z \in owned : end = LastByte(z)
    BY <1>2 DEF ArenaHolds
  <2>2. z \in MemoryBlocks /\ LastByte(z) \in Bytes(z) /\ LastByte(z) \in Int
    BY BlockIs DEF ArenaHolds
  <2>3. CASE z = y
    BY <1>1, <2>1, <2>2, <2>3
  <2>4. CASE z # y
    <3>1. LastByte(z) \notin Bytes(y)
      BY <2>2, <2>4 DEF ArenaHolds
    <3> QED
      BY <1>1, <2>1, <2>2, <3>1, BlockIs
  <2> QED
    BY <2>3, <2>4
<1> QED
  BY <1>1, <1>2 DEF IsInsideAllocation

LEMMA OwnedBytesAreFinite ==
    ASSUME NEW owned, ArenaHolds(owned)
    PROVE  LET bytes == UNION {Bytes(x) : x \in owned}
           IN  bytes \subseteq Offsets /\ IsFiniteSet(bytes)
<1>1. IsFiniteSet(Offsets)
  BY FS_Interval, ArenaAssumption DEF Offsets
<1>2. UNION {Bytes(x) : x \in owned} \subseteq Offsets
  BY DEF ArenaHolds
<1> QED
  BY <1>1, <1>2, FS_Subset

\* An allocation adds a block that shares no byte with another.
LEMMA AllocationAdds ==
    ASSUME NEW owned, ArenaHolds(owned), NEW size \in Nat \ {0}, NEW alignment,
           CanAllocate(size, alignment),
           CommitAllocation(FindAlignedFreeRange(size, alignment), size)
    PROVE  \E a \in Offsets :
               /\ a = FindAlignedFreeRange(size, alignment)
               /\ [Address |-> a, SizeBytes |-> size] \in MemoryBlocks
               /\ ArenaHolds(owned \cup {[Address |-> a, SizeBytes |-> size]})'
               /\ \A y \in owned : y.Address # a
<1>0. PICK a : a = FindAlignedFreeRange(size, alignment)
  OBVIOUS
<1> DEFINE x == [Address |-> a, SizeBytes |-> size]
           all == owned \cup {x}
<1>1. a \in FreeRanges(size, alignment)
  <2>1. FreeRanges(size, alignment) \in SUBSET Nat /\ IsFiniteSet(FreeRanges(size, alignment))
    <3>1. IsFiniteSet(Offsets) /\ Offsets \subseteq Nat
      BY FS_Interval, ArenaAssumption DEF Offsets
    <3>2. FreeRanges(size, alignment) \in SUBSET Offsets
      BY DEF FreeRanges
    <3> QED
      BY <3>1, <3>2, FS_Subset
  <2> QED
    BY <1>0, <2>1, MinIsLeast DEF CanAllocate, FindAlignedFreeRange
<1>2. /\ a \in Offsets /\ a \in Nat /\ a + size <= StorageCapacityBytes
      /\ \A k \in a..(a + size - 1) : ~IsInsideAllocation(k)
  BY <1>1, ArenaAssumption DEF FreeRanges, Offsets
<1>3. x \in MemoryBlocks /\ x.Address = a /\ x.SizeBytes = size /\ LastByte(x) = a + size - 1
      /\ Bytes(x) = a..(a + size - 1)
  BY <1>2 DEF MemoryBlocks, LastByte, Bytes
<1>4. Bytes(x) \subseteq Offsets /\ x.Address \in Bytes(x)
  BY <1>2, <1>3, ArenaAssumption DEF Offsets
<1>5. ASSUME NEW y \in owned PROVE Bytes(y) \cap Bytes(x) = {}
  BY <1>2, <1>3, OwnedIsInside
<1>6. \A y \in owned : y.Address # x.Address
  <2> TAKE y \in owned
  <2>1. y \in MemoryBlocks /\ y.SizeBytes # 0
    BY DEF ArenaHolds
  <2>2. y.Address \in Bytes(y)
    BY <2>1, BlockIs
  <2> QED
    BY <1>4, <1>5, <2>2
<1> HIDE DEF x
<1>7. \A y, z \in all : y = z \/ Bytes(y) \cap Bytes(z) = {}
  BY <1>5 DEF ArenaHolds
<1>8. /\ allocationStartMarkers' = {y.Address : y \in all}
      /\ allocationEndMarkers' = {LastByte(y) : y \in all}
  BY <1>0, <1>3 DEF ArenaHolds, CommitAllocation
<1>9. usedSizeBytes' = Cardinality(UNION {Bytes(y) : y \in all})
  <2> DEFINE old == UNION {Bytes(y) : y \in owned}
  <2>1. old \subseteq Offsets /\ IsFiniteSet(old) /\ Cardinality(old) \in Nat
    BY OwnedBytesAreFinite, FS_CardinalityType
  <2>2. UNION {Bytes(y) : y \in all} = old \cup Bytes(x) /\ old \cap Bytes(x) = {}
    BY <1>5
  <2>3. IsFiniteSet(Bytes(x)) /\ Cardinality(Bytes(x)) = size
    BY <1>3, BlockIs
  <2>4. Cardinality(old \cup Bytes(x)) = Cardinality(old) + size
    <3> DEFINE new == Bytes(x)
    <3>1. IsFiniteSet(new) /\ Cardinality(new) = size /\ old \cap new = {}
      BY <2>2, <2>3
    <3> HIDE DEF old, new
    <3>2. Cardinality(old \cup new) = Cardinality(old) + Cardinality(new) - Cardinality(old \cap new)
      BY <2>1, <3>1, FS_Union
    <3>3. Cardinality(old \cap new) = 0
      BY <3>1, FS_EmptySet
    <3>4. Cardinality(old \cup new) = Cardinality(old) + size
      BY <2>1, <3>1, <3>2, <3>3
    <3> QED
      BY <3>4 DEF new
  <2>5. usedSizeBytes = Cardinality(old) /\ usedSizeBytes' = usedSizeBytes + size
    BY DEF ArenaHolds, CommitAllocation
  <2> HIDE DEF old
  <2> QED
    BY <2>2, <2>4, <2>5
<1>10. \A y \in all : y \in MemoryBlocks /\ y.SizeBytes # 0 /\ Bytes(y) \subseteq Offsets
  BY <1>3, <1>4 DEF ArenaHolds
<1> HIDE DEF all
<1>11. ArenaHolds(all)'
  BY <1>7, <1>8, <1>9, <1>10 DEF ArenaHolds, MemoryBlocks, LastByte, Bytes, Offsets
<1> QED
  BY <1>0, <1>2, <1>3, <1>6, <1>11 DEF all, x

\* Deallocate accepts the blocks that are owned, and no others.
LEMMA ExactIsOwned ==
    ASSUME NEW owned, ArenaHolds(owned), NEW x \in MemoryBlocks
    PROVE  IsExactAllocation(x) <=> x \in owned
<1> DEFINE starts == {y.Address : y \in owned}
           ends == {LastByte(y) : y \in owned}
<1>0. starts = allocationStartMarkers /\ ends = allocationEndMarkers
  BY DEF ArenaHolds
<1>1. \A y \in owned : /\ y \in MemoryBlocks /\ y.SizeBytes # 0 /\ y.SizeBytes \in Nat
                       /\ y.Address \in Bytes(y) /\ LastByte(y) \in Bytes(y)
                       /\ y.Address \in Nat /\ LastByte(y) \in Int
  BY BlockIs DEF ArenaHolds
<1>2. ASSUME x \in owned PROVE IsExactAllocation(x)
  <2>1. x.SizeBytes # 0 /\ x.SizeBytes \in Nat /\ x.Address \in Bytes(x) /\ LastByte(x) \in Bytes(x)
    BY <1>1, <1>2
  <2>2. Bytes(x) \cap starts = {x.Address}
    BY <1>1, <1>2 DEF ArenaHolds
  <2>3. Bytes(x) \cap ends = {LastByte(x)}
    BY <1>1, <1>2 DEF ArenaHolds
  <2>4. x.Address \in Offsets /\ x.SizeBytes <= StorageCapacityBytes - x.Address
    <3>1. x.Address \in Offsets /\ LastByte(x) \in Offsets
      BY <1>2, <2>1 DEF ArenaHolds
    <3> QED
      BY <2>1, <3>1, ArenaAssumption DEF Offsets, LastByte
  <2>5. usedSizeBytes >= x.SizeBytes
    <3> DEFINE all == UNION {Bytes(y) : y \in owned}
    <3>1. IsFiniteSet(all) /\ Bytes(x) \in SUBSET all
      BY <1>2, OwnedBytesAreFinite
    <3>2. Cardinality(Bytes(x)) = x.SizeBytes /\ usedSizeBytes = Cardinality(all)
      BY BlockIs DEF ArenaHolds
    <3> HIDE DEF all
    <3> QED
      BY <2>1, <3>1, <3>2, FS_Subset, FS_CardinalityType
  <2> HIDE DEF starts, ends
  <2> QED
    BY <1>0, <2>1, <2>2, <2>3, <2>4, <2>5 DEF IsExactAllocation
<1>3. ASSUME IsExactAllocation(x) PROVE x \in owned
  <2>1. PICK y \in owned, z \in owned : y.Address = x.Address /\ LastByte(z) = LastByte(x)
    <3>1. x.Address \in starts /\ LastByte(x) \in ends
      BY <1>0, <1>3 DEF IsExactAllocation
    <3> QED
      BY <3>1
  <2>2. /\ x.SizeBytes # 0 /\ x.SizeBytes \in Nat /\ x.Address \in Nat /\ LastByte(x) \in Int
        /\ \A k \in Int : k \in Bytes(x) <=> x.Address <= k /\ k <= LastByte(x)
        /\ LastByte(x) = x.Address + x.SizeBytes - 1
    BY <1>3, BlockIs DEF IsExactAllocation, LastByte
  <2>3. /\ \A k \in Int : k \in Bytes(y) <=> y.Address <= k /\ k <= LastByte(y)
        /\ LastByte(y) = y.Address + y.SizeBytes - 1
        /\ y.SizeBytes \in Nat /\ LastByte(y) \in Int /\ LastByte(y) \in Bytes(y)
    BY <1>1, BlockIs DEF LastByte
  <2>4. CASE LastByte(y) <= LastByte(x)
    <3>1. LastByte(y) \in Bytes(x) \cap ends
      BY <2>1, <2>2, <2>3, <2>4
    <3>2. LastByte(y) = LastByte(x)
      BY <1>0, <1>3, <3>1 DEF IsExactAllocation
    <3>3. y.SizeBytes = x.SizeBytes
      BY <2>1, <2>2, <2>3, <3>2
    <3>4. y = x
      BY <1>1, <2>1, <3>3, BlockIs
    <3> QED
      BY <3>4
  <2>5. CASE LastByte(y) > LastByte(x)
    <3>1. LastByte(z) \in Bytes(y) /\ LastByte(z) \in Bytes(z)
      BY <1>1, <2>1, <2>2, <2>3, <2>5
    <3>2. y = z
      BY <3>1 DEF ArenaHolds
    <3> QED
      BY <2>1, <2>2, <2>3, <2>5, <3>2
  <2>6. LastByte(y) <= LastByte(x) \/ LastByte(y) > LastByte(x)
    <3>1. LastByte(y) \in Int /\ LastByte(x) \in Int
      BY <2>2, <2>3
    <3> QED
      BY <3>1
  <2> QED
    BY <2>4, <2>5, <2>6
<1> QED
  BY <1>2, <1>3

\* What is given back is taken off the marks, and nothing else is.
LEMMA DeallocationTakes ==
    ASSUME NEW owned, ArenaHolds(owned), NEW x \in owned, Deallocate(x)
    PROVE  ArenaHolds(owned \ {x})'
<1> DEFINE rest == owned \ {x}
<1>1. x \in MemoryBlocks /\ IsExactAllocation(x)
  BY ExactIsOwned DEF ArenaHolds
<1>2. /\ allocationStartMarkers' = allocationStartMarkers \ {x.Address}
      /\ allocationEndMarkers' = allocationEndMarkers \ {LastByte(x)}
      /\ usedSizeBytes' = usedSizeBytes - x.SizeBytes
  BY <1>1 DEF Deallocate
<1>3. \A y \in owned : /\ y \in MemoryBlocks /\ y.Address \in Bytes(y) /\ LastByte(y) \in Bytes(y)
  BY BlockIs DEF ArenaHolds
<1>4. \A y \in rest : Bytes(y) \cap Bytes(x) = {}
  BY DEF ArenaHolds
<1>5. \A y \in rest : y.Address # x.Address /\ LastByte(y) # LastByte(x)
  BY <1>3, <1>4
<1>6. /\ allocationStartMarkers' = {y.Address : y \in rest}
      /\ allocationEndMarkers' = {LastByte(y) : y \in rest}
  BY <1>2, <1>5 DEF ArenaHolds
<1>7. usedSizeBytes' = Cardinality(UNION {Bytes(y) : y \in rest})
  <2> DEFINE all == UNION {Bytes(y) : y \in owned}
             left == UNION {Bytes(y) : y \in rest}
  <2>1. IsFiniteSet(all) /\ left = all \ Bytes(x) /\ all \cap Bytes(x) = Bytes(x)
    BY <1>4, OwnedBytesAreFinite
  <2>2. Cardinality(Bytes(x)) = x.SizeBytes /\ usedSizeBytes = Cardinality(all)
    BY <1>1, BlockIs DEF ArenaHolds
  <2>3. Cardinality(left) = Cardinality(all) - x.SizeBytes
    <3> DEFINE gone == Bytes(x)
    <3>1. left = all \ gone /\ all \cap gone = gone /\ Cardinality(gone) = x.SizeBytes
      BY <2>1, <2>2
    <3>2. IsFiniteSet(all)
      BY <2>1
    <3> HIDE DEF gone, all, left
    <3>3. Cardinality(all \ gone) = Cardinality(all) - Cardinality(all \cap gone)
      BY <3>2, FS_Difference
    <3> QED
      BY <3>1, <3>3
  <2> HIDE DEF all, left
  <2> QED
    BY <1>2, <2>2, <2>3 DEF left
<1>8. /\ \A y \in rest : y \in MemoryBlocks /\ y.SizeBytes # 0 /\ Bytes(y) \subseteq Offsets
      /\ \A y, z \in rest : y = z \/ Bytes(y) \cap Bytes(z) = {}
  BY DEF ArenaHolds
<1> HIDE DEF rest
<1>9. ArenaHolds(rest)'
  BY <1>6, <1>7, <1>8 DEF ArenaHolds, MemoryBlocks, LastByte, Bytes, Offsets
<1> QED
  BY <1>9 DEF rest

-----------------------------------------------------------------------------
(* Pointers.                                                               *)

Targets == Offsets \cup {NoBlock}
Pointers(S) == [S -> Targets]
Holders(S, f, b) == {h \in S : f[h] = b}

\* A pointer is set; and one is moved to another, which leaves it empty.
IsSet(g, f, h, c) == g = [f EXCEPT ![h] = c]
IsMoved(g, f, to, from) == g = [f EXCEPT ![to] = f[from], ![from] = NoBlock]

\* One pointer is set to another block: one holder more there, one fewer where it was.
LEMMA OnePointerMoves ==
    ASSUME NEW S, IsFiniteSet(S), NEW f \in Pointers(S), NEW h \in S, NEW c \in Targets,
           NEW g, IsSet(g, f, h, c), NEW b
    PROVE  /\ Cardinality(Holders(S, f, b)) \in Nat /\ Cardinality(Holders(S, g, b)) \in Nat
           /\ c = f[h] => Cardinality(Holders(S, g, b)) = Cardinality(Holders(S, f, b))
           /\ c # f[h] /\ b = c =>
                 Cardinality(Holders(S, g, b)) = Cardinality(Holders(S, f, b)) + 1
           /\ c # f[h] /\ b = f[h] =>
                 Cardinality(Holders(S, g, b)) = Cardinality(Holders(S, f, b)) - 1
           /\ b # c /\ b # f[h] =>
                 Cardinality(Holders(S, g, b)) = Cardinality(Holders(S, f, b))
<1> DEFINE A == Holders(S, f, b)
           B == Holders(S, g, b)
<1>1. A \in SUBSET S /\ B \in SUBSET S
  BY DEF Holders
<1>2. IsFiniteSet(A) /\ IsFiniteSet(B)
  BY <1>1, FS_Subset
<1>3. /\ c = f[h] => B = A
      /\ c # f[h] /\ b = c => B = A \cup {h} /\ h \notin A
      /\ c # f[h] /\ b = f[h] => B = A \ {h} /\ h \in A
      /\ b # c /\ b # f[h] => B = A
  BY DEF Holders, IsSet, Pointers
<1> HIDE DEF A, B
<1>4. /\ Cardinality(A) \in Nat /\ Cardinality(B) \in Nat
      /\ h \notin A => Cardinality(A \cup {h}) = Cardinality(A) + 1
      /\ h \in A => Cardinality(A \ {h}) = Cardinality(A) - 1
  BY <1>2, FS_CardinalityType, FS_AddElement, FS_RemoveElement
<1>5. /\ Cardinality(A) \in Nat /\ Cardinality(B) \in Nat
      /\ c = f[h] => Cardinality(B) = Cardinality(A)
      /\ c # f[h] /\ b = c => Cardinality(B) = Cardinality(A) + 1
      /\ c # f[h] /\ b = f[h] => Cardinality(B) = Cardinality(A) - 1
      /\ b # c /\ b # f[h] => Cardinality(B) = Cardinality(A)
  BY <1>3, <1>4
<1> QED
  BY <1>5 DEF A, B

\* Nobody holds a block that is counted as free, somebody one that is not.
LEMMA NoHolders ==
    ASSUME NEW S, IsFiniteSet(S), NEW f, NEW b
    PROVE  Cardinality(Holders(S, f, b)) = 0 <=> \A h \in S : f[h] # b
<1>1. Holders(S, f, b) \in SUBSET S
  BY DEF Holders
<1>2. IsFiniteSet(Holders(S, f, b))
  BY <1>1, FS_Subset
<1>3. Cardinality(Holders(S, f, b)) = 0 <=> Holders(S, f, b) = {}
  BY <1>2, FS_EmptySet
<1> QED
  BY <1>3 DEF Holders


\* What three kinds of assignment do to the holders of a block.
LEMMA PointerIsSet ==
    ASSUME NEW S, IsFiniteSet(S), NEW f \in Pointers(S), NEW h \in S, NEW c \in Targets,
           f[h] = NoBlock, c # NoBlock, NEW b, b # NoBlock,
           NEW g, IsSet(g, f, h, c)
    PROVE  Cardinality(Holders(S, g, b))
                = Cardinality(Holders(S, f, b)) + (IF b = c THEN 1 ELSE 0)
<1>1. /\ Cardinality(Holders(S, f, b)) \in Nat /\ Cardinality(Holders(S, g, b)) \in Nat
      /\ c = f[h] => Cardinality(Holders(S, g, b)) = Cardinality(Holders(S, f, b))
      /\ c # f[h] /\ b = c =>
            Cardinality(Holders(S, g, b)) = Cardinality(Holders(S, f, b)) + 1
      /\ c # f[h] /\ b = f[h] =>
            Cardinality(Holders(S, g, b)) = Cardinality(Holders(S, f, b)) - 1
      /\ b # c /\ b # f[h] =>
            Cardinality(Holders(S, g, b)) = Cardinality(Holders(S, f, b))
  BY OnePointerMoves
<1> QED
  BY <1>1

LEMMA PointerIsReset ==
    ASSUME NEW S, IsFiniteSet(S), NEW f \in Pointers(S), NEW h \in S,
           NEW b, b # NoBlock,
           NEW g, IsSet(g, f, h, NoBlock)
    PROVE  Cardinality(Holders(S, g, b))
                = Cardinality(Holders(S, f, b)) - (IF b = f[h] THEN 1 ELSE 0)
<1>0. NoBlock \in Targets
  BY DEF Targets
<1>1. /\ Cardinality(Holders(S, f, b)) \in Nat /\ Cardinality(Holders(S, g, b)) \in Nat
      /\ NoBlock = f[h] => Cardinality(Holders(S, g, b)) = Cardinality(Holders(S, f, b))
      /\ NoBlock # f[h] /\ b = NoBlock =>
            Cardinality(Holders(S, g, b)) = Cardinality(Holders(S, f, b)) + 1
      /\ NoBlock # f[h] /\ b = f[h] =>
            Cardinality(Holders(S, g, b)) = Cardinality(Holders(S, f, b)) - 1
      /\ b # NoBlock /\ b # f[h] =>
            Cardinality(Holders(S, g, b)) = Cardinality(Holders(S, f, b))
  BY <1>0, OnePointerMoves
<1> QED
  BY <1>1

LEMMA PointerIsMoved ==
    ASSUME NEW S, IsFiniteSet(S), NEW f \in Pointers(S), NEW to \in S, NEW from \in S,
           to # from, NEW b, b # NoBlock,
           NEW k, IsMoved(k, f, to, from)
    PROVE  Cardinality(Holders(S, k, b))
                = Cardinality(Holders(S, f, b)) - (IF b = f[to] THEN 1 ELSE 0)
<1>1. PICK g : IsSet(g, f, to, f[from])
  BY DEF IsSet
<1>2. /\ g \in Pointers(S) /\ g[from] = f[from] /\ f[from] \in Targets
      /\ IsSet(k, g, from, NoBlock)
  BY <1>1 DEF IsSet, IsMoved, Pointers
<1>3. /\ Cardinality(Holders(S, f, b)) \in Nat /\ Cardinality(Holders(S, g, b)) \in Nat
      /\ f[from] = f[to] => Cardinality(Holders(S, g, b)) = Cardinality(Holders(S, f, b))
      /\ f[from] # f[to] /\ b = f[from] =>
            Cardinality(Holders(S, g, b)) = Cardinality(Holders(S, f, b)) + 1
      /\ f[from] # f[to] /\ b = f[to] =>
            Cardinality(Holders(S, g, b)) = Cardinality(Holders(S, f, b)) - 1
      /\ b # f[from] /\ b # f[to] =>
            Cardinality(Holders(S, g, b)) = Cardinality(Holders(S, f, b))
  BY <1>1, <1>2, OnePointerMoves
<1>4. Cardinality(Holders(S, k, b))
         = Cardinality(Holders(S, g, b)) - (IF b = g[from] THEN 1 ELSE 0)
  BY <1>2, PointerIsReset
<1> QED
  BY <1>2, <1>3, <1>4

-----------------------------------------------------------------------------
(* The invariant of the pointers.                                          *)

SharedBlocks ==
    [strongCount : Nat, weakCount : Nat, hasValue : BOOLEAN, destroying : BOOLEAN,
     allocation : MemoryBlocks]
ValueFrames == [kind : {"value"}, block : Offsets]
AssignFrames ==
    [kind : {"assign"}, to : StrongOwners, from : StrongOwners, adopts : Offsets \cup {NoBlock}]
UniqueFrames == [kind : {"unique"}, to : UniqueOwners, from : UniqueOwners, block : MemoryBlocks]
StackFrames == ValueFrames \cup AssignFrames \cup UniqueFrames

MemoryTypeOK ==
    /\ strong \in Pointers(StrongHandles)
    /\ weak \in Pointers(WeakHandles)
    /\ unique \in [UniqueOwners -> MemoryBlocks \cup {NoBlock}]
    /\ DOMAIN control \subseteq Offsets
    /\ control \in [DOMAIN control -> SharedBlocks]
    /\ stack \in Seq(StackFrames)

\* A destructor runs in a block that is there; an assignment under way has emptied its
\* target, and no two have a pointer in common.
FramesSound ==
    /\ \A i \in Frames("value") : stack[i].block \in DOMAIN control
    /\ \A i \in Frames("assign") : strong[stack[i].to] = NoBlock /\ stack[i].to # stack[i].from
    /\ \A i, j \in Frames("assign") : i # j =>
          {stack[i].to, stack[i].from} \cap {stack[j].to, stack[j].from} = {}

PointersSound == MemoryTypeOK /\ BlocksSound /\ FramesSound

\* Whoever will give back an allocation is the only one who will: the control block it
\* is for, the pointer that owns it or the deleter that was given it.
SharedAllocations == {control[b].allocation : b \in DOMAIN control}
UniqueAllocations == {unique[u] : u \in {v \in UniqueOwners : unique[v] # NoBlock}}
DyingAllocations == {stack[i].block : i \in Frames("unique")}

UniqueDiffer == \A u, v \in UniqueOwners : unique[u] # NoBlock /\ unique[u] = unique[v] => u = v
DyingDiffer == \A i, j \in Frames("unique") : stack[i].block = stack[j].block => i = j

OwnersApart ==
    /\ \A b \in DOMAIN control :
          control[b].allocation = [Address |-> b, SizeBytes |-> SharedSizeBytes]
    /\ UniqueDiffer /\ DyingDiffer
    /\ SharedAllocations \cap UniqueAllocations = {}
    /\ SharedAllocations \cap DyingAllocations = {}
    /\ UniqueAllocations \cap DyingAllocations = {}

MemoryInvariant == PointersSound /\ OwnersApart /\ ArenaHolds(Outstanding)

-----------------------------------------------------------------------------
(* The stack: d frames come on top, or the top one goes.                   *)

StackMoves(d) ==
    /\ stack' \in Seq(StackFrames)
    /\ \A i \in 1..Len(stack') : i > d => i - d \in 1..Len(stack) /\ stack'[i] = stack[i - d]
    /\ \A i \in 1..Len(stack) : i + d >= 1 =>
          i + d \in 1..Len(stack') /\ stack'[i + d] = stack[i]

LEMMA FramesAre ==
    ASSUME MemoryTypeOK, NEW i \in 1..Len(stack)
    PROVE  /\ stack[i] \in StackFrames
           /\ stack[i].kind \in {"value", "assign", "unique"}
           /\ stack[i].kind = "value" <=> stack[i] \in ValueFrames
           /\ stack[i].kind = "assign" <=> stack[i] \in AssignFrames
           /\ stack[i].kind = "unique" <=> stack[i] \in UniqueFrames
<1>1. stack[i] \in StackFrames
  BY DEF MemoryTypeOK
<1> QED
  BY <1>1 DEF StackFrames, ValueFrames, AssignFrames, UniqueFrames

LEMMA Pushed ==
    ASSUME NEW S, NEW f \in S, NEW s \in Seq(S)
    PROVE  /\ <<f>> \o s \in Seq(S) /\ Len(<<f>> \o s) = Len(s) + 1
           /\ (<<f>> \o s)[1] = f
           /\ \A i \in 1..Len(s) : (<<f>> \o s)[i + 1] = s[i]
  OBVIOUS

LEMMA StackStays ==
    ASSUME MemoryTypeOK, stack' = stack
    PROVE  StackMoves(0)
<1>1. Len(stack) \in Nat
  BY DEF MemoryTypeOK
<1> QED
  BY <1>1 DEF MemoryTypeOK, StackMoves

LEMMA StackGrows ==
    ASSUME MemoryTypeOK, NEW f \in StackFrames, stack' = <<f>> \o stack
    PROVE  /\ StackMoves(1) /\ stack'[1] = f
           /\ Len(stack') = Len(stack) + 1
<1>1. stack \in Seq(StackFrames) /\ Len(stack) \in Nat
  BY DEF MemoryTypeOK
<1>2. /\ stack' \in Seq(StackFrames) /\ Len(stack') = Len(stack) + 1 /\ stack'[1] = f
      /\ \A i \in 1..Len(stack) : stack'[i + 1] = stack[i]
  BY <1>1
<1>3. \A i \in 1..Len(stack') : i > 1 => i - 1 \in 1..Len(stack) /\ stack'[i] = stack[i - 1]
  <2> TAKE i \in 1..Len(stack')
  <2> HAVE i > 1
  <2>1. i - 1 \in 1..Len(stack) /\ (i - 1) + 1 = i
    BY <1>1, <1>2
  <2> QED
    BY <1>2, <2>1
<1> QED
  BY <1>1, <1>2, <1>3 DEF StackMoves

LEMMA StackGrowsByTwo ==
    ASSUME MemoryTypeOK, NEW f \in StackFrames, NEW g \in StackFrames,
           stack' = <<f>> \o <<g>> \o stack
    PROVE  /\ StackMoves(2) /\ stack'[1] = f /\ stack'[2] = g
           /\ Len(stack') = Len(stack) + 2
<1>1. stack \in Seq(StackFrames) /\ Len(stack) \in Nat
  BY DEF MemoryTypeOK
<1>2. /\ stack' \in Seq(StackFrames) /\ Len(stack') = Len(stack) + 2
      /\ stack'[1] = f /\ stack'[2] = g
      /\ \A i \in 1..Len(stack) : stack'[i + 2] = stack[i]
  <2>1. PICK s : s = <<g>> \o stack
    OBVIOUS
  <2>2. /\ s \in Seq(StackFrames) /\ Len(s) = Len(stack) + 1 /\ s[1] = g
        /\ \A i \in 1..Len(stack) : s[i + 1] = stack[i]
    BY <1>1, <2>1
  <2>3. stack' = <<f>> \o s
    BY <1>1, <2>1, ConcatAssociative
  <2>4. /\ stack' \in Seq(StackFrames) /\ Len(stack') = Len(s) + 1 /\ stack'[1] = f
        /\ \A i \in 1..Len(s) : stack'[i + 1] = s[i]
    <3>1. /\ <<f>> \o s \in Seq(StackFrames) /\ Len(<<f>> \o s) = Len(s) + 1
          /\ (<<f>> \o s)[1] = f
          /\ \A i \in 1..Len(s) : (<<f>> \o s)[i + 1] = s[i]
      BY <2>2, Pushed
    <3> QED
      BY <2>3, <3>1, Zenon
  <2>5. ASSUME NEW i \in 1..Len(stack) PROVE stack'[i + 2] = stack[i]
    <3>1. i + 1 \in 1..Len(s) /\ (i + 1) + 1 = i + 2
      BY <1>1, <2>2
    <3> QED
      BY <2>2, <2>4, <3>1
  <2>6. stack'[2] = g
    <3>1. 1 \in 1..Len(s) /\ 1 + 1 = 2
      BY <1>1, <2>2
    <3> QED
      BY <2>2, <2>4, <3>1
  <2> QED
    BY <1>1, <2>2, <2>4, <2>5, <2>6
<1>3. \A i \in 1..Len(stack') : i > 2 => i - 2 \in 1..Len(stack) /\ stack'[i] = stack[i - 2]
  <2> TAKE i \in 1..Len(stack')
  <2> HAVE i > 2
  <2>1. i - 2 \in 1..Len(stack) /\ (i - 2) + 2 = i
    BY <1>1, <1>2
  <2> QED
    BY <1>2, <2>1
<1> QED
  BY <1>1, <1>2, <1>3 DEF StackMoves

LEMMA StackShrinks ==
    ASSUME MemoryTypeOK, stack # <<>>, stack' = Tail(stack)
    PROVE  /\ StackMoves(-1) /\ 1 \in 1..Len(stack)
           /\ Len(stack') = Len(stack) - 1
<1>1. stack \in Seq(StackFrames) /\ Len(stack) \in Nat /\ Len(stack) # 0
  BY DEF MemoryTypeOK
<1>2. /\ stack' \in Seq(StackFrames) /\ Len(stack') = Len(stack) - 1
      /\ \A i \in 1..Len(stack') : stack'[i] = stack[i + 1]
  BY <1>1
<1>3. ASSUME NEW i \in 1..Len(stack), i + (-1) >= 1
      PROVE  i + (-1) \in 1..Len(stack') /\ stack'[i + (-1)] = stack[i]
  <2>1. i + (-1) \in 1..Len(stack') /\ (i + (-1)) + 1 = i
    BY <1>1, <1>2, <1>3
  <2> QED
    BY <1>2, <2>1
<1>4. ASSUME NEW i \in 1..Len(stack')
      PROVE  i - (-1) \in 1..Len(stack) /\ stack'[i] = stack[i - (-1)]
  <2>1. i - (-1) = i + 1 /\ i + 1 \in 1..Len(stack)
    BY <1>1, <1>2
  <2> QED
    BY <1>2, <2>1
<1> QED
  BY <1>1, <1>2, <1>3, <1>4 DEF StackMoves

\* Where the frames of one kind are after the step: at the places they have moved to,
\* and among those that came.
LEMMA FramesMove ==
    ASSUME MemoryTypeOK, NEW d \in {-1, 0, 1, 2}, StackMoves(d), NEW kind
    PROVE  /\ \A i \in Frames(kind)' :
                 \/ i \in 1..d
                 \/ i - d \in Frames(kind) /\ stack'[i] = stack[i - d]
           /\ \A i \in Frames(kind) :
                 \/ d = -1 /\ i = 1
                 \/ i + d \in Frames(kind)' /\ stack'[i + d] = stack[i]
<1>1. Len(stack) \in Nat /\ Len(stack') \in Nat
  BY DEF MemoryTypeOK, StackMoves
<1>2. ASSUME NEW i \in Frames(kind)', i \notin 1..d
      PROVE  i - d \in Frames(kind) /\ stack'[i] = stack[i - d]
  <2>1. i \in 1..Len(stack') /\ stack'[i].kind = kind
    BY DEF Frames
  <2>2. i > d
    BY <1>1, <1>2, <2>1
  <2>3. i - d \in 1..Len(stack) /\ stack'[i] = stack[i - d]
    BY <2>1, <2>2 DEF StackMoves
  <2> QED
    BY <2>1, <2>3 DEF Frames
<1>3. ASSUME NEW i \in Frames(kind), ~(d = -1 /\ i = 1)
      PROVE  i + d \in Frames(kind)' /\ stack'[i + d] = stack[i]
  <2>1. i \in 1..Len(stack) /\ stack[i].kind = kind
    BY DEF Frames
  <2>2. i + d >= 1
    BY <1>1, <1>3, <2>1
  <2>3. i + d \in 1..Len(stack') /\ stack'[i + d] = stack[i]
    BY <2>1, <2>2 DEF StackMoves
  <2> QED
    BY <2>1, <2>3 DEF Frames
<1> QED
  BY <1>2, <1>3

-----------------------------------------------------------------------------
(* Steps of the pointers.                                                  *)

LEMMA HandlesAreFinite ==
    /\ IsFiniteSet(StrongHandles) /\ IsFiniteSet(WeakHandles)
    /\ NoBlock \notin Offsets
    /\ StrongOwners \cap Offsets = {} /\ WeakOwners \cap Offsets = {}
<1>1. IsFiniteSet(Offsets)
  BY FS_Interval, ArenaAssumption DEF Offsets
<1>2. IsFiniteSet(StrongOwners) /\ IsFiniteSet(WeakOwners)
  BY PointerAssumption
<1>3. IsFiniteSet(StrongOwners \cup Offsets) /\ IsFiniteSet(WeakOwners \cup Offsets)
  BY <1>1, <1>2, FS_Union
<1> QED
  BY <1>3, PointerAssumption DEF StrongHandles, WeakHandles

LEMMA BlocksAre ==
    ASSUME MemoryTypeOK, BlocksSound, NEW b \in DOMAIN control
    PROVE  /\ b \in Offsets /\ b # NoBlock
           /\ control[b] \in SharedBlocks
           /\ control[b].strongCount \in Nat /\ control[b].weakCount \in Nat
           /\ control[b].strongCount = Cardinality(Holders(StrongHandles, strong, b))
           /\ control[b].weakCount = Cardinality(Holders(WeakHandles, weak, b))
           /\ control[b].strongCount = 0 <=> \A h \in StrongHandles : strong[h] # b
           /\ control[b].weakCount = 0 <=> \A h \in WeakHandles : weak[h] # b
<1>1. b \in Offsets /\ b # NoBlock /\ control[b] \in SharedBlocks
  BY HandlesAreFinite DEF MemoryTypeOK
<1>2. /\ control[b].strongCount = Cardinality(Holders(StrongHandles, strong, b))
      /\ control[b].weakCount = Cardinality(Holders(WeakHandles, weak, b))
  BY DEF BlocksSound, CountsExact, Holders
<1>3. control[b].strongCount \in Nat /\ control[b].weakCount \in Nat
  BY <1>1 DEF SharedBlocks
<1>4. /\ control[b].strongCount = 0 <=> \A h \in StrongHandles : strong[h] # b
      /\ control[b].weakCount = 0 <=> \A h \in WeakHandles : weak[h] # b
  BY <1>2, HandlesAreFinite, NoHolders
<1> QED
  BY <1>1, <1>2, <1>3, <1>4

LEMMA UsableAre ==
    ASSUME MemoryTypeOK, NEW h \in UsableStrong
    PROVE  /\ h \in StrongHandles
           /\ h \in Offsets => HasMembers(h)
           /\ \A i \in Frames("assign") : h # stack[i].to
           /\ h \in StrongOwners => \A i \in Frames("assign") : h # stack[i].from
  BY HandlesAreFinite DEF UsableStrong, StrongHandles

\* Counts that follow the pointers, while nothing is born and nothing dies.
LEMMA CountsFollow ==
    ASSUME PointersSound, UNCHANGED <<stack, unique>>,
           strong' \in Pointers(StrongHandles),
           weak' \in Pointers(WeakHandles),
           DOMAIN control' = DOMAIN control,
           control' \in [DOMAIN control -> SharedBlocks],
           \A h \in StrongHandles : strong'[h] # NoBlock => strong'[h] \in DOMAIN control,
           \A h \in WeakHandles : weak'[h] # NoBlock => weak'[h] \in DOMAIN control,
           \A b \in Offsets : ~HasMembers(b) =>
               strong'[b] \in {strong[b], NoBlock} /\ weak'[b] \in {weak[b], NoBlock},
           \A b \in DOMAIN control :
               /\ control'[b].hasValue = control[b].hasValue
               /\ control'[b].destroying = control[b].destroying
               /\ control'[b].strongCount = Cardinality(Holders(StrongHandles, strong', b))
               /\ control'[b].weakCount = Cardinality(Holders(WeakHandles, weak', b))
               /\ control'[b].strongCount = 0 <=> control[b].strongCount = 0
               /\ control'[b].weakCount = 0 =>
                     control[b].weakCount = 0 \/ control[b].hasValue \/ control[b].destroying,
           \A i \in Frames("assign") : strong'[stack[i].to] = NoBlock
    PROVE  PointersSound'
<1>1. MemoryTypeOK /\ BlocksSound /\ FramesSound
  BY DEF PointersSound
<1>2. MemoryTypeOK'
  BY <1>1 DEF MemoryTypeOK
<1>3. \A kind : Frames(kind)' = Frames(kind)
  BY DEF Frames
<1>4. FramesSound'
  BY <1>1, <1>3 DEF FramesSound
<1>5. \A b : HasMembers(b)' <=> HasMembers(b)
  BY DEF HasMembers
<1>6. \A b \in Offsets : ~HasMembers(b)' => strong'[b] = NoBlock /\ weak'[b] = NoBlock
  BY <1>1, <1>5 DEF BlocksSound
<1>7. \A b \in DOMAIN control : CountsExact(b)'
  BY DEF CountsExact, Holders
<1>8. \A b \in DOMAIN control :
        /\ control'[b].hasValue <=> control'[b].strongCount # 0
        /\ control'[b].destroying <=> \E i \in Frames("value")' : stack'[i].block = b
        /\ control'[b].destroying => ~control'[b].hasValue
        /\ control'[b].hasValue \/ control'[b].destroying \/ control'[b].weakCount # 0
  BY <1>1, <1>3 DEF BlocksSound
<1>9. BlocksSound'
  BY <1>1, <1>3, <1>6, <1>7, <1>8 DEF BlocksSound
<1> QED
  BY <1>2, <1>4, <1>9 DEF PointersSound

LEMMA AdoptingStrong ==
    ASSUME PointersSound, NEW h, NEW b \in DOMAIN control, control[b].strongCount # 0,
           AdoptStrong(h, b)
    PROVE  PointersSound'
<1>1. MemoryTypeOK /\ BlocksSound /\ FramesSound
  BY DEF PointersSound
<1>2. /\ strong \in Pointers(StrongHandles)
      /\ control \in [DOMAIN control -> SharedBlocks]
      /\ NoBlock \notin Offsets /\ b \in Offsets
  BY <1>1, BlocksAre, HandlesAreFinite DEF MemoryTypeOK
<1>3. /\ h \in UsableStrong /\ strong[h] = NoBlock
      /\ control' = [control EXCEPT ![b].strongCount = @ + 1]
      /\ strong' = [strong EXCEPT ![h] = b]
      /\ UNCHANGED <<weak, unique, stack, arenaVars>>
  BY DEF AdoptStrong
<1>4. /\ h \in StrongHandles
      /\ h \in Offsets => HasMembers(h)
      /\ \A i \in Frames("assign") : h # stack[i].to
  BY <1>1, <1>3, UsableAre
<1>5. /\ strong' \in Pointers(StrongHandles)
      /\ \A x \in StrongHandles : strong'[x] = IF x = h THEN b ELSE strong[x]
  BY <1>2, <1>3, <1>4 DEF Pointers, Targets
<1>6. /\ DOMAIN control' = DOMAIN control
      /\ control' \in [DOMAIN control -> SharedBlocks]
      /\ \A x \in DOMAIN control :
            /\ control'[x].strongCount = control[x].strongCount + (IF x = b THEN 1 ELSE 0)
            /\ control'[x].weakCount = control[x].weakCount
            /\ control'[x].hasValue = control[x].hasValue
            /\ control'[x].destroying = control[x].destroying
  <2>1. \A x \in DOMAIN control : control[x] \in SharedBlocks
    BY <1>2
  <2> QED
    BY <1>2, <1>3, <2>1 DEF SharedBlocks
<1>7. ASSUME NEW x \in DOMAIN control
      PROVE  /\ control'[x].strongCount = Cardinality(Holders(StrongHandles, strong', x))
             /\ control'[x].strongCount = 0 <=> control[x].strongCount = 0
             /\ control'[x].weakCount = Cardinality(Holders(WeakHandles, weak', x))
             /\ control'[x].weakCount = control[x].weakCount
  <2>1. /\ control[x].strongCount = Cardinality(Holders(StrongHandles, strong, x))
        /\ control[x].weakCount = Cardinality(Holders(WeakHandles, weak, x))
        /\ control[x].strongCount \in Nat /\ x # NoBlock
    BY <1>1, BlocksAre
  <2>2. IsSet(strong', strong, h, b)
    BY <1>3 DEF IsSet
  <2>3. Cardinality(Holders(StrongHandles, strong', x))
           = Cardinality(Holders(StrongHandles, strong, x)) + (IF x = b THEN 1 ELSE 0)
    <3>1. /\ b \in Targets /\ b # NoBlock /\ x # NoBlock
          /\ h \in StrongHandles /\ strong[h] = NoBlock /\ IsFiniteSet(StrongHandles)
          /\ strong \in Pointers(StrongHandles)
      BY <1>2, <1>3, <1>4, <2>1, HandlesAreFinite DEF Targets
    <3> QED
      BY <2>2, <3>1, PointerIsSet
  <2> QED
    BY <1>3, <1>6, <2>1, <2>3
<1>8. \A x \in StrongHandles : strong'[x] # NoBlock => strong'[x] \in DOMAIN control
  BY <1>1, <1>5 DEF BlocksSound
<1>9. /\ \A x \in WeakHandles : weak'[x] # NoBlock => weak'[x] \in DOMAIN control
      /\ weak' \in Pointers(WeakHandles)
      /\ UNCHANGED <<stack, unique>>
  BY <1>1, <1>3 DEF BlocksSound, MemoryTypeOK
<1>10. \A x \in Offsets : ~HasMembers(x) =>
          strong'[x] \in {strong[x], NoBlock} /\ weak'[x] \in {weak[x], NoBlock}
  BY <1>3, <1>4, <1>5 DEF StrongHandles
<1>11. \A i \in Frames("assign") : strong'[stack[i].to] = NoBlock
  <2> TAKE i \in Frames("assign")
  <2>1. stack[i].to \in StrongHandles /\ strong[stack[i].to] = NoBlock
    BY <1>1, FramesAre DEF Frames, FramesSound, AssignFrames, StrongHandles
  <2> QED
    BY <1>4, <1>5, <2>1
<1> QED
  BY <1>5, <1>6, <1>7, <1>8, <1>9, <1>10, <1>11, CountsFollow

LEMMA AdoptingWeak ==
    ASSUME PointersSound, NEW h, NEW b \in DOMAIN control, AdoptWeak(h, b)
    PROVE  PointersSound'
<1>1. MemoryTypeOK /\ BlocksSound /\ FramesSound
  BY DEF PointersSound
<1>2. /\ weak \in Pointers(WeakHandles)
      /\ control \in [DOMAIN control -> SharedBlocks]
      /\ NoBlock \notin Offsets /\ b \in Offsets
  BY <1>1, BlocksAre, HandlesAreFinite DEF MemoryTypeOK
<1>3. /\ h \in UsableWeak /\ weak[h] = NoBlock
      /\ control' = [control EXCEPT ![b].weakCount = @ + 1]
      /\ weak' = [weak EXCEPT ![h] = b]
      /\ UNCHANGED <<strong, unique, stack, arenaVars>>
  BY DEF AdoptWeak
<1>4. h \in WeakHandles /\ (h \in Offsets => HasMembers(h))
  BY <1>3, HandlesAreFinite DEF UsableWeak, WeakHandles
<1>5. /\ weak' \in Pointers(WeakHandles)
      /\ \A x \in WeakHandles : weak'[x] = IF x = h THEN b ELSE weak[x]
  BY <1>2, <1>3, <1>4 DEF Pointers, Targets
<1>6. /\ DOMAIN control' = DOMAIN control
      /\ control' \in [DOMAIN control -> SharedBlocks]
      /\ \A x \in DOMAIN control :
            /\ control'[x].weakCount = control[x].weakCount + (IF x = b THEN 1 ELSE 0)
            /\ control'[x].strongCount = control[x].strongCount
            /\ control'[x].hasValue = control[x].hasValue
            /\ control'[x].destroying = control[x].destroying
  <2>1. \A x \in DOMAIN control : control[x] \in SharedBlocks
    BY <1>2
  <2> QED
    BY <1>2, <1>3, <2>1 DEF SharedBlocks
<1>7. ASSUME NEW x \in DOMAIN control
      PROVE  /\ control'[x].weakCount = Cardinality(Holders(WeakHandles, weak', x))
             /\ control'[x].weakCount = 0 => control[x].weakCount = 0
             /\ control'[x].strongCount = Cardinality(Holders(StrongHandles, strong', x))
             /\ control'[x].strongCount = control[x].strongCount
  <2>1. /\ control[x].strongCount = Cardinality(Holders(StrongHandles, strong, x))
        /\ control[x].weakCount = Cardinality(Holders(WeakHandles, weak, x))
        /\ control[x].weakCount \in Nat /\ x # NoBlock
    BY <1>1, BlocksAre
  <2>2. IsSet(weak', weak, h, b)
    BY <1>3 DEF IsSet
  <2>3. Cardinality(Holders(WeakHandles, weak', x))
           = Cardinality(Holders(WeakHandles, weak, x)) + (IF x = b THEN 1 ELSE 0)
    <3>1. /\ b \in Targets /\ b # NoBlock /\ x # NoBlock
          /\ h \in WeakHandles /\ weak[h] = NoBlock /\ IsFiniteSet(WeakHandles)
          /\ weak \in Pointers(WeakHandles)
      BY <1>2, <1>3, <1>4, <2>1, HandlesAreFinite DEF Targets
    <3> QED
      BY <2>2, <3>1, PointerIsSet
  <2> QED
    BY <1>3, <1>6, <2>1, <2>3
<1>8. \A x \in WeakHandles : weak'[x] # NoBlock => weak'[x] \in DOMAIN control
  BY <1>1, <1>5 DEF BlocksSound
<1>9. /\ \A x \in StrongHandles : strong'[x] # NoBlock => strong'[x] \in DOMAIN control
      /\ strong' \in Pointers(StrongHandles)
      /\ UNCHANGED <<stack, unique>>
      /\ \A i \in Frames("assign") : strong'[stack[i].to] = NoBlock
  BY <1>1, <1>3 DEF BlocksSound, MemoryTypeOK, FramesSound
<1>10. \A x \in Offsets : ~HasMembers(x) =>
          strong'[x] \in {strong[x], NoBlock} /\ weak'[x] \in {weak[x], NoBlock}
  BY <1>3, <1>4, <1>5 DEF WeakHandles
<1> QED
  BY <1>5, <1>6, <1>7, <1>8, <1>9, <1>10, CountsFollow

LEMMA OneFewer ==
    ASSUME PointersSound, NEW h \in StrongHandles, ~IsLastOwner(h), OneOwnerLess(h)
    PROVE  /\ DOMAIN control' = DOMAIN control
           /\ control' \in [DOMAIN control -> SharedBlocks]
           /\ \A x \in DOMAIN control :
                 /\ control'[x].strongCount =
                       control[x].strongCount - (IF x = strong[h] THEN 1 ELSE 0)
                 /\ control'[x].strongCount = 0 <=> control[x].strongCount = 0
                 /\ control'[x].weakCount = control[x].weakCount
                 /\ control'[x].hasValue = control[x].hasValue
                 /\ control'[x].destroying = control[x].destroying
<1>1. MemoryTypeOK /\ BlocksSound /\ FramesSound
  BY DEF PointersSound
<1>2. \A x \in DOMAIN control :
         /\ x \in Offsets /\ x # NoBlock /\ control[x] \in SharedBlocks
         /\ control[x].strongCount \in Nat
         /\ control[x].strongCount = 0 => strong[h] # x
  BY <1>1, BlocksAre
<1>3. control \in [DOMAIN control -> SharedBlocks]
  BY <1>1 DEF MemoryTypeOK
<1>4. CASE strong[h] = NoBlock
  <2>1. control' = control
    BY <1>4 DEF OneOwnerLess
  <2> QED
    BY <1>2, <1>3, <1>4, <2>1
<1>5. CASE strong[h] # NoBlock
  <2> DEFINE b == strong[h]
  <2>1. b \in DOMAIN control
    BY <1>1, <1>5 DEF BlocksSound
  <2>2. control[b].strongCount \in Nat \ {0, 1}
    BY <1>2, <1>5, <2>1 DEF IsLastOwner
  <2>3. control' = [control EXCEPT ![b].strongCount = @ - 1]
    BY <1>5 DEF OneOwnerLess
  <2> HIDE DEF b
  <2>4. /\ DOMAIN control' = DOMAIN control
        /\ control' \in [DOMAIN control -> SharedBlocks]
        /\ \A x \in DOMAIN control :
              /\ control'[x].strongCount = control[x].strongCount - (IF x = b THEN 1 ELSE 0)
              /\ control'[x].strongCount = 0 <=> control[x].strongCount = 0
              /\ control'[x].weakCount = control[x].weakCount
              /\ control'[x].hasValue = control[x].hasValue
              /\ control'[x].destroying = control[x].destroying
    <3>1. DOMAIN control' = DOMAIN control
      BY <2>3
    <3>2. control[b] \in SharedBlocks
      BY <1>2, <2>1
    <3>3. PICK w \in Nat \ {0} : w = control[b].strongCount - 1
      BY <2>2
    <3>4. control' = [control EXCEPT ![b] = [control[b] EXCEPT !.strongCount = w]]
      BY <2>3, <3>3
    <3>5. control'[b] = [control[b] EXCEPT !.strongCount = w]
      BY <2>1, <3>4
    <3>6. /\ control'[b] \in SharedBlocks /\ control'[b].strongCount = w
          /\ control'[b].weakCount = control[b].weakCount
          /\ control'[b].hasValue = control[b].hasValue
          /\ control'[b].destroying = control[b].destroying
      BY <3>2, <3>5 DEF SharedBlocks
    <3>7. control' \in [DOMAIN control -> SharedBlocks]
      BY <1>3, <2>1, <3>4, <3>5, <3>6
    <3>8. ASSUME NEW x \in DOMAIN control, x # b
          PROVE  control'[x] = control[x] /\ control[x].strongCount - 0 = control[x].strongCount
      BY <1>2, <3>4, <3>8
    <3>9. control[b].strongCount # 0 /\ control'[b].strongCount # 0
      BY <2>2, <3>3, <3>6
    <3> QED
      BY <3>1, <3>3, <3>6, <3>7, <3>8, <3>9
  <2> QED
    BY <2>4 DEF b
<1> QED
  BY <1>4, <1>5

LEMMA ResettingStrong ==
    ASSUME PointersSound, NEW h \in StrongHandles, Reset(h)
    PROVE  PointersSound'
<1>1. MemoryTypeOK /\ BlocksSound /\ FramesSound
  BY DEF PointersSound
<1>2. strong \in Pointers(StrongHandles) /\ NoBlock \notin Offsets
  BY <1>1, HandlesAreFinite DEF MemoryTypeOK
<1>3. /\ h \in UsableStrong /\ ~IsLastOwner(h) /\ OneOwnerLess(h)
      /\ strong' = [strong EXCEPT ![h] = NoBlock]
      /\ UNCHANGED <<weak, unique, stack, arenaVars>>
  BY DEF Reset
<1>4. /\ strong' \in Pointers(StrongHandles)
      /\ \A x \in StrongHandles : strong'[x] = IF x = h THEN NoBlock ELSE strong[x]
  BY <1>2, <1>3 DEF Pointers, Targets
<1>5. /\ DOMAIN control' = DOMAIN control
      /\ control' \in [DOMAIN control -> SharedBlocks]
      /\ \A x \in DOMAIN control :
            /\ control'[x].strongCount =
                  control[x].strongCount - (IF x = strong[h] THEN 1 ELSE 0)
            /\ control'[x].strongCount = 0 <=> control[x].strongCount = 0
            /\ control'[x].weakCount = control[x].weakCount
            /\ control'[x].hasValue = control[x].hasValue
            /\ control'[x].destroying = control[x].destroying
  BY <1>3, OneFewer
<1>6. ASSUME NEW x \in DOMAIN control
      PROVE  /\ control'[x].strongCount = Cardinality(Holders(StrongHandles, strong', x))
             /\ control'[x].weakCount = Cardinality(Holders(WeakHandles, weak', x))
  <2>1. /\ control[x].strongCount = Cardinality(Holders(StrongHandles, strong, x))
        /\ control[x].weakCount = Cardinality(Holders(WeakHandles, weak, x))
        /\ x # NoBlock
    BY <1>1, BlocksAre
  <2>2. IsSet(strong', strong, h, NoBlock)
    BY <1>3 DEF IsSet
  <2>3. Cardinality(Holders(StrongHandles, strong', x))
           = Cardinality(Holders(StrongHandles, strong, x)) - (IF x = strong[h] THEN 1 ELSE 0)
    BY <1>2, <2>1, <2>2, HandlesAreFinite, PointerIsReset
  <2> QED
    BY <1>3, <1>5, <2>1, <2>3
<1>7. /\ \A x \in StrongHandles : strong'[x] # NoBlock => strong'[x] \in DOMAIN control
      /\ \A x \in WeakHandles : weak'[x] # NoBlock => weak'[x] \in DOMAIN control
      /\ weak' \in Pointers(WeakHandles)
      /\ UNCHANGED <<stack, unique>>
  BY <1>1, <1>3, <1>4 DEF BlocksSound, MemoryTypeOK
<1>8. \A x \in Offsets : ~HasMembers(x) =>
          strong'[x] \in {strong[x], NoBlock} /\ weak'[x] \in {weak[x], NoBlock}
  BY <1>3, <1>4 DEF StrongHandles
<1>9. \A i \in Frames("assign") : strong'[stack[i].to] = NoBlock
  <2> TAKE i \in Frames("assign")
  <2>1. stack[i].to \in StrongHandles /\ strong[stack[i].to] = NoBlock
    BY <1>1, FramesAre DEF Frames, FramesSound, AssignFrames, StrongHandles
  <2> QED
    BY <1>4, <2>1
<1> QED
  BY <1>4, <1>5, <1>6, <1>7, <1>8, <1>9, CountsFollow

LEMMA Moving ==
    ASSUME NEW S, NEW f \in Pointers(S), NEW to \in S, NEW from \in S, NEW g, to # from,
           IsMoved(g, f, to, from)
    PROVE  /\ g \in Pointers(S)
           /\ g[from] = NoBlock /\ g[to] = f[from]
           /\ \A x \in S : x # to /\ x # from => g[x] = f[x]
  BY DEF Pointers, Targets, IsMoved

LEMMA MovingStrong ==
    ASSUME PointersSound, NEW to \in StrongHandles, NEW from \in StrongHandles,
           MoveAssign(to, from)
    PROVE  PointersSound'
<1>1. MemoryTypeOK /\ BlocksSound /\ FramesSound
  BY DEF PointersSound
<1>2. strong \in Pointers(StrongHandles) /\ NoBlock \notin Offsets
  BY <1>1, HandlesAreFinite DEF MemoryTypeOK
<1>3. /\ to \in UsableStrong /\ from \in UsableStrong /\ to # from
      /\ ~IsLastOwner(to) /\ OneOwnerLess(to)
      /\ strong' = [strong EXCEPT ![to] = strong[from], ![from] = NoBlock]
      /\ UNCHANGED <<weak, unique, stack, arenaVars>>
  BY DEF MoveAssign
<1>4. /\ strong' \in Pointers(StrongHandles)
      /\ \A x \in StrongHandles :
            strong'[x] = IF x = from THEN NoBlock ELSE IF x = to THEN strong[from] ELSE strong[x]
      /\ IsMoved(strong', strong, to, from)
  <2>1. IsMoved(strong', strong, to, from)
    BY <1>3 DEF IsMoved
  <2>2. to # from /\ strong \in Pointers(StrongHandles)
    BY <1>2, <1>3
  <2>3. /\ strong' \in Pointers(StrongHandles)
        /\ strong'[from] = NoBlock /\ strong'[to] = strong[from]
        /\ \A x \in StrongHandles : x # to /\ x # from => strong'[x] = strong[x]
    BY <2>1, <2>2, Moving
  <2> QED
    BY <2>1, <2>3
<1>5. /\ DOMAIN control' = DOMAIN control
      /\ control' \in [DOMAIN control -> SharedBlocks]
      /\ \A x \in DOMAIN control :
            /\ control'[x].strongCount =
                  control[x].strongCount - (IF x = strong[to] THEN 1 ELSE 0)
            /\ control'[x].strongCount = 0 <=> control[x].strongCount = 0
            /\ control'[x].weakCount = control[x].weakCount
            /\ control'[x].hasValue = control[x].hasValue
            /\ control'[x].destroying = control[x].destroying
  BY <1>3, OneFewer
<1>6. ASSUME NEW x \in DOMAIN control
      PROVE  /\ control'[x].strongCount = Cardinality(Holders(StrongHandles, strong', x))
             /\ control'[x].weakCount = Cardinality(Holders(WeakHandles, weak', x))
  <2>1. /\ control[x].strongCount = Cardinality(Holders(StrongHandles, strong, x))
        /\ control[x].weakCount = Cardinality(Holders(WeakHandles, weak, x))
        /\ x # NoBlock
    BY <1>1, BlocksAre
  <2>2. Cardinality(Holders(StrongHandles, strong', x))
           = Cardinality(Holders(StrongHandles, strong, x)) - (IF x = strong[to] THEN 1 ELSE 0)
    BY <1>2, <1>3, <1>4, <2>1, HandlesAreFinite, PointerIsMoved
  <2> QED
    BY <1>3, <1>5, <2>1, <2>2
<1>7. /\ \A x \in StrongHandles : strong'[x] # NoBlock => strong'[x] \in DOMAIN control
      /\ \A x \in WeakHandles : weak'[x] # NoBlock => weak'[x] \in DOMAIN control
      /\ weak' \in Pointers(WeakHandles)
      /\ UNCHANGED <<stack, unique>>
  <2>1. \A x \in StrongHandles : strong[x] # NoBlock => strong[x] \in DOMAIN control
    BY <1>1 DEF BlocksSound
  <2>2. \A x \in StrongHandles : strong'[x] # NoBlock => strong'[x] \in DOMAIN control
    BY <1>4, <2>1
  <2> QED
    BY <1>1, <1>3, <2>2 DEF BlocksSound, MemoryTypeOK
<1>8. /\ to \in Offsets => HasMembers(to)
      /\ \A i \in Frames("assign") : to # stack[i].to
  BY <1>1, <1>3, UsableAre
<1>9. \A x \in Offsets : ~HasMembers(x) =>
          strong'[x] \in {strong[x], NoBlock} /\ weak'[x] \in {weak[x], NoBlock}
  BY <1>3, <1>4, <1>8 DEF StrongHandles
<1>10. \A i \in Frames("assign") : strong'[stack[i].to] = NoBlock
  <2> TAKE i \in Frames("assign")
  <2>1. stack[i].to \in StrongHandles /\ strong[stack[i].to] = NoBlock
    BY <1>1, FramesAre DEF Frames, FramesSound, AssignFrames, StrongHandles
  <2> QED
    BY <1>4, <1>8, <2>1
<1> QED
  BY <1>4, <1>5, <1>6, <1>7, <1>9, <1>10, CountsFollow

\* The control blocks, and what they were allocated, stay what they are.
AllocationsStay ==
    /\ DOMAIN control' = DOMAIN control
    /\ \A x \in DOMAIN control : control'[x].allocation = control[x].allocation

\* What comes on the stack is no call of a deleter.
OtherFramesCome == \E d \in {1, 2} : StackMoves(d) /\ Frames("unique")' \cap 1..d = {}

\* What the destructor of the value that h releases returns to.
ReturnsTo(h, below) ==
    \/ below = <<>>
    \/ \E from \in UsableStrong \cap StrongOwners :
          h \in StrongOwners /\ h # from /\ below = <<AssignFrame(h, from)>>

\* Nothing but the count of the released block changes: it dies, and the destructor of
\* its value runs on top of the stack, over the assignment that released it, if any.
LEMMA DestroyingValue ==
    ASSUME PointersSound, NEW h \in UsableStrong, IsLastOwner(h), NEW below,
           DestroyValueInPlace(h, below), UNCHANGED <<weak, unique, arenaVars>>,
           ReturnsTo(h, below)
    PROVE  PointersSound' /\ AllocationsStay /\ OtherFramesCome
<1> DEFINE b == strong[h]
<1>1. MemoryTypeOK /\ BlocksSound /\ FramesSound
  BY DEF PointersSound
<1>2. /\ h \in StrongHandles
      /\ h \in Offsets => HasMembers(h)
      /\ \A i \in Frames("assign") : h # stack[i].to
      /\ h \in StrongOwners => \A i \in Frames("assign") : h # stack[i].from
  BY <1>1, UsableAre
<1>3. /\ strong \in Pointers(StrongHandles) /\ weak \in Pointers(WeakHandles)
      /\ control \in [DOMAIN control -> SharedBlocks] /\ DOMAIN control \subseteq Offsets
      /\ NoBlock \notin Offsets
  BY <1>1, HandlesAreFinite DEF MemoryTypeOK
<1>4. b # NoBlock /\ b \in DOMAIN control /\ control[b].strongCount = 1 /\ b \in Offsets
  BY <1>1, <1>2, <1>3 DEF IsLastOwner, BlocksSound
<1>5. control[b].hasValue /\ ~control[b].destroying
      /\ \A i \in Frames("value") : stack[i].block # b
  BY <1>1, <1>4 DEF BlocksSound
<1>6. /\ strong' = [strong EXCEPT ![h] = NoBlock]
      /\ weak' = weak /\ unique' = unique
      /\ stack' = <<ValueFrame(b)>> \o below \o stack
      /\ control' = [control EXCEPT ![b].strongCount = 0, ![b].hasValue = FALSE,
                                    ![b].destroying = TRUE]
  BY DEF DestroyValueInPlace
<1> HIDE DEF b
<1>7. /\ strong' \in Pointers(StrongHandles) /\ strong'[h] = NoBlock
      /\ \A x \in StrongHandles : x # h => strong'[x] = strong[x]
  BY <1>2, <1>3, <1>6 DEF Pointers, Targets
<1>8. /\ DOMAIN control' = DOMAIN control
      /\ control' \in [DOMAIN control -> SharedBlocks]
      /\ control'[b].strongCount = 0 /\ ~control'[b].hasValue /\ control'[b].destroying
      /\ \A x \in DOMAIN control : x # b => control'[x] = control[x]
      /\ \A x \in DOMAIN control :
            /\ control'[x].weakCount = control[x].weakCount
            /\ control'[x].allocation = control[x].allocation
  <2>1. \A x \in DOMAIN control : control[x] \in SharedBlocks
    BY <1>3
  <2> QED
    BY <1>3, <1>4, <1>6, <2>1 DEF SharedBlocks
<1>9. ValueFrame(b) \in StackFrames /\ ValueFrame(b).kind = "value" /\ ValueFrame(b).block = b
  BY <1>4 DEF ValueFrame, StackFrames, ValueFrames
<1>10. \E d \in {1, 2} :
          /\ StackMoves(d) /\ stack'[1] = ValueFrame(b) /\ 1 \in 1..Len(stack')
          /\ d = 2 => /\ stack'[2].kind = "assign"
                      /\ stack'[2].to = h /\ h \in StrongOwners
                      /\ stack'[2].from \in UsableStrong \cap StrongOwners
                      /\ h # stack'[2].from
  <2>1. CASE below = <<>>
    <3>1. stack' = <<ValueFrame(b)>> \o stack
      BY <1>6, <2>1
    <3>2. StackMoves(1) /\ stack'[1] = ValueFrame(b) /\ Len(stack') = Len(stack) + 1
      BY <1>1, <1>9, <3>1, StackGrows
    <3>3. Len(stack) \in Nat
      BY <1>1 DEF MemoryTypeOK
    <3>4. 1 \in 1..Len(stack')
      BY <3>2, <3>3
    <3> QED
      BY <3>2, <3>4
  <2>2. CASE \E from \in UsableStrong \cap StrongOwners :
                h \in StrongOwners /\ h # from /\ below = <<AssignFrame(h, from)>>
    <3>0. PICK from \in UsableStrong \cap StrongOwners :
             h \in StrongOwners /\ h # from /\ below = <<AssignFrame(h, from)>>
      BY <2>2
    <3> DEFINE a == AssignFrame(h, from)
    <3>1. /\ a \in StackFrames /\ a.kind = "assign" /\ a.to = h /\ a.from = from
      <4>1. from \in StrongHandles
        BY DEF StrongHandles
      <4>2. strong[from] \in Offsets \cup {NoBlock}
        BY <1>3, <4>1 DEF Pointers, Targets
      <4> QED
        BY <3>0, <4>2 DEF AssignFrame, StackFrames, AssignFrames
    <3> HIDE DEF a
    <3>2. stack' = <<ValueFrame(b)>> \o <<a>> \o stack
      BY <1>6, <3>0 DEF a
    <3>3. /\ StackMoves(2) /\ stack'[1] = ValueFrame(b) /\ stack'[2] = a
          /\ Len(stack') = Len(stack) + 2
      BY <1>1, <1>9, <3>1, <3>2, StackGrowsByTwo
    <3>4. Len(stack) \in Nat
      BY <1>1 DEF MemoryTypeOK
    <3>5. 1 \in 1..Len(stack')
      BY <3>3, <3>4
    <3> QED
      BY <3>0, <3>1, <3>3, <3>5
  <2> QED
    BY <2>1, <2>2 DEF ReturnsTo
<1>11. PICK d \in {1, 2} :
          /\ StackMoves(d) /\ stack'[1] = ValueFrame(b) /\ 1 \in 1..Len(stack')
          /\ d = 2 => /\ stack'[2].kind = "assign"
                      /\ stack'[2].to = h /\ h \in StrongOwners
                      /\ stack'[2].from \in UsableStrong \cap StrongOwners
                      /\ h # stack'[2].from
  BY <1>10
<1>12. \A kind :
          /\ \A i \in Frames(kind)' :
                \/ i \in 1..d
                \/ i - d \in Frames(kind) /\ stack'[i] = stack[i - d]
          /\ \A i \in Frames(kind) : i + d \in Frames(kind)' /\ stack'[i + d] = stack[i]
  BY <1>1, <1>11, FramesMove
<1>13. 1..d = {1} \cup (IF d = 2 THEN {2} ELSE {})
  OBVIOUS
<1>14. /\ 1 \in Frames("value")' /\ stack'[1].block = b
       /\ \A kind : 1 \in Frames(kind)' => kind = "value"
       /\ d = 2 => \A kind : 2 \in Frames(kind)' => kind = "assign"
  BY <1>9, <1>11 DEF Frames
<1>15. \A i \in Frames("value")' :
          i = 1 \/ (i - d \in Frames("value") /\ stack'[i] = stack[i - d])
  BY <1>12, <1>13, <1>14
<1>16. \A i \in Frames("assign")' :
          (i = 2 /\ d = 2) \/ (i - d \in Frames("assign") /\ stack'[i] = stack[i - d])
  BY <1>12, <1>13, <1>14
<1>17. Frames("unique")' \cap 1..d = {}
  BY <1>13, <1>14
<1>18. \A kind : \A i \in Frames(kind)' : i \in Int
  BY DEF Frames
<1>19. \A x \in DOMAIN control :
          control'[x].destroying <=> \E i \in Frames("value")' : stack'[i].block = x
  <2> TAKE x \in DOMAIN control
  <2>1. CASE x = b
    BY <1>8, <1>14, <2>1
  <2>2. CASE x # b
    <3>1. control'[x].destroying <=> \E i \in Frames("value") : stack[i].block = x
      BY <1>1, <1>8, <2>2 DEF BlocksSound
    <3>2. ASSUME NEW i \in Frames("value")', stack'[i].block = x
          PROVE  \E j \in Frames("value") : stack[j].block = x
      BY <1>14, <1>15, <2>2, <3>2
    <3>3. ASSUME NEW j \in Frames("value"), stack[j].block = x
          PROVE  \E i \in Frames("value")' : stack'[i].block = x
      BY <1>12, <3>3
    <3> QED
      BY <3>1, <3>2, <3>3
  <2> QED
    BY <2>1, <2>2
<1>20. \A i, j \in Frames("value")' : stack'[i].block = stack'[j].block => i = j
  <2> SUFFICES ASSUME NEW i \in Frames("value")', NEW j \in Frames("value")',
                      stack'[i].block = stack'[j].block
               PROVE  i = j
    OBVIOUS
  <2>1. i \in Int /\ j \in Int
    BY <1>18
  <2>2. CASE i = 1 \/ j = 1
    BY <1>5, <1>14, <1>15, <2>2
  <2>3. CASE i # 1 /\ j # 1
    <3>1. i - d = j - d
      BY <1>1, <1>15, <2>3 DEF BlocksSound
    <3> QED
      BY <2>1, <3>1
  <2> QED
    BY <2>2, <2>3
<1>21. \A x \in DOMAIN control : CountsExact(x)'
  <2> TAKE x \in DOMAIN control
  <2>1. /\ control[x].strongCount = Cardinality(Holders(StrongHandles, strong, x))
        /\ control[x].weakCount = Cardinality(Holders(WeakHandles, weak, x))
        /\ x # NoBlock
    BY <1>1, BlocksAre
  <2>2. IsSet(strong', strong, h, NoBlock)
    BY <1>6 DEF IsSet
  <2>3. Cardinality(Holders(StrongHandles, strong', x))
           = Cardinality(Holders(StrongHandles, strong, x)) - (IF x = strong[h] THEN 1 ELSE 0)
    BY <1>2, <1>3, <2>1, <2>2, HandlesAreFinite, PointerIsReset
  <2>4. /\ control'[x].strongCount = Cardinality(Holders(StrongHandles, strong', x))
        /\ control'[x].weakCount = Cardinality(Holders(WeakHandles, weak', x))
    <3>1. CASE x = b
      <4>1. x = strong[h] /\ control[x].strongCount = 1 /\ control'[x].strongCount = 0
        BY <1>4, <1>8, <3>1 DEF b
      <4>2. Cardinality(Holders(StrongHandles, strong', x)) = 0
        BY <2>1, <2>3, <4>1
      <4> QED
        BY <1>6, <1>8, <2>1, <4>1, <4>2
    <3>2. CASE x # b
      <4>1. control[x].strongCount \in Nat
        BY <1>1, BlocksAre
      <4> QED
        BY <1>6, <1>8, <2>1, <2>3, <3>2, <4>1 DEF b
    <3> QED
      BY <3>1, <3>2
  <2> QED
    BY <2>4 DEF CountsExact, Holders
<1>22. MemoryTypeOK'
  BY <1>1, <1>6, <1>7, <1>8, <1>11 DEF MemoryTypeOK, StackMoves
<1>23. \A x \in Offsets : ~HasMembers(x)' => strong'[x] = NoBlock /\ weak'[x] = NoBlock
  <2>1. \A x : HasMembers(x)' <=> HasMembers(x)
    BY <1>5, <1>8 DEF HasMembers
  <2>2. \A x \in Offsets : x \in StrongHandles
    BY DEF StrongHandles
  <2> QED
    BY <1>1, <1>6, <1>7, <2>1, <2>2 DEF BlocksSound
<1>24. /\ \A x \in StrongHandles : strong'[x] # NoBlock => strong'[x] \in DOMAIN control'
       /\ \A x \in WeakHandles : weak'[x] # NoBlock => weak'[x] \in DOMAIN control'
  BY <1>1, <1>6, <1>7, <1>8 DEF BlocksSound
<1>25. \A x \in DOMAIN control :
         /\ control'[x].hasValue <=> control'[x].strongCount # 0
         /\ control'[x].destroying => ~control'[x].hasValue
         /\ control'[x].hasValue \/ control'[x].destroying \/ control'[x].weakCount # 0
  BY <1>1, <1>8 DEF BlocksSound
<1>26. BlocksSound'
  BY <1>8, <1>19, <1>20, <1>21, <1>23, <1>24, <1>25 DEF BlocksSound
<1>27. FramesSound'
  <2>1. \A i \in Frames("value")' : stack'[i].block \in DOMAIN control'
    BY <1>1, <1>4, <1>8, <1>14, <1>15 DEF FramesSound
  <2>2. \A i \in Frames("assign") :
           /\ stack[i].to \in StrongHandles /\ strong[stack[i].to] = NoBlock
           /\ stack[i].to # stack[i].from
           /\ stack[i].to \in StrongOwners /\ stack[i].from \in StrongOwners
    BY <1>1, FramesAre DEF Frames, FramesSound, AssignFrames, StrongHandles
  <2>3. \A i \in Frames("assign")' :
           strong'[stack'[i].to] = NoBlock /\ stack'[i].to # stack'[i].from
    <3> TAKE i \in Frames("assign")'
    <3>1. CASE i = 2 /\ d = 2
      BY <1>7, <1>11, <3>1
    <3>2. CASE i - d \in Frames("assign") /\ stack'[i] = stack[i - d]
      BY <1>7, <2>2, <3>2
    <3> QED
      BY <1>16, <3>1, <3>2
  <2>4. \A i, j \in Frames("assign")' : i # j =>
           {stack'[i].to, stack'[i].from} \cap {stack'[j].to, stack'[j].from} = {}
    <3>1. d = 2 => \A j \in Frames("assign") :
             {stack'[2].to, stack'[2].from} \cap {stack[j].to, stack[j].from} = {}
      <4> SUFFICES ASSUME d = 2, NEW j \in Frames("assign")
                   PROVE  {stack'[2].to, stack'[2].from} \cap {stack[j].to, stack[j].from} = {}
        OBVIOUS
      <4>1. h # stack[j].to /\ h # stack[j].from
        BY <1>2, <1>11
      <4>2. stack'[2].from # stack[j].to /\ stack'[2].from # stack[j].from
        BY <1>1, <1>11, UsableAre
      <4> QED
        BY <1>11, <4>1, <4>2
    <3> SUFFICES ASSUME NEW i \in Frames("assign")', NEW j \in Frames("assign")', i # j
                 PROVE  {stack'[i].to, stack'[i].from} \cap {stack'[j].to, stack'[j].from} = {}
      OBVIOUS
    <3>2. i \in Int /\ j \in Int
      BY <1>18
    <3>3. CASE i = 2 /\ d = 2
      BY <1>16, <3>1, <3>3
    <3>4. CASE j = 2 /\ d = 2
      BY <1>16, <3>1, <3>4
    <3>5. CASE /\ i - d \in Frames("assign") /\ stack'[i] = stack[i - d]
               /\ j - d \in Frames("assign") /\ stack'[j] = stack[j - d]
      <4>1. i - d # j - d
        BY <3>2
      <4> QED
        BY <1>1, <3>5, <4>1 DEF FramesSound
    <3> QED
      BY <1>16, <3>3, <3>4, <3>5
  <2> QED
    BY <2>1, <2>3, <2>4 DEF FramesSound
<1> QED
  BY <1>8, <1>11, <1>17, <1>22, <1>26, <1>27 DEF PointersSound, AllocationsStay, OtherFramesCome

\* Frames of a kind of which none comes and none goes.
LEMMA FramesStayOn ==
    ASSUME MemoryTypeOK, NEW d \in {-1, 0, 1}, StackMoves(d), NEW kind,
           d = 1 => stack'[1].kind # kind, d = -1 => stack[1].kind # kind
    PROVE  /\ \A i \in Frames(kind)' : i - d \in Frames(kind) /\ stack'[i] = stack[i - d]
           /\ \A i \in Frames(kind) : i + d \in Frames(kind)' /\ stack'[i + d] = stack[i]
           /\ \A i \in Frames(kind)' : i \in Int
           /\ \A i \in Frames(kind) : i \in Int
<1>1. d \in {-1, 0, 1, 2}
  OBVIOUS
<1>2. /\ \A i \in Frames(kind)' :
            i \in 1..d \/ (i - d \in Frames(kind) /\ stack'[i] = stack[i - d])
      /\ \A i \in Frames(kind) :
            (d = -1 /\ i = 1) \/ (i + d \in Frames(kind)' /\ stack'[i + d] = stack[i])
  BY <1>1, FramesMove
<1>3. \A i \in 1..d : i = 1 /\ d = 1
  OBVIOUS
<1>4. /\ d = 1 => 1 \notin Frames(kind)'
      /\ d = -1 => 1 \notin Frames(kind)
  BY DEF Frames
<1>5. /\ \A i \in Frames(kind)' : i \in Int
      /\ \A i \in Frames(kind) : i \in Int
  BY DEF Frames
<1> QED
  BY <1>2, <1>3, <1>4, <1>5

LEMMA ValuesStayOn ==
    ASSUME PointersSound, NEW d \in {-1, 0, 1}, StackMoves(d),
           d = 1 => stack'[1].kind # "value", d = -1 => stack[1].kind # "value"
    PROVE  /\ \A x : (\E i \in Frames("value")' : stack'[i].block = x)
                        <=> (\E i \in Frames("value") : stack[i].block = x)
           /\ \A i, j \in Frames("value")' : stack'[i].block = stack'[j].block => i = j
<1>1. MemoryTypeOK /\ BlocksSound
  BY DEF PointersSound
<1>2. /\ \A i \in Frames("value")' :
            i - d \in Frames("value") /\ stack'[i] = stack[i - d]
      /\ \A i \in Frames("value") :
            i + d \in Frames("value")' /\ stack'[i + d] = stack[i]
      /\ \A i \in Frames("value")' : i \in Int
  BY <1>1, FramesStayOn
<1>3. \A i, j \in Frames("value") : stack[i].block = stack[j].block => i = j
  BY <1>1 DEF BlocksSound
<1>4. ASSUME NEW i \in Frames("value")', NEW j \in Frames("value")',
             stack'[i].block = stack'[j].block
      PROVE  i = j
  <2>1. i - d = j - d
    BY <1>2, <1>3, <1>4
  <2> QED
    BY <1>2, <2>1
<1>5. \A x : (\E i \in Frames("value")' : stack'[i].block = x)
                <=> (\E i \in Frames("value") : stack[i].block = x)
  BY <1>2
<1> QED
  BY <1>4, <1>5

\* Nothing but the stack and the unique pointers moves.
LEMMA OnlyUniqueMoves ==
    ASSUME PointersSound, UNCHANGED <<strong, weak, control>>,
           unique' \in [UniqueOwners -> MemoryBlocks \cup {NoBlock}],
           NEW d \in {-1, 0, 1}, StackMoves(d),
           d = 1 => stack'[1].kind = "unique", d = -1 => stack[1].kind = "unique"
    PROVE  PointersSound'
<1>1. MemoryTypeOK /\ BlocksSound /\ FramesSound
  BY DEF PointersSound
<1>2. /\ d = 1 => stack'[1].kind # "value" /\ stack'[1].kind # "assign"
      /\ d = -1 => stack[1].kind # "value" /\ stack[1].kind # "assign"
  OBVIOUS
<1>3. /\ \A x : (\E i \in Frames("value")' : stack'[i].block = x)
                   <=> (\E i \in Frames("value") : stack[i].block = x)
      /\ \A i, j \in Frames("value")' : stack'[i].block = stack'[j].block => i = j
  BY <1>2, ValuesStayOn
<1>4. \A i \in Frames("value")' :
         i - d \in Frames("value") /\ stack'[i] = stack[i - d]
  BY <1>1, <1>2, FramesStayOn
<1>5. \A i \in Frames("assign")' :
         i \in Int /\ i - d \in Frames("assign") /\ stack'[i] = stack[i - d]
  BY <1>1, <1>2, FramesStayOn
<1>6. MemoryTypeOK'
  BY <1>1 DEF MemoryTypeOK, StackMoves
<1>7. \A x : (HasMembers(x)' <=> HasMembers(x)) /\ (CountsExact(x)' <=> CountsExact(x))
  BY DEF HasMembers, CountsExact
<1>8. BlocksSound'
  BY <1>1, <1>3, <1>7 DEF BlocksSound
<1>9. FramesSound'
  <2>1. \A i \in Frames("value")' : stack'[i].block \in DOMAIN control'
    BY <1>1, <1>4 DEF FramesSound
  <2>2. \A i \in Frames("assign")' :
           strong'[stack'[i].to] = NoBlock /\ stack'[i].to # stack'[i].from
    BY <1>1, <1>5 DEF FramesSound
  <2>3. \A i, j \in Frames("assign")' : i # j =>
           {stack'[i].to, stack'[i].from} \cap {stack'[j].to, stack'[j].from} = {}
    <3> SUFFICES ASSUME NEW i \in Frames("assign")', NEW j \in Frames("assign")', i # j
                 PROVE  {stack'[i].to, stack'[i].from} \cap {stack'[j].to, stack'[j].from} = {}
      OBVIOUS
    <3>1. i - d # j - d
      BY <1>5
    <3> QED
      BY <1>1, <1>5, <3>1 DEF FramesSound
  <2> QED
    BY <2>1, <2>2, <2>3 DEF FramesSound
<1> QED
  BY <1>6, <1>8, <1>9 DEF PointersSound

\* The assignment whose Reset is over takes over its source.
LEMMA AdoptingAfterReset ==
    ASSUME PointersSound, AdoptAfterReset
    PROVE  /\ PointersSound' /\ StackMoves(-1) /\ 1 \in 1..Len(stack)
           /\ stack[1].kind = "assign"
<1> DEFINE to == stack[1].to
           from == stack[1].from
<1>1. MemoryTypeOK /\ BlocksSound /\ FramesSound
  BY DEF PointersSound
<1>2. /\ stack # <<>> /\ stack[1].kind = "assign" /\ stack' = Tail(stack)
      /\ UNCHANGED <<weak, unique, control, arenaVars>>
  BY DEF AdoptAfterReset, IsOnTop, Pop
<1>3. StackMoves(-1) /\ 1 \in 1..Len(stack)
  BY <1>1, <1>2, StackShrinks
<1>4. 1 \in Frames("assign")
  BY <1>2, <1>3 DEF Frames
<1>5. /\ to \in StrongOwners /\ from \in StrongOwners /\ to # from
      /\ strong[to] = NoBlock
      /\ to \in StrongHandles /\ from \in StrongHandles
      /\ to \notin Offsets /\ from \notin Offsets
  <2>1. stack[1] \in AssignFrames
    BY <1>1, <1>2, <1>3, FramesAre
  <2> QED
    BY <1>1, <1>4, <2>1, HandlesAreFinite DEF AssignFrames, FramesSound, StrongHandles
<1>6. strong' = [strong EXCEPT ![to] = strong[from], ![from] = NoBlock]
  BY <1>5 DEF AdoptAfterReset
<1> HIDE DEF to, from
<1>7. /\ strong \in Pointers(StrongHandles) /\ NoBlock \notin Offsets
      /\ IsMoved(strong', strong, to, from)
  BY <1>1, <1>6, HandlesAreFinite DEF MemoryTypeOK, IsMoved
<1>8. /\ strong' \in Pointers(StrongHandles)
      /\ strong'[from] = NoBlock /\ strong'[to] = strong[from]
      /\ \A x \in StrongHandles : x # to /\ x # from => strong'[x] = strong[x]
  BY <1>5, <1>7, Moving
<1>9. ASSUME NEW x \in DOMAIN control PROVE CountsExact(x)'
  <2>1. /\ control[x].strongCount = Cardinality(Holders(StrongHandles, strong, x))
        /\ control[x].weakCount = Cardinality(Holders(WeakHandles, weak, x))
        /\ control[x].strongCount \in Nat
        /\ x # NoBlock
    BY <1>1, BlocksAre
  <2>2. Cardinality(Holders(StrongHandles, strong', x))
           = Cardinality(Holders(StrongHandles, strong, x)) - (IF x = strong[to] THEN 1 ELSE 0)
    BY <1>5, <1>7, <2>1, HandlesAreFinite, PointerIsMoved
  <2>3. Cardinality(Holders(StrongHandles, strong', x)) = control[x].strongCount
    BY <1>5, <2>1, <2>2
  <2> QED
    BY <1>2, <2>1, <2>3 DEF CountsExact, Holders
<1>10. -1 \in {-1, 0, 1} /\ stack[1].kind # "value"
  BY <1>2
<1>11. /\ \A x : (\E i \in Frames("value")' : stack'[i].block = x)
                    <=> (\E i \in Frames("value") : stack[i].block = x)
       /\ \A i, j \in Frames("value")' : stack'[i].block = stack'[j].block => i = j
  BY <1>3, <1>10, ValuesStayOn
<1>12. MemoryTypeOK'
  BY <1>1, <1>2, <1>3, <1>8 DEF MemoryTypeOK, StackMoves
<1>13. BlocksSound'
  <2>1. \A x : HasMembers(x)' <=> HasMembers(x)
    BY <1>2 DEF HasMembers
  <2>2. \A x \in Offsets : strong'[x] = strong[x]
    BY <1>5, <1>8 DEF StrongHandles
  <2>3. \A x \in StrongHandles : strong'[x] # NoBlock => strong'[x] \in DOMAIN control'
    BY <1>1, <1>2, <1>5, <1>8 DEF BlocksSound
  <2>4. \A x \in Offsets : ~HasMembers(x)' => strong'[x] = NoBlock /\ weak'[x] = NoBlock
    BY <1>1, <1>2, <2>1, <2>2 DEF BlocksSound
  <2> QED
    BY <1>1, <1>2, <1>9, <1>11, <2>3, <2>4 DEF BlocksSound
<1>14. FramesSound'
  <2>1. \A i \in Frames("assign")' :
           /\ i \in 1..Len(stack') /\ i - (-1) \in Frames("assign") /\ stack'[i] = stack[i - (-1)]
    <3>1. \A i \in Frames("assign")' :
             \/ i \in 1..(-1)
             \/ i - (-1) \in Frames("assign") /\ stack'[i] = stack[i - (-1)]
      BY <1>1, <1>3, FramesMove
    <3> QED
      BY <3>1 DEF Frames
  <2>2. \A i \in Frames("assign")' :
           /\ {to, from} \cap {stack'[i].to, stack'[i].from} = {}
           /\ stack'[i].to \in StrongHandles
    <3> TAKE i \in Frames("assign")'
    <3>1. i - (-1) # 1 /\ i - (-1) \in Frames("assign") /\ stack'[i] = stack[i - (-1)]
      BY <2>1
    <3>2. stack[i - (-1)] \in AssignFrames
      BY <1>1, <3>1, FramesAre DEF Frames
    <3>3. {stack[1].to, stack[1].from}
             \cap {stack[i - (-1)].to, stack[i - (-1)].from} = {}
      BY <1>1, <1>4, <3>1 DEF FramesSound
    <3> QED
      BY <3>1, <3>2, <3>3 DEF AssignFrames, StrongHandles, to, from
  <2>3. \A i \in Frames("assign")' :
           strong'[stack'[i].to] = NoBlock /\ stack'[i].to # stack'[i].from
    <3> TAKE i \in Frames("assign")'
    <3>1. strong[stack'[i].to] = NoBlock /\ stack'[i].to # stack'[i].from
      BY <1>1, <2>1 DEF FramesSound
    <3>2. stack'[i].to # to /\ stack'[i].to # from
      BY <2>2
    <3> QED
      BY <1>8, <2>2, <3>1, <3>2
  <2>4. \A i, j \in Frames("assign")' : i # j =>
           {stack'[i].to, stack'[i].from} \cap {stack'[j].to, stack'[j].from} = {}
    <3> SUFFICES ASSUME NEW i \in Frames("assign")', NEW j \in Frames("assign")', i # j
                 PROVE  {stack'[i].to, stack'[i].from} \cap {stack'[j].to, stack'[j].from} = {}
      OBVIOUS
    <3>1. i - (-1) # j - (-1)
      BY <2>1
    <3> QED
      BY <1>1, <2>1, <3>1 DEF FramesSound
  <2>5. \A i \in Frames("value")' : stack'[i].block \in DOMAIN control'
    BY <1>1, <1>2, <1>11 DEF FramesSound
  <2> QED
    BY <2>3, <2>4, <2>5 DEF FramesSound
<1> QED
  BY <1>2, <1>3, <1>12, <1>13, <1>14 DEF PointersSound

\* The destructor of one block is not on the stack, or leaves it.
LEMMA DestructorLeaves ==
    ASSUME PointersSound, UNCHANGED strong, NEW b \in DOMAIN control,
           NEW d \in {-1, 0}, StackMoves(d),
           d = 0 => ~control[b].destroying,
           d = -1 => 1 \in Frames("value") /\ stack[1].block = b
    PROVE  /\ \A x : (\E i \in Frames("value")' : stack'[i].block = x)
                        <=> (x # b /\ \E i \in Frames("value") : stack[i].block = x)
           /\ \A i, j \in Frames("value")' : stack'[i].block = stack'[j].block => i = j
           /\ \A i \in Frames("assign")' :
                 strong'[stack'[i].to] = NoBlock /\ stack'[i].to # stack'[i].from
           /\ \A i, j \in Frames("assign")' : i # j =>
                 {stack'[i].to, stack'[i].from} \cap {stack'[j].to, stack'[j].from} = {}
<1>1. MemoryTypeOK /\ BlocksSound /\ FramesSound
  BY DEF PointersSound
<1>2. d \in {-1, 0, 1, 2} /\ d \in {-1, 0, 1}
  OBVIOUS
<1>3. /\ \A i \in Frames("value")' :
            i \in 1..d \/ (i - d \in Frames("value") /\ stack'[i] = stack[i - d])
      /\ \A i \in Frames("value") :
            (d = -1 /\ i = 1) \/ (i + d \in Frames("value")' /\ stack'[i + d] = stack[i])
  BY <1>1, <1>2, FramesMove
<1>4. /\ \A i \in Frames("value")' : i \in Int /\ i >= 1
      /\ \A i \in Frames("value") : i \in Int
      /\ \A i \in 1..d : FALSE
  BY DEF Frames
<1>5. \A i, j \in Frames("value") : stack[i].block = stack[j].block => i = j
  BY <1>1 DEF BlocksSound
<1>6. \A i \in Frames("value")' :
         /\ i - d \in Frames("value") /\ stack'[i] = stack[i - d]
         /\ stack'[i].block # b
  <2> TAKE i \in Frames("value")'
  <2>1. i - d \in Frames("value") /\ stack'[i] = stack[i - d]
    BY <1>3, <1>4
  <2>2. CASE d = 0
    BY <1>1, <2>1, <2>2 DEF BlocksSound
  <2>3. CASE d = -1
    <3>1. i - d # 1
      BY <1>4, <2>3
    <3> QED
      BY <1>5, <2>1, <2>3, <3>1
  <2> QED
    BY <2>1, <2>2, <2>3
<1>7. \A x : (\E i \in Frames("value")' : stack'[i].block = x)
                <=> (x # b /\ \E i \in Frames("value") : stack[i].block = x)
  <2> TAKE x
  <2>1. ASSUME NEW i \in Frames("value"), stack[i].block = x, x # b
        PROVE  \E j \in Frames("value")' : stack'[j].block = x
    <3>1. ~(d = -1 /\ i = 1)
      BY <2>1
    <3> QED
      BY <1>3, <2>1, <3>1
  <2> QED
    BY <1>6, <2>1
<1>8. \A i, j \in Frames("value")' : stack'[i].block = stack'[j].block => i = j
  <2> SUFFICES ASSUME NEW i \in Frames("value")', NEW j \in Frames("value")',
                      stack'[i].block = stack'[j].block
               PROVE  i = j
    OBVIOUS
  <2>1. i - d = j - d
    BY <1>5, <1>6
  <2> QED
    BY <1>4, <2>1
<1>9. d = -1 => stack[1].kind # "assign"
  BY DEF Frames
<1>10. \A i \in Frames("assign")' :
         i \in Int /\ i - d \in Frames("assign") /\ stack'[i] = stack[i - d]
  BY <1>1, <1>2, <1>9, FramesStayOn
<1>11. \A i \in Frames("assign")' :
          strong'[stack'[i].to] = NoBlock /\ stack'[i].to # stack'[i].from
  BY <1>1, <1>10 DEF FramesSound
<1>12. \A i, j \in Frames("assign")' : i # j =>
          {stack'[i].to, stack'[i].from} \cap {stack'[j].to, stack'[j].from} = {}
  <2> SUFFICES ASSUME NEW i \in Frames("assign")', NEW j \in Frames("assign")', i # j
               PROVE  {stack'[i].to, stack'[i].from} \cap {stack'[j].to, stack'[j].from} = {}
    OBVIOUS
  <2>1. i - d # j - d
    BY <1>10
  <2> QED
    BY <1>1, <1>10, <2>1 DEF FramesSound
<1> QED
  BY <1>7, <1>8, <1>11, <1>12

\* A block nobody refers to any more goes back to the arena.
LEMMA BlockLeaves ==
    ASSUME PointersSound, UNCHANGED <<strong, unique>>, NEW b \in DOMAIN control,
           control' = [a \in DOMAIN control \ {b} |-> control[a]],
           control[b].strongCount = 0,
           weak' \in Pointers(WeakHandles),
           \A h \in WeakHandles : weak'[h] # NoBlock => weak'[h] \in DOMAIN control \ {b},
           \A x \in DOMAIN control \ {b} :
               Cardinality(Holders(WeakHandles, weak', x))
                   = Cardinality(Holders(WeakHandles, weak, x)),
           strong[b] = NoBlock, weak'[b] = NoBlock,
           \A x \in Offsets : ~HasMembers(x) => weak'[x] = NoBlock,
           NEW d \in {-1, 0}, StackMoves(d),
           d = 0 => ~control[b].destroying,
           d = -1 => 1 \in Frames("value") /\ stack[1].block = b
    PROVE  PointersSound'
<1>1. MemoryTypeOK /\ BlocksSound /\ FramesSound
  BY DEF PointersSound
<1>2. /\ \A x : (\E i \in Frames("value")' : stack'[i].block = x)
                   <=> (x # b /\ \E i \in Frames("value") : stack[i].block = x)
      /\ \A i, j \in Frames("value")' : stack'[i].block = stack'[j].block => i = j
      /\ \A i \in Frames("assign")' :
            strong'[stack'[i].to] = NoBlock /\ stack'[i].to # stack'[i].from
      /\ \A i, j \in Frames("assign")' : i # j =>
            {stack'[i].to, stack'[i].from} \cap {stack'[j].to, stack'[j].from} = {}
  BY DestructorLeaves
<1>3. /\ DOMAIN control' = DOMAIN control \ {b}
      /\ \A x \in DOMAIN control \ {b} : control'[x] = control[x]
      /\ control \in [DOMAIN control -> SharedBlocks]
      /\ DOMAIN control \subseteq Offsets
  BY <1>1 DEF MemoryTypeOK
<1>4. MemoryTypeOK'
  <2>1. control' \in [DOMAIN control' -> SharedBlocks]
    BY <1>3
  <2> QED
    BY <1>1, <1>3, <2>1 DEF MemoryTypeOK, StackMoves
<1>5. \A h \in StrongHandles : strong'[h] # NoBlock => strong'[h] \in DOMAIN control'
  <2>1. \A h \in StrongHandles : strong[h] # b
    BY <1>1, BlocksAre
  <2> QED
    BY <1>1, <1>3, <2>1 DEF BlocksSound
<1>6. \A h \in WeakHandles : weak'[h] # NoBlock => weak'[h] \in DOMAIN control'
  BY <1>3
<1>7. \A x \in Offsets : ~HasMembers(x)' => strong'[x] = NoBlock /\ weak'[x] = NoBlock
  <2>1. \A x : x # b => (HasMembers(x)' <=> HasMembers(x))
    BY <1>3 DEF HasMembers
  <2> QED
    BY <1>1, <2>1 DEF BlocksSound
<1>8. ASSUME NEW x \in DOMAIN control'
      PROVE  /\ CountsExact(x)'
             /\ control'[x].hasValue <=> control'[x].strongCount # 0
             /\ control'[x].destroying <=> \E i \in Frames("value")' : stack'[i].block = x
             /\ control'[x].destroying => ~control'[x].hasValue
             /\ control'[x].hasValue \/ control'[x].destroying \/ control'[x].weakCount # 0
  <2>1. x \in DOMAIN control \ {b} /\ control'[x] = control[x]
    BY <1>3, <1>8
  <2>2. /\ control[x].strongCount = Cardinality(Holders(StrongHandles, strong, x))
        /\ control[x].weakCount = Cardinality(Holders(WeakHandles, weak, x))
    BY <1>1, <2>1, BlocksAre
  <2>3. CountsExact(x)'
    BY <2>1, <2>2 DEF CountsExact, Holders
  <2>4. control'[x].destroying <=> \E i \in Frames("value")' : stack'[i].block = x
    BY <1>1, <1>2, <2>1 DEF BlocksSound
  <2> QED
    BY <1>1, <2>1, <2>3, <2>4 DEF BlocksSound
<1>9. BlocksSound'
  BY <1>2, <1>5, <1>6, <1>7, <1>8 DEF BlocksSound
<1>10. FramesSound'
  <2>1. ASSUME NEW i \in Frames("value")' PROVE stack'[i].block \in DOMAIN control'
    <3>1. PICK x : x = stack'[i].block
      OBVIOUS
    <3>2. x # b /\ \E j \in Frames("value") : stack[j].block = x
      BY <1>2, <3>1
    <3>3. x \in DOMAIN control
      BY <1>1, <3>2 DEF FramesSound
    <3> QED
      BY <1>3, <3>1, <3>2, <3>3
  <2> QED
    BY <1>2, <2>1 DEF FramesSound
<1> QED
  BY <1>4, <1>9, <1>10 DEF PointersSound

\* What ends a destructor returns to: the block is released, or kept for its observers.
LEMMA ReturningDestructor ==
    ASSUME PointersSound, DestructorReturns
    PROVE  /\ PointersSound' /\ StackMoves(-1) /\ 1 \in 1..Len(stack)
           /\ stack[1].kind = "value" /\ stack[1].block \in DOMAIN control
           /\ \/ DestroySharedControlBlock(stack[1].block)
              \/ /\ DOMAIN control' = DOMAIN control /\ UNCHANGED arenaVars
                 /\ \A x \in DOMAIN control : control'[x].allocation = control[x].allocation
<1> DEFINE b == stack[1].block
<1>1. MemoryTypeOK /\ BlocksSound /\ FramesSound
  BY DEF PointersSound
<1>2. /\ stack # <<>> /\ stack[1].kind = "value" /\ stack' = Tail(stack)
      /\ strong[b] = NoBlock /\ weak[b] = NoBlock
      /\ UNCHANGED <<strong, weak, unique>>
  BY DEF DestructorReturns, IsOnTop, Pop
<1>3. StackMoves(-1) /\ 1 \in 1..Len(stack)
  BY <1>1, <1>2, StackShrinks
<1>4. 1 \in Frames("value")
  BY <1>2, <1>3 DEF Frames
<1>5. b \in DOMAIN control /\ control[b].destroying /\ ~control[b].hasValue
      /\ control[b].strongCount = 0
  BY <1>1, <1>4 DEF FramesSound, BlocksSound
<1>6. /\ strong' = strong /\ weak' = weak /\ weak \in Pointers(WeakHandles)
      /\ \A x \in WeakHandles : weak[x] # NoBlock => weak[x] \in DOMAIN control
      /\ \A x \in Offsets : ~HasMembers(x) => weak[x] = NoBlock
  BY <1>1, <1>2 DEF MemoryTypeOK, BlocksSound
<1>7. CASE control[b].weakCount = 0
  <2>1. DestroySharedControlBlock(b)
    BY <1>7 DEF DestructorReturns
  <2>2. control' = [a \in DOMAIN control \ {b} |-> control[a]]
    BY <2>1 DEF DestroySharedControlBlock
  <2>3. \A x \in WeakHandles : weak[x] # b
    BY <1>1, <1>5, <1>7, BlocksAre
  <2> HIDE DEF b
  <2>4. \A x \in WeakHandles : weak'[x] # NoBlock => weak'[x] \in DOMAIN control \ {b}
    BY <1>6, <2>3
  <2>5. /\ -1 \in {-1, 0}
        /\ -1 = -1 => 1 \in Frames("value") /\ stack[1].block = b
        /\ -1 = 0 => ~control[b].destroying
    BY <1>4 DEF b
  <2>6. weak' \in Pointers(WeakHandles) /\ UNCHANGED <<strong, unique>>
    BY <1>2, <1>6
  <2>7. \A x \in DOMAIN control \ {b} :
           Cardinality(Holders(WeakHandles, weak', x)) = Cardinality(Holders(WeakHandles, weak, x))
    BY <1>6
  <2>8. strong[b] = NoBlock /\ weak'[b] = NoBlock
        /\ \A x \in Offsets : ~HasMembers(x) => weak'[x] = NoBlock
    BY <1>2, <1>6 DEF b
  <2>9. PointersSound'
    BY <1>3, <1>5, <2>2, <2>4, <2>5, <2>6, <2>7, <2>8, BlockLeaves
  <2> QED
    BY <1>2, <1>3, <1>5, <2>1, <2>9 DEF b
<1>8. CASE control[b].weakCount # 0
  <2>1. control' = [control EXCEPT ![b].destroying = FALSE] /\ UNCHANGED arenaVars
    BY <1>8 DEF DestructorReturns
  <2> HIDE DEF b
  <2>2. /\ DOMAIN control' = DOMAIN control
        /\ control' \in [DOMAIN control -> SharedBlocks]
        /\ \A x \in DOMAIN control :
              /\ x # b => control'[x] = control[x]
              /\ control'[x].strongCount = control[x].strongCount
              /\ control'[x].weakCount = control[x].weakCount
              /\ control'[x].hasValue = control[x].hasValue
              /\ control'[x].allocation = control[x].allocation
        /\ ~control'[b].destroying
    <3>1. control \in [DOMAIN control -> SharedBlocks]
      BY <1>1 DEF MemoryTypeOK
    <3>2. \A x \in DOMAIN control : control[x] \in SharedBlocks
      BY <3>1
    <3> QED
      BY <1>5, <2>1, <3>1, <3>2 DEF SharedBlocks
  <2>3. /\ -1 \in {-1, 0} /\ UNCHANGED strong
        /\ -1 = -1 => 1 \in Frames("value") /\ stack[1].block = b
        /\ -1 = 0 => ~control[b].destroying
    BY <1>2, <1>4 DEF b
  <2>4. /\ \A x : (\E i \in Frames("value")' : stack'[i].block = x)
                     <=> (x # b /\ \E i \in Frames("value") : stack[i].block = x)
        /\ \A i, j \in Frames("value")' : stack'[i].block = stack'[j].block => i = j
        /\ \A i \in Frames("assign")' :
              strong'[stack'[i].to] = NoBlock /\ stack'[i].to # stack'[i].from
        /\ \A i, j \in Frames("assign")' : i # j =>
              {stack'[i].to, stack'[i].from} \cap {stack'[j].to, stack'[j].from} = {}
    BY <1>3, <1>5, <2>3, DestructorLeaves
  <2>5. MemoryTypeOK'
    BY <1>1, <1>2, <1>3, <2>2 DEF MemoryTypeOK, StackMoves
  <2>6. FramesSound'
    BY <1>1, <2>2, <2>4 DEF FramesSound
  <2>7. \A x \in Offsets : ~HasMembers(x)' => strong'[x] = NoBlock /\ weak'[x] = NoBlock
    <3>1. \A x : x # b => (HasMembers(x)' <=> HasMembers(x))
      BY <2>2 DEF HasMembers
    <3>2. strong[b] = NoBlock /\ weak[b] = NoBlock
      BY <1>2 DEF b
    <3> QED
      BY <1>1, <1>6, <3>1, <3>2 DEF BlocksSound
  <2>8. ASSUME NEW x \in DOMAIN control
        PROVE  /\ CountsExact(x)'
               /\ control'[x].hasValue <=> control'[x].strongCount # 0
               /\ control'[x].destroying <=> \E i \in Frames("value")' : stack'[i].block = x
               /\ control'[x].destroying => ~control'[x].hasValue
               /\ control'[x].hasValue \/ control'[x].destroying \/ control'[x].weakCount # 0
    <3>1. CountsExact(x)'
      <4>1. CountsExact(x)
        BY <1>1 DEF BlocksSound
      <4>2. /\ control'[x].strongCount = control[x].strongCount
            /\ control'[x].weakCount = control[x].weakCount
        BY <2>2
      <4> QED
        BY <1>6, <4>1, <4>2 DEF CountsExact, Holders
    <3>2. control'[x].hasValue <=> control'[x].strongCount # 0
      BY <1>1, <2>2 DEF BlocksSound
    <3>3. CASE x = b
      <4>1. /\ ~control'[x].destroying /\ ~control'[x].hasValue
            /\ control'[x].weakCount # 0
            /\ ~ \E i \in Frames("value")' : stack'[i].block = x
        BY <1>5, <1>8, <2>2, <2>4, <3>3
      <4> QED
        BY <3>1, <3>2, <4>1
    <3>4. CASE x # b
      <4>1. control'[x].destroying <=> \E i \in Frames("value")' : stack'[i].block = x
        BY <1>1, <2>2, <2>4, <3>4 DEF BlocksSound
      <4>2. /\ control'[x].destroying => ~control'[x].hasValue
            /\ control'[x].hasValue \/ control'[x].destroying \/ control'[x].weakCount # 0
        BY <1>1, <2>2, <3>4 DEF BlocksSound
      <4> QED
        BY <3>1, <3>2, <4>1, <4>2
    <3> QED
      BY <3>3, <3>4
  <2>9. BlocksSound'
    BY <1>1, <1>6, <2>2, <2>4, <2>7, <2>8 DEF BlocksSound
  <2>10. PointersSound'
    BY <2>5, <2>6, <2>9 DEF PointersSound
  <2> QED
    BY <1>2, <1>3, <1>5, <2>1, <2>2, <2>10 DEF b
<1> QED
  BY <1>7, <1>8

\* One weak pointer fewer refers to a block; the last to an expired one releases it.
LEMMA ReleasingWeak ==
    ASSUME PointersSound, UNCHANGED <<strong, unique, stack>>,
           NEW h \in WeakHandles, ReleaseWeak(weak[h]),
           weak' \in Pointers(WeakHandles),
           \A x \in WeakHandles : weak'[x] # NoBlock => weak'[x] \in DOMAIN control,
           \A x \in DOMAIN control :
               Cardinality(Holders(WeakHandles, weak', x))
                   = Cardinality(Holders(WeakHandles, weak, x)) - (IF x = weak[h] THEN 1 ELSE 0),
           \A x \in Offsets : ~HasMembers(x) => weak'[x] = NoBlock
    PROVE  /\ PointersSound'
           /\ \/ weak[h] \in DOMAIN control /\ DestroySharedControlBlock(weak[h])
              \/ /\ DOMAIN control' = DOMAIN control /\ UNCHANGED arenaVars
                 /\ \A x \in DOMAIN control : control'[x].allocation = control[x].allocation
<1> DEFINE b == weak[h]
<1>1. MemoryTypeOK /\ BlocksSound /\ FramesSound
  BY DEF PointersSound
<1>2. control \in [DOMAIN control -> SharedBlocks] /\ DOMAIN control \subseteq Offsets
      /\ strong \in Pointers(StrongHandles)
  BY <1>1 DEF MemoryTypeOK
<1>3. b # NoBlock => b \in DOMAIN control
  BY <1>1 DEF BlocksSound
<1>4. \A x \in DOMAIN control :
         /\ x # NoBlock /\ control[x] \in SharedBlocks
         /\ control[x].strongCount \in Nat /\ control[x].weakCount \in Nat
         /\ control[x].strongCount = Cardinality(Holders(StrongHandles, strong, x))
         /\ control[x].weakCount = Cardinality(Holders(WeakHandles, weak, x))
         /\ control[x].weakCount = 0 <=> \A y \in WeakHandles : weak[y] # x
  BY <1>1, BlocksAre
<1>5. CASE b # NoBlock /\ ReleasesBlock(b)
  <2>1. DestroySharedControlBlock(b)
    BY <1>5 DEF ReleaseWeak
  <2>2. control' = [a \in DOMAIN control \ {b} |-> control[a]]
    BY <2>1 DEF DestroySharedControlBlock
  <2>3. /\ b \in DOMAIN control /\ control[b].weakCount = 1 /\ control[b].strongCount = 0
        /\ ~control[b].destroying /\ ~control[b].hasValue /\ ~HasMembers(b) /\ b \in Offsets
    BY <1>1, <1>2, <1>3, <1>5 DEF ReleasesBlock, BlocksSound, HasMembers
  <2>4. Cardinality(Holders(WeakHandles, weak', b)) = 0
    BY <1>4, <2>3
  <2>5. \A x \in WeakHandles : weak'[x] # b
    BY <2>4, HandlesAreFinite, NoHolders
  <2>6. \A x \in WeakHandles : weak'[x] # NoBlock => weak'[x] \in DOMAIN control \ {b}
    BY <2>5
  <2>7. \A x \in DOMAIN control \ {b} :
           Cardinality(Holders(WeakHandles, weak', x))
              = Cardinality(Holders(WeakHandles, weak, x))
    BY <1>4
  <2>8. strong[b] = NoBlock /\ weak'[b] = NoBlock
    BY <1>1, <2>3 DEF BlocksSound
  <2>9. /\ 0 \in {-1, 0} /\ StackMoves(0) /\ UNCHANGED <<strong, unique>>
        /\ 0 = 0 => ~control[b].destroying
        /\ 0 = -1 => 1 \in Frames("value") /\ stack[1].block = b
    BY <1>1, <2>3, StackStays
  <2> HIDE DEF b
  <2>10. PointersSound'
    BY <2>2, <2>3, <2>6, <2>7, <2>8, <2>9, BlockLeaves
  <2> QED
    BY <2>1, <2>3, <2>10 DEF b
<1>6. CASE b = NoBlock
  <2>1. control' = control /\ UNCHANGED arenaVars
    BY <1>6 DEF ReleaseWeak
  <2>2. ASSUME NEW x \in DOMAIN control
        PROVE  /\ control'[x].hasValue = control[x].hasValue
               /\ control'[x].destroying = control[x].destroying
               /\ control'[x].strongCount = Cardinality(Holders(StrongHandles, strong', x))
               /\ control'[x].weakCount = Cardinality(Holders(WeakHandles, weak', x))
               /\ control'[x].strongCount = 0 <=> control[x].strongCount = 0
               /\ control'[x].weakCount = 0 =>
                     control[x].weakCount = 0 \/ control[x].hasValue \/ control[x].destroying
    BY <1>4, <1>6, <2>1
  <2>3. PointersSound'
    BY <1>1, <1>2, <2>1, <2>2, CountsFollow DEF BlocksSound, FramesSound
  <2> QED
    BY <2>1, <2>3
<1>7. CASE b # NoBlock /\ ~ReleasesBlock(b)
  <2>1. control' = [control EXCEPT ![b].weakCount = @ - 1] /\ UNCHANGED arenaVars
    BY <1>7 DEF ReleaseWeak
  <2>2. b \in DOMAIN control /\ control[b].weakCount \in Nat \ {0}
    BY <1>3, <1>4, <1>7
  <2> HIDE DEF b
  <2>3. /\ DOMAIN control' = DOMAIN control
        /\ control' \in [DOMAIN control -> SharedBlocks]
        /\ \A x \in DOMAIN control :
              /\ control'[x].weakCount = control[x].weakCount - (IF x = b THEN 1 ELSE 0)
              /\ control'[x].strongCount = control[x].strongCount
              /\ control'[x].hasValue = control[x].hasValue
              /\ control'[x].destroying = control[x].destroying
              /\ control'[x].allocation = control[x].allocation
    <3>1. DOMAIN control' = DOMAIN control
      BY <2>1
    <3>2. control[b] \in SharedBlocks
      BY <1>4, <2>2
    <3>3. PICK w \in Nat : w = control[b].weakCount - 1
      BY <2>2
    <3>4. control' = [control EXCEPT ![b] = [control[b] EXCEPT !.weakCount = w]]
      BY <2>1, <3>3
    <3>5. control'[b] = [control[b] EXCEPT !.weakCount = w]
      BY <2>2, <3>4
    <3>6. /\ control'[b] \in SharedBlocks /\ control'[b].weakCount = w
          /\ control'[b].strongCount = control[b].strongCount
          /\ control'[b].hasValue = control[b].hasValue
          /\ control'[b].destroying = control[b].destroying
          /\ control'[b].allocation = control[b].allocation
      BY <3>2, <3>5 DEF SharedBlocks
    <3>7. control' \in [DOMAIN control -> SharedBlocks]
      BY <1>2, <2>2, <3>4, <3>5, <3>6
    <3>8. ASSUME NEW x \in DOMAIN control, x # b
          PROVE  control'[x] = control[x] /\ control[x].weakCount - 0 = control[x].weakCount
      BY <1>4, <3>4, <3>8
    <3> QED
      BY <3>1, <3>3, <3>6, <3>7, <3>8
  <2>4. ASSUME NEW x \in DOMAIN control
        PROVE  /\ control'[x].hasValue = control[x].hasValue
               /\ control'[x].destroying = control[x].destroying
               /\ control'[x].strongCount = Cardinality(Holders(StrongHandles, strong', x))
               /\ control'[x].weakCount = Cardinality(Holders(WeakHandles, weak', x))
               /\ control'[x].strongCount = 0 <=> control[x].strongCount = 0
               /\ control'[x].weakCount = 0 =>
                     control[x].weakCount = 0 \/ control[x].hasValue \/ control[x].destroying
    <3>1. Cardinality(Holders(WeakHandles, weak', x)) = control'[x].weakCount
      BY <1>4, <2>3 DEF b
    <3>2. control'[x].weakCount = 0 =>
             control[x].weakCount = 0 \/ control[x].hasValue \/ control[x].destroying
      <4>1. CASE x = b
        BY <1>1, <1>4, <1>7, <2>3, <4>1 DEF ReleasesBlock, BlocksSound
      <4>2. CASE x # b
        BY <1>4, <2>3, <4>2
      <4> QED
        BY <4>1, <4>2
    <3> QED
      BY <1>4, <2>3, <3>1, <3>2
  <2>5. PointersSound'
    BY <1>1, <1>2, <2>3, <2>4, CountsFollow DEF BlocksSound, FramesSound
  <2> QED
    BY <2>1, <2>3, <2>5
<1> QED
  BY <1>5, <1>6, <1>7

LEMMA ResettingWeak ==
    ASSUME PointersSound, NEW h \in WeakHandles, ResetWeak(h)
    PROVE  /\ PointersSound' /\ UNCHANGED <<unique, stack>>
           /\ \/ weak[h] \in DOMAIN control /\ DestroySharedControlBlock(weak[h])
              \/ /\ DOMAIN control' = DOMAIN control /\ UNCHANGED arenaVars
                 /\ \A x \in DOMAIN control : control'[x].allocation = control[x].allocation
<1>1. MemoryTypeOK /\ BlocksSound
  BY DEF PointersSound
<1>2. weak \in Pointers(WeakHandles) /\ NoBlock \notin Offsets
  BY <1>1, HandlesAreFinite DEF MemoryTypeOK
<1>3. /\ ReleaseWeak(weak[h]) /\ UNCHANGED <<strong, unique, stack>>
      /\ weak' = [weak EXCEPT ![h] = NoBlock]
  BY DEF ResetWeak
<1>4. /\ weak' \in Pointers(WeakHandles)
      /\ \A x \in WeakHandles : weak'[x] = IF x = h THEN NoBlock ELSE weak[x]
  BY <1>2, <1>3 DEF Pointers, Targets
<1>5. ASSUME NEW x \in DOMAIN control
      PROVE  Cardinality(Holders(WeakHandles, weak', x))
                = Cardinality(Holders(WeakHandles, weak, x)) - (IF x = weak[h] THEN 1 ELSE 0)
  <2>1. x # NoBlock
    BY <1>1, BlocksAre
  <2>2. IsSet(weak', weak, h, NoBlock)
    BY <1>3 DEF IsSet
  <2> QED
    BY <1>2, <2>1, <2>2, HandlesAreFinite, PointerIsReset
<1>6. \A x \in WeakHandles : weak'[x] # NoBlock => weak'[x] \in DOMAIN control
  BY <1>1, <1>4 DEF BlocksSound
<1>7. \A x \in Offsets : ~HasMembers(x) => weak'[x] = NoBlock
  BY <1>1, <1>4 DEF BlocksSound, WeakHandles
<1> QED
  BY <1>3, <1>4, <1>5, <1>6, <1>7, ReleasingWeak

LEMMA MovingWeak ==
    ASSUME PointersSound, NEW to \in WeakHandles, NEW from \in WeakHandles,
           MoveAssignWeak(to, from)
    PROVE  /\ PointersSound' /\ UNCHANGED <<unique, stack>>
           /\ \/ weak[to] \in DOMAIN control /\ DestroySharedControlBlock(weak[to])
              \/ /\ DOMAIN control' = DOMAIN control /\ UNCHANGED arenaVars
                 /\ \A x \in DOMAIN control : control'[x].allocation = control[x].allocation
<1>1. MemoryTypeOK /\ BlocksSound
  BY DEF PointersSound
<1>2. weak \in Pointers(WeakHandles) /\ NoBlock \notin Offsets
  BY <1>1, HandlesAreFinite DEF MemoryTypeOK
<1>3. /\ ReleaseWeak(weak[to]) /\ UNCHANGED <<strong, unique, stack>>
      /\ to \in UsableWeak /\ to # from
      /\ weak' = [weak EXCEPT ![to] = weak[from], ![from] = NoBlock]
  BY DEF MoveAssignWeak
<1>4. /\ IsMoved(weak', weak, to, from)
      /\ to \in Offsets => HasMembers(to)
  BY <1>3, HandlesAreFinite DEF IsMoved, UsableWeak
<1>5. /\ weak' \in Pointers(WeakHandles)
      /\ weak'[from] = NoBlock /\ weak'[to] = weak[from]
      /\ \A x \in WeakHandles : x # to /\ x # from => weak'[x] = weak[x]
  <2>1. to # from /\ weak \in Pointers(WeakHandles) /\ IsMoved(weak', weak, to, from)
    BY <1>2, <1>3, <1>4
  <2> QED
    BY <2>1, Moving
<1>6. ASSUME NEW x \in DOMAIN control
      PROVE  Cardinality(Holders(WeakHandles, weak', x))
                = Cardinality(Holders(WeakHandles, weak, x)) - (IF x = weak[to] THEN 1 ELSE 0)
  <2>1. x # NoBlock
    BY <1>1, BlocksAre
  <2> QED
    BY <1>2, <1>3, <1>4, <2>1, HandlesAreFinite, PointerIsMoved
<1>7. \A x \in WeakHandles : weak'[x] # NoBlock => weak'[x] \in DOMAIN control
  BY <1>1, <1>5 DEF BlocksSound
<1>8. \A x \in Offsets : ~HasMembers(x) => weak'[x] = NoBlock
  BY <1>1, <1>4, <1>5 DEF BlocksSound, WeakHandles
<1> QED
  BY <1>3, <1>5, <1>6, <1>7, <1>8, ReleasingWeak

\* A value is born in a block no other is in.
LEMMA MakingShared ==
    ASSUME PointersSound, NEW h \in StrongHandles, MakeShared(h),
           NEW a \in Offsets \ DOMAIN control,
           a = FindAlignedFreeRange(SharedSizeBytes, SharedAlignment),
           [Address |-> a, SizeBytes |-> SharedSizeBytes] \in MemoryBlocks
    PROVE  /\ PointersSound' /\ UNCHANGED <<unique, stack>>
           /\ DOMAIN control' = DOMAIN control \cup {a}
           /\ \A x \in DOMAIN control : control'[x].allocation = control[x].allocation
           /\ control'[a].allocation = [Address |-> a, SizeBytes |-> SharedSizeBytes]
<1>1. MemoryTypeOK /\ BlocksSound /\ FramesSound
  BY DEF PointersSound
<1>2. /\ control \in [DOMAIN control -> SharedBlocks] /\ DOMAIN control \subseteq Offsets
      /\ strong \in Pointers(StrongHandles) /\ weak \in Pointers(WeakHandles)
      /\ NoBlock \notin Offsets
  BY <1>1, HandlesAreFinite DEF MemoryTypeOK
<1>3. /\ h \in UsableStrong /\ strong[h] = NoBlock
      /\ control' = [x \in DOMAIN control \cup {a} |->
                       IF x = a THEN ConstructSharedBlock(a) ELSE control[x]]
      /\ strong' = [strong EXCEPT ![h] = a]
      /\ UNCHANGED <<weak, unique, stack>>
  BY DEF MakeShared
<1>4. /\ h \in Offsets => HasMembers(h)
      /\ \A i \in Frames("assign") : h # stack[i].to
  BY <1>1, <1>3, UsableAre
<1>5. /\ strong' \in Pointers(StrongHandles)
      /\ \A x \in StrongHandles : strong'[x] = IF x = h THEN a ELSE strong[x]
  BY <1>2, <1>3 DEF Pointers, Targets
<1>6. /\ ConstructSharedBlock(a) \in SharedBlocks
      /\ ConstructSharedBlock(a).strongCount = 1 /\ ConstructSharedBlock(a).weakCount = 0
      /\ ConstructSharedBlock(a).hasValue /\ ~ConstructSharedBlock(a).destroying
      /\ ConstructSharedBlock(a).allocation = [Address |-> a, SizeBytes |-> SharedSizeBytes]
  BY DEF ConstructSharedBlock, SharedBlocks
<1>7. /\ DOMAIN control' = DOMAIN control \cup {a} /\ control'[a] = ConstructSharedBlock(a)
      /\ \A x \in DOMAIN control : control'[x] = control[x]
      /\ control' \in [DOMAIN control' -> SharedBlocks]
  BY <1>2, <1>3, <1>6
<1>8. \A kind : Frames(kind)' = Frames(kind)
  BY <1>3 DEF Frames
<1>9. \A x \in StrongHandles : strong[x] # a
  BY <1>1, <1>2 DEF BlocksSound
<1>10. \A x \in WeakHandles : weak[x] # a
  BY <1>1, <1>2 DEF BlocksSound
<1>11. ASSUME NEW x \in DOMAIN control'
       PROVE  /\ control'[x].strongCount = Cardinality(Holders(StrongHandles, strong', x))
              /\ control'[x].weakCount = Cardinality(Holders(WeakHandles, weak', x))
  <2>1. x # NoBlock /\ x \in Offsets
    BY <1>2, <1>7, <1>11
  <2>2. a \in Targets /\ a # NoBlock /\ IsSet(strong', strong, h, a)
    BY <1>2, <1>3 DEF Targets, IsSet
  <2>3. Cardinality(Holders(StrongHandles, strong', x))
           = Cardinality(Holders(StrongHandles, strong, x)) + (IF x = a THEN 1 ELSE 0)
    <3>1. /\ h \in StrongHandles /\ strong[h] = NoBlock /\ IsFiniteSet(StrongHandles)
          /\ strong \in Pointers(StrongHandles)
      BY <1>2, <1>3, HandlesAreFinite
    <3> QED
      BY <2>1, <2>2, <3>1, PointerIsSet
  <2>4. CASE x = a
    <3>1. /\ Cardinality(Holders(StrongHandles, strong, a)) = 0
          /\ Cardinality(Holders(WeakHandles, weak, a)) = 0
      BY <1>9, <1>10, HandlesAreFinite, NoHolders
    <3> QED
      BY <1>3, <1>6, <1>7, <2>3, <2>4, <3>1
  <2>5. CASE x # a
    <3>1. x \in DOMAIN control /\ control'[x] = control[x]
      BY <1>7, <1>11, <2>5
    <3>2. /\ control[x].strongCount = Cardinality(Holders(StrongHandles, strong, x))
          /\ control[x].weakCount = Cardinality(Holders(WeakHandles, weak, x))
          /\ control[x].strongCount \in Nat
      BY <1>1, <3>1, BlocksAre
    <3> QED
      BY <1>3, <2>3, <2>5, <3>1, <3>2
  <2> QED
    BY <2>4, <2>5
<1>12. MemoryTypeOK'
  BY <1>1, <1>3, <1>5, <1>7 DEF MemoryTypeOK
<1>13. FramesSound'
  <2>1. \A i \in Frames("value")' : stack'[i].block \in DOMAIN control'
    BY <1>1, <1>3, <1>7, <1>8 DEF FramesSound
  <2>2. \A i \in Frames("assign")' :
           strong'[stack'[i].to] = NoBlock /\ stack'[i].to # stack'[i].from
    <3> TAKE i \in Frames("assign")'
    <3>0. i \in Frames("assign") /\ stack' = stack
      BY <1>3, <1>8
    <3>1. stack[i].to \in StrongHandles
      BY <1>1, <3>0, FramesAre DEF Frames, AssignFrames, StrongHandles
    <3>2. strong[stack[i].to] = NoBlock /\ stack[i].to # stack[i].from
      BY <1>1, <3>0 DEF FramesSound
    <3> QED
      BY <1>4, <1>5, <3>0, <3>1, <3>2
  <2>3. \A i, j \in Frames("assign")' : i # j =>
           {stack'[i].to, stack'[i].from} \cap {stack'[j].to, stack'[j].from} = {}
    BY <1>1, <1>3, <1>8 DEF FramesSound
  <2> QED
    BY <2>1, <2>2, <2>3 DEF FramesSound
<1>14. BlocksSound'
  <2>1. /\ \A x \in StrongHandles : strong'[x] # NoBlock => strong'[x] \in DOMAIN control'
        /\ \A x \in WeakHandles : weak'[x] # NoBlock => weak'[x] \in DOMAIN control'
    BY <1>1, <1>3, <1>5, <1>7 DEF BlocksSound
  <2>2. \A x \in Offsets : ~HasMembers(x)' => strong'[x] = NoBlock /\ weak'[x] = NoBlock
    <3>1. HasMembers(a)'
      BY <1>6, <1>7 DEF HasMembers
    <3>2. \A x : x # a => (HasMembers(x)' <=> HasMembers(x))
      BY <1>7 DEF HasMembers
    <3>3. \A x \in Offsets : ~HasMembers(x)' => x # h
      BY <1>4, <3>1, <3>2
    <3> QED
      BY <1>1, <1>3, <1>5, <3>1, <3>2, <3>3 DEF BlocksSound, StrongHandles
  <2>3. ASSUME NEW x \in DOMAIN control'
        PROVE  /\ CountsExact(x)'
               /\ control'[x].hasValue <=> control'[x].strongCount # 0
               /\ control'[x].destroying <=> \E i \in Frames("value")' : stack'[i].block = x
               /\ control'[x].destroying => ~control'[x].hasValue
               /\ control'[x].hasValue \/ control'[x].destroying \/ control'[x].weakCount # 0
    <3>1. CountsExact(x)'
      BY <1>11, <2>3 DEF CountsExact, Holders
    <3>2. CASE x = a
      <4>1. ~ \E i \in Frames("value")' : stack'[i].block = a
        BY <1>1, <1>3, <1>8 DEF FramesSound
      <4> QED
        BY <1>6, <1>7, <3>1, <3>2, <4>1
    <3>3. CASE x # a
      <4>1. x \in DOMAIN control /\ control'[x] = control[x]
        BY <1>7, <2>3, <3>3
      <4>2. /\ control[x].hasValue <=> control[x].strongCount # 0
            /\ control[x].destroying => ~control[x].hasValue
            /\ control[x].hasValue \/ control[x].destroying \/ control[x].weakCount # 0
        BY <1>1, <4>1 DEF BlocksSound
      <4>3. control[x].destroying <=> \E i \in Frames("value")' : stack'[i].block = x
        BY <1>1, <1>3, <1>8, <4>1 DEF BlocksSound
      <4> QED
        BY <3>1, <4>1, <4>2, <4>3
    <3> QED
      BY <3>2, <3>3
  <2>4. \A i, j \in Frames("value")' : stack'[i].block = stack'[j].block => i = j
    BY <1>1, <1>3, <1>8 DEF BlocksSound
  <2> QED
    BY <2>1, <2>2, <2>3, <2>4 DEF BlocksSound
<1> QED
  BY <1>3, <1>6, <1>7, <1>12, <1>13, <1>14 DEF PointersSound

-----------------------------------------------------------------------------
(* The owners of the allocations.                                          *)

LEMMA OutstandingIs ==
    /\ Outstanding = SharedAllocations \cup UniqueAllocations \cup DyingAllocations
    /\ Outstanding' = SharedAllocations' \cup UniqueAllocations' \cup DyingAllocations'
  BY DEF Outstanding, SharedAllocations, UniqueAllocations, DyingAllocations

LEMMA SharedAre ==
    ASSUME OwnersApart, NEW b \in DOMAIN control
    PROVE  /\ control[b].allocation = [Address |-> b, SizeBytes |-> SharedSizeBytes]
           /\ control[b].allocation.Address = b
           /\ control[b].allocation \in SharedAllocations
           /\ control[b].allocation \in Outstanding
<1>1. control[b].allocation = [Address |-> b, SizeBytes |-> SharedSizeBytes]
  BY DEF OwnersApart
<1>2. control[b].allocation \in SharedAllocations
  BY DEF SharedAllocations
<1> QED
  BY <1>1, <1>2, OutstandingIs

LEMMA ArenaFollows ==
    ASSUME NEW owned, ArenaHolds(owned)', Outstanding' = owned
    PROVE  ArenaHolds(Outstanding)'
  BY DEF ArenaHolds, MemoryBlocks, LastByte, Bytes, Offsets

LEMMA ArenaStays ==
    ASSUME ArenaHolds(Outstanding), UNCHANGED arenaVars, Outstanding' = Outstanding
    PROVE  ArenaHolds(Outstanding)'
  BY DEF ArenaHolds, MemoryBlocks, LastByte, Bytes, Offsets, arenaVars

\* Frames of unique values where none comes and none goes.
LEMMA DyingStay ==
    ASSUME MemoryTypeOK, NEW d \in {-1, 0, 1, 2}, StackMoves(d),
           Frames("unique")' \cap 1..d = {}, d = -1 => stack[1].kind # "unique"
    PROVE  /\ DyingAllocations' = DyingAllocations
           /\ DyingDiffer => DyingDiffer'
<1>1. /\ \A i \in Frames("unique")' :
            i \in 1..d \/ (i - d \in Frames("unique") /\ stack'[i] = stack[i - d])
      /\ \A i \in Frames("unique") :
            (d = -1 /\ i = 1) \/ (i + d \in Frames("unique")' /\ stack'[i + d] = stack[i])
  BY FramesMove
<1>2. /\ \A i \in Frames("unique")' : i \in Int
      /\ d = -1 => 1 \notin Frames("unique")
  BY DEF Frames
<1>3. /\ \A i \in Frames("unique")' :
            i \in Int /\ i - d \in Frames("unique") /\ stack'[i] = stack[i - d]
      /\ \A i \in Frames("unique") : i + d \in Frames("unique")' /\ stack'[i + d] = stack[i]
  BY <1>1, <1>2
<1>4. DyingAllocations' = DyingAllocations
  <2>1. ASSUME NEW x PROVE x \in DyingAllocations' <=> x \in DyingAllocations
    BY <1>3 DEF DyingAllocations
  <2> QED
    BY <2>1
<1>5. ASSUME DyingDiffer, NEW i \in Frames("unique")', NEW j \in Frames("unique")',
             stack'[i].block = stack'[j].block
      PROVE  i = j
  <2>1. i - d = j - d
    BY <1>3, <1>5 DEF DyingDiffer
  <2> QED
    BY <1>3, <2>1
<1> QED
  BY <1>4, <1>5 DEF DyingDiffer

\* The deleter that is called, and the one that returns.
LEMMA DyingGrows ==
    ASSUME MemoryTypeOK, StackMoves(1), 1 \in 1..Len(stack'), stack'[1].kind = "unique"
    PROVE  /\ DyingAllocations' = DyingAllocations \cup {stack'[1].block}
           /\ DyingDiffer /\ stack'[1].block \notin DyingAllocations => DyingDiffer'
<1>1. 1 \in {-1, 0, 1, 2} /\ (1 # -1)
  OBVIOUS
<1>2. /\ \A i \in Frames("unique")' :
            i \in 1..1 \/ (i - 1 \in Frames("unique") /\ stack'[i] = stack[i - 1])
      /\ \A i \in Frames("unique") :
            (1 = -1 /\ i = 1) \/ (i + 1 \in Frames("unique")' /\ stack'[i + 1] = stack[i])
  BY <1>1, FramesMove
<1>3. /\ \A i \in Frames("unique")' :
            i \in Int /\ (i = 1 \/ (i - 1 \in Frames("unique") /\ stack'[i] = stack[i - 1]))
      /\ \A i \in Frames("unique") : i + 1 \in Frames("unique")' /\ stack'[i + 1] = stack[i]
      /\ 1 \in Frames("unique")'
  BY <1>2 DEF Frames
<1>4. ASSUME NEW x
      PROVE  x \in DyingAllocations' <=> x \in DyingAllocations \/ x = stack'[1].block
  BY <1>3 DEF DyingAllocations
<1>5. ASSUME DyingDiffer, stack'[1].block \notin DyingAllocations,
             NEW i \in Frames("unique")', NEW j \in Frames("unique")',
             stack'[i].block = stack'[j].block
      PROVE  i = j
  <2>1. \A k \in Frames("unique") : stack[k].block # stack'[1].block
    BY <1>5 DEF DyingAllocations
  <2>2. CASE i = 1 \/ j = 1
    BY <1>3, <1>5, <2>1, <2>2
  <2>3. CASE i # 1 /\ j # 1
    <3>1. PICK k \in Frames("unique") : k = i - 1 /\ stack'[i] = stack[k]
      BY <1>3, <2>3
    <3>2. PICK l \in Frames("unique") : l = j - 1 /\ stack'[j] = stack[l]
      BY <1>3, <2>3
    <3>3. k = l
      BY <1>5, <3>1, <3>2 DEF DyingDiffer
    <3>4. i \in Int /\ j \in Int
      BY <1>3
    <3> QED
      BY <3>1, <3>2, <3>3, <3>4
  <2> QED
    BY <2>2, <2>3
<1>6. DyingAllocations' = DyingAllocations \cup {stack'[1].block}
  BY <1>4
<1> QED
  BY <1>5, <1>6 DEF DyingDiffer

LEMMA DyingShrinks ==
    ASSUME MemoryTypeOK, StackMoves(-1), 1 \in 1..Len(stack), stack[1].kind = "unique",
           DyingDiffer
    PROVE  /\ DyingAllocations' = DyingAllocations \ {stack[1].block}
           /\ DyingDiffer' /\ stack[1].block \in DyingAllocations
<1>1. -1 \in {-1, 0, 1, 2}
  OBVIOUS
<1>2. /\ \A i \in Frames("unique")' :
            i \in 1..(-1) \/ (i - (-1) \in Frames("unique") /\ stack'[i] = stack[i - (-1)])
      /\ \A i \in Frames("unique") :
            (-1 = -1 /\ i = 1) \/ (i + (-1) \in Frames("unique")' /\ stack'[i + (-1)] = stack[i])
  BY <1>1, FramesMove
<1>3. /\ \A i \in Frames("unique")' :
            /\ i \in Int /\ i - (-1) # 1
            /\ i - (-1) \in Frames("unique") /\ stack'[i] = stack[i - (-1)]
      /\ \A i \in Frames("unique") :
            i = 1 \/ (i + (-1) \in Frames("unique")' /\ stack'[i + (-1)] = stack[i])
      /\ 1 \in Frames("unique")
  BY <1>2 DEF Frames
<1>4. \A i \in Frames("unique") : i # 1 => stack[i].block # stack[1].block
  BY <1>3 DEF DyingDiffer
<1>5. ASSUME NEW x
      PROVE  x \in DyingAllocations' <=> x \in DyingAllocations /\ x # stack[1].block
  BY <1>3, <1>4 DEF DyingAllocations
<1>6. ASSUME NEW i \in Frames("unique")', NEW j \in Frames("unique")',
             stack'[i].block = stack'[j].block
      PROVE  i = j
  <2>1. PICK k \in Frames("unique") : k = i - (-1) /\ stack'[i] = stack[k]
    BY <1>3
  <2>2. PICK l \in Frames("unique") : l = j - (-1) /\ stack'[j] = stack[l]
    BY <1>3
  <2>3. k = l
    BY <1>6, <2>1, <2>2 DEF DyingDiffer
  <2>4. i \in Int /\ j \in Int
    BY <1>3
  <2> QED
    BY <2>1, <2>2, <2>3, <2>4
<1>7. DyingAllocations' = DyingAllocations \ {stack[1].block}
  BY <1>5
<1> QED
  BY <1>3, <1>6, <1>7 DEF DyingDiffer, DyingAllocations

\* Nothing is taken and nothing given back.
LEMMA OwnersStay ==
    ASSUME OwnersApart, ArenaHolds(Outstanding), UNCHANGED <<unique, arenaVars>>,
           DOMAIN control' = DOMAIN control,
           \A x \in DOMAIN control : control'[x].allocation = control[x].allocation,
           DyingAllocations' = DyingAllocations, DyingDiffer => DyingDiffer'
    PROVE  OwnersApart' /\ ArenaHolds(Outstanding)'
<1>1. SharedAllocations' = SharedAllocations
  BY DEF SharedAllocations
<1>2. UniqueAllocations' = UniqueAllocations /\ (UniqueDiffer' <=> UniqueDiffer)
  BY DEF UniqueAllocations, UniqueDiffer
<1>3. OwnersApart'
  BY <1>1, <1>2 DEF OwnersApart
<1>4. Outstanding' = Outstanding
  BY <1>1, <1>2, OutstandingIs
<1> QED
  BY <1>3, <1>4, ArenaStays

\* A block goes back to the arena.
LEMMA BlockReturns ==
    ASSUME MemoryTypeOK, OwnersApart, ArenaHolds(Outstanding), UNCHANGED unique,
           NEW b \in DOMAIN control, DestroySharedControlBlock(b),
           DyingAllocations' = DyingAllocations, DyingDiffer => DyingDiffer'
    PROVE  OwnersApart' /\ ArenaHolds(Outstanding)'
<1>0. PICK x : x = control[b].allocation
  OBVIOUS
<1>1. PICK owned : owned = Outstanding
  OBVIOUS
<1>2. x \in Outstanding /\ x \in SharedAllocations /\ Deallocate(x)
      /\ control' = [a \in DOMAIN control \ {b} |-> control[a]]
  BY <1>0, SharedAre DEF DestroySharedControlBlock
<1>3. ArenaHolds(owned \ {x})'
  <2>1. ArenaHolds(owned) /\ x \in owned
    BY <1>1, <1>2
  <2> QED
    BY <1>2, <2>1, DeallocationTakes
<1>4. /\ DOMAIN control' = DOMAIN control \ {b}
      /\ \A a \in DOMAIN control \ {b} : control'[a] = control[a] /\ control[a].allocation # x
  <2>1. /\ \A a \in DOMAIN control \ {b} : control[a].allocation.Address = a
        /\ x.Address = b
    BY <1>0, SharedAre
  <2> QED
    BY <1>2, <2>1
<1>5. SharedAllocations' = SharedAllocations \ {x}
  <2>1. ASSUME NEW y PROVE y \in SharedAllocations' <=> y \in SharedAllocations /\ y # x
    BY <1>0, <1>4 DEF SharedAllocations
  <2> QED
    BY <2>1
<1>6. UniqueAllocations' = UniqueAllocations /\ (UniqueDiffer' <=> UniqueDiffer)
  BY DEF UniqueAllocations, UniqueDiffer
<1>7. /\ x \notin UniqueAllocations /\ x \notin DyingAllocations
      /\ UniqueDiffer /\ DyingDiffer
  BY <1>2 DEF OwnersApart
<1>8. Outstanding' = owned \ {x}
  BY <1>1, <1>5, <1>6, <1>7, OutstandingIs
<1>9. OwnersApart'
  <2>1. \A a \in DOMAIN control' :
           control'[a].allocation = [Address |-> a, SizeBytes |-> SharedSizeBytes]
    BY <1>4, SharedAre
  <2> QED
    BY <1>5, <1>6, <1>7, <2>1 DEF OwnersApart
<1> QED
  BY <1>3, <1>8, <1>9, ArenaFollows

\* A block is taken from the arena.
LEMMA BlockTaken ==
    ASSUME PointersSound, OwnersApart, ArenaHolds(Outstanding),
           NEW h \in StrongHandles, MakeShared(h)
    PROVE  PointersSound' /\ OwnersApart' /\ ArenaHolds(Outstanding)'
<1>1. PICK owned : owned = Outstanding
  OBVIOUS
<1>2. /\ SharedSizeBytes \in Nat \ {0}
      /\ CanAllocate(SharedSizeBytes, SharedAlignment)
      /\ CommitAllocation(FindAlignedFreeRange(SharedSizeBytes, SharedAlignment), SharedSizeBytes)
  BY PointerAssumption DEF MakeShared
<1>3. PICK a \in Offsets :
         /\ a = FindAlignedFreeRange(SharedSizeBytes, SharedAlignment)
         /\ [Address |-> a, SizeBytes |-> SharedSizeBytes] \in MemoryBlocks
         /\ ArenaHolds(owned \cup {[Address |-> a, SizeBytes |-> SharedSizeBytes]})'
         /\ \A y \in owned : y.Address # a
  <2>1. ArenaHolds(owned)
    BY <1>1
  <2> QED
    BY <1>2, <2>1, AllocationAdds
<1> DEFINE x == [Address |-> a, SizeBytes |-> SharedSizeBytes]
<1>4. x.Address = a
  OBVIOUS
<1>5. a \notin DOMAIN control
  <2>1. \A b \in DOMAIN control : control[b].allocation \in owned /\ control[b].allocation.Address = b
    BY <1>1, SharedAre
  <2> QED
    BY <1>3, <2>1
<1>6. /\ PointersSound' /\ UNCHANGED <<unique, stack>>
      /\ DOMAIN control' = DOMAIN control \cup {a}
      /\ \A b \in DOMAIN control : control'[b].allocation = control[b].allocation
      /\ control'[a].allocation = x
  BY <1>3, <1>5, MakingShared
<1>7. x \notin owned
  BY <1>3, <1>4
<1>8. \A b \in DOMAIN control' :
         control'[b].allocation = [Address |-> b, SizeBytes |-> SharedSizeBytes]
  BY <1>6, SharedAre
<1> HIDE DEF x
<1>9. SharedAllocations' = SharedAllocations \cup {x}
  <2>1. ASSUME NEW y PROVE y \in SharedAllocations' <=> y \in SharedAllocations \/ y = x
    BY <1>6 DEF SharedAllocations
  <2> QED
    BY <2>1
<1>10. /\ UniqueAllocations' = UniqueAllocations /\ (UniqueDiffer' <=> UniqueDiffer)
       /\ DyingAllocations' = DyingAllocations /\ (DyingDiffer' <=> DyingDiffer)
  BY <1>6 DEF UniqueAllocations, UniqueDiffer, DyingAllocations, DyingDiffer, Frames
<1>11. x \notin UniqueAllocations /\ x \notin DyingAllocations
  BY <1>1, <1>7, OutstandingIs
<1>12. OwnersApart'
  BY <1>8, <1>9, <1>10, <1>11 DEF OwnersApart
<1>13. Outstanding' = owned \cup {x}
  BY <1>1, <1>9, <1>10, OutstandingIs
<1>14. ArenaHolds(owned \cup {x})'
  BY <1>3 DEF x
<1> QED
  BY <1>6, <1>12, <1>13, <1>14, ArenaFollows

\* A unique value is made, lets go of by its pointer, and is gone when the deleter returns.
LEMMA MakingUnique ==
    ASSUME PointersSound, OwnersApart, ArenaHolds(Outstanding),
           NEW u \in UniqueOwners, MakeUnique(u)
    PROVE  PointersSound' /\ OwnersApart' /\ ArenaHolds(Outstanding)'
<1>1. PICK owned : owned = Outstanding
  OBVIOUS
<1>2. /\ UniqueSizeBytes \in Nat \ {0} /\ unique[u] = NoBlock
      /\ CanAllocate(UniqueSizeBytes, UniqueAlignment)
      /\ CommitAllocation(FindAlignedFreeRange(UniqueSizeBytes, UniqueAlignment), UniqueSizeBytes)
      /\ unique' = [unique EXCEPT ![u] =
                      [Address |-> FindAlignedFreeRange(UniqueSizeBytes, UniqueAlignment),
                       SizeBytes |-> UniqueSizeBytes]]
      /\ UNCHANGED <<strong, weak, control, stack>>
  BY PointerAssumption DEF MakeUnique
<1>3. PICK a \in Offsets :
         /\ a = FindAlignedFreeRange(UniqueSizeBytes, UniqueAlignment)
         /\ [Address |-> a, SizeBytes |-> UniqueSizeBytes] \in MemoryBlocks
         /\ ArenaHolds(owned \cup {[Address |-> a, SizeBytes |-> UniqueSizeBytes]})'
         /\ \A y \in owned : y.Address # a
  <2>1. ArenaHolds(owned)
    BY <1>1
  <2> QED
    BY <1>2, <2>1, AllocationAdds
<1>4. PICK x : x = [Address |-> a, SizeBytes |-> UniqueSizeBytes]
  OBVIOUS
<1>5. /\ x.Address = a /\ x \in MemoryBlocks /\ x # NoBlock
      /\ ArenaHolds(owned \cup {x})' /\ x \notin owned
      /\ unique' = [unique EXCEPT ![u] = x]
  <2>1. x.Address = a
    BY <1>4
  <2> QED
    BY <1>2, <1>3, <1>4, <2>1, PointerAssumption
<1>6. MemoryTypeOK /\ unique \in [UniqueOwners -> MemoryBlocks \cup {NoBlock}]
  BY DEF PointersSound, MemoryTypeOK
<1>7. /\ unique' \in [UniqueOwners -> MemoryBlocks \cup {NoBlock}] /\ unique'[u] = x
      /\ \A v \in UniqueOwners : v # u => unique'[v] = unique[v]
  BY <1>5, <1>6
<1>8. PointersSound'
  <2>1. 0 \in {-1, 0, 1} /\ StackMoves(0) /\ 0 # 1 /\ 0 # -1
    BY <1>2, <1>6, StackStays
  <2> QED
    BY <1>2, <1>7, <2>1, OnlyUniqueMoves
<1>9. UniqueAllocations' = UniqueAllocations \cup {x}
  <2>1. ASSUME NEW y PROVE y \in UniqueAllocations' <=> y \in UniqueAllocations \/ y = x
    BY <1>2, <1>5, <1>7 DEF UniqueAllocations
  <2> QED
    BY <2>1
<1>10. /\ SharedAllocations' = SharedAllocations
       /\ DyingAllocations' = DyingAllocations /\ (DyingDiffer' <=> DyingDiffer)
  BY <1>2 DEF SharedAllocations, DyingAllocations, DyingDiffer, Frames
<1>11. x \notin SharedAllocations /\ x \notin DyingAllocations /\ x \notin UniqueAllocations
  BY <1>1, <1>5, OutstandingIs
<1>12. UniqueDiffer'
  <2>1. \A v \in UniqueOwners : v # u => unique[v] # x
    BY <1>5, <1>11 DEF UniqueAllocations
  <2> QED
    BY <1>7, <2>1 DEF OwnersApart, UniqueDiffer
<1>13. OwnersApart'
  <2>1. \A b \in DOMAIN control' :
           control'[b].allocation = [Address |-> b, SizeBytes |-> SharedSizeBytes]
    BY <1>2, SharedAre
  <2> QED
    BY <1>9, <1>10, <1>11, <1>12, <2>1 DEF OwnersApart
<1>14. Outstanding' = owned \cup {x}
  BY <1>1, <1>9, <1>10, OutstandingIs
<1> QED
  BY <1>5, <1>8, <1>13, <1>14, ArenaFollows

\* The deleter is called with what the pointer lets go of.
LEMMA DeleterIsCalled ==
    ASSUME PointersSound, OwnersApart, ArenaHolds(Outstanding),
           NEW u \in UniqueOwners, unique[u] # NoBlock, NEW from \in UniqueOwners,
           UNCHANGED <<strong, weak, control, arenaVars>>,
           Push(UniqueFrame(u, from)),
           unique' \in [UniqueOwners -> MemoryBlocks \cup {NoBlock}],
           UniqueAllocations' = UniqueAllocations \ {unique[u]}, UniqueDiffer'
    PROVE  PointersSound' /\ OwnersApart' /\ ArenaHolds(Outstanding)'
<1>1. MemoryTypeOK /\ unique \in [UniqueOwners -> MemoryBlocks \cup {NoBlock}]
  BY DEF PointersSound, MemoryTypeOK
<1>2. PICK f : f = UniqueFrame(u, from)
  OBVIOUS
<1>3. f \in StackFrames /\ f.kind = "unique" /\ f.block = unique[u]
  BY <1>1, <1>2 DEF UniqueFrame, StackFrames, UniqueFrames
<1>4. stack' = <<f>> \o stack
  BY <1>2 DEF Push
<1>5. StackMoves(1) /\ stack'[1] = f /\ 1 \in 1..Len(stack')
  <2>1. StackMoves(1) /\ stack'[1] = f /\ Len(stack') = Len(stack) + 1
    BY <1>1, <1>3, <1>4, StackGrows
  <2>2. Len(stack) \in Nat
    BY <1>1 DEF MemoryTypeOK
  <2> QED
    BY <2>1, <2>2
<1>6. PointersSound'
  <2>1. 1 \in {-1, 0, 1} /\ stack'[1].kind = "unique" /\ 1 # -1
    BY <1>3, <1>5
  <2> QED
    BY <1>5, <2>1, OnlyUniqueMoves
<1>7. unique[u] \in UniqueAllocations
  BY DEF UniqueAllocations
<1>8. unique[u] \notin DyingAllocations /\ unique[u] \notin SharedAllocations /\ DyingDiffer
  BY <1>7 DEF OwnersApart
<1>9. DyingAllocations' = DyingAllocations \cup {unique[u]} /\ DyingDiffer'
  <2>1. stack'[1].kind = "unique" /\ stack'[1].block = unique[u]
    BY <1>3, <1>5
  <2> QED
    BY <1>1, <1>5, <1>8, <2>1, DyingGrows
<1>10. SharedAllocations' = SharedAllocations
  BY DEF SharedAllocations
<1>11. OwnersApart'
  <2>1. \A b \in DOMAIN control' :
           control'[b].allocation = [Address |-> b, SizeBytes |-> SharedSizeBytes]
    BY SharedAre
  <2>2. /\ SharedAllocations \cap UniqueAllocations = {}
        /\ SharedAllocations \cap DyingAllocations = {}
        /\ UniqueAllocations \cap DyingAllocations = {}
    BY DEF OwnersApart
  <2>3. /\ SharedAllocations' \cap UniqueAllocations' = {}
        /\ SharedAllocations' \cap DyingAllocations' = {}
        /\ UniqueAllocations' \cap DyingAllocations' = {}
    BY <1>8, <1>9, <1>10, <2>2
  <2> QED
    BY <1>9, <2>1, <2>3 DEF OwnersApart
<1>12. Outstanding' = Outstanding
  BY <1>7, <1>9, <1>10, OutstandingIs
<1> QED
  BY <1>6, <1>11, <1>12, ArenaStays

LEMMA ResettingUnique ==
    ASSUME PointersSound, OwnersApart, ArenaHolds(Outstanding),
           NEW u \in UniqueOwners, ResetUnique(u)
    PROVE  PointersSound' /\ OwnersApart' /\ ArenaHolds(Outstanding)'
<1>1. unique \in [UniqueOwners -> MemoryBlocks \cup {NoBlock}] /\ UniqueDiffer
  BY DEF PointersSound, MemoryTypeOK, OwnersApart
<1>2. /\ unique[u] # NoBlock /\ unique' = [unique EXCEPT ![u] = NoBlock]
      /\ Push(UniqueFrame(u, u))
      /\ UNCHANGED <<strong, weak, control, arenaVars>>
  BY DEF ResetUnique
<1>3. /\ unique' \in [UniqueOwners -> MemoryBlocks \cup {NoBlock}] /\ unique'[u] = NoBlock
      /\ \A v \in UniqueOwners : v # u => unique'[v] = unique[v]
  BY <1>1, <1>2
<1>4. UniqueAllocations' = UniqueAllocations \ {unique[u]}
  <2>1. ASSUME NEW y PROVE y \in UniqueAllocations' <=> y \in UniqueAllocations /\ y # unique[u]
    BY <1>1, <1>2, <1>3 DEF UniqueAllocations, UniqueDiffer
  <2> QED
    BY <2>1
<1>5. UniqueDiffer'
  BY <1>1, <1>3 DEF UniqueDiffer
<1> QED
  BY <1>2, <1>3, <1>4, <1>5, DeleterIsCalled

LEMMA MovingUnique ==
    ASSUME PointersSound, OwnersApart, ArenaHolds(Outstanding),
           NEW to \in UniqueOwners, NEW from \in UniqueOwners, MoveAssignUnique(to, from)
    PROVE  PointersSound' /\ OwnersApart' /\ ArenaHolds(Outstanding)'
<1>1. /\ unique \in [UniqueOwners -> MemoryBlocks \cup {NoBlock}] /\ UniqueDiffer
      /\ MemoryTypeOK
  BY DEF PointersSound, MemoryTypeOK, OwnersApart
<1>2. /\ to # from
      /\ unique' = [unique EXCEPT ![to] = unique[from], ![from] = NoBlock]
      /\ unique[to] = NoBlock => UNCHANGED stack
      /\ unique[to] # NoBlock => Push(UniqueFrame(to, from))
      /\ UNCHANGED <<strong, weak, control, arenaVars>>
  BY DEF MoveAssignUnique
<1>3. /\ unique' \in [UniqueOwners -> MemoryBlocks \cup {NoBlock}]
      /\ unique'[from] = NoBlock /\ unique'[to] = unique[from]
      /\ \A v \in UniqueOwners : v # to /\ v # from => unique'[v] = unique[v]
  BY <1>1, <1>2
<1>4. UniqueAllocations' = UniqueAllocations \ {unique[to]}
  <2>1. ASSUME NEW y PROVE y \in UniqueAllocations' <=> y \in UniqueAllocations /\ y # unique[to]
    <3>1. ASSUME y \in UniqueAllocations' PROVE y \in UniqueAllocations /\ y # unique[to]
      <4>1. PICK v \in UniqueOwners : unique'[v] # NoBlock /\ y = unique'[v]
        BY <3>1 DEF UniqueAllocations
      <4>2. v # from
        BY <1>3, <4>1
      <4>3. PICK w \in UniqueOwners : unique[w] = y /\ w # to
        BY <1>2, <1>3, <4>1, <4>2
      <4> QED
        BY <1>1, <4>1, <4>3 DEF UniqueAllocations, UniqueDiffer
    <3>2. ASSUME y \in UniqueAllocations, y # unique[to] PROVE y \in UniqueAllocations'
      <4>1. PICK v \in UniqueOwners : unique[v] # NoBlock /\ y = unique[v] /\ v # to
        BY <3>2 DEF UniqueAllocations
      <4>2. PICK w \in UniqueOwners : unique'[w] = y
        BY <1>3, <4>1
      <4> QED
        BY <4>1, <4>2 DEF UniqueAllocations
    <3> QED
      BY <3>1, <3>2
  <2> QED
    BY <2>1
<1>5. UniqueDiffer'
  BY <1>1, <1>2, <1>3 DEF UniqueDiffer
<1>6. CASE unique[to] # NoBlock
  BY <1>2, <1>3, <1>4, <1>5, <1>6, DeleterIsCalled
<1>7. CASE unique[to] = NoBlock
  <2>1. 0 \in {-1, 0, 1} /\ StackMoves(0) /\ 0 # 1 /\ 0 # -1 /\ stack' = stack
    BY <1>1, <1>2, <1>7, StackStays
  <2>2. PointersSound'
    BY <1>2, <1>3, <2>1, OnlyUniqueMoves
  <2>3. NoBlock \notin UniqueAllocations
    BY DEF UniqueAllocations
  <2>4. /\ UniqueAllocations' = UniqueAllocations /\ SharedAllocations' = SharedAllocations
        /\ DyingAllocations' = DyingAllocations /\ (DyingDiffer' <=> DyingDiffer)
    BY <1>2, <1>4, <1>7, <2>1, <2>3
       DEF SharedAllocations, DyingAllocations, DyingDiffer, Frames
  <2>5. \A b \in DOMAIN control' :
           control'[b].allocation = [Address |-> b, SizeBytes |-> SharedSizeBytes]
    BY <1>2, SharedAre
  <2>6. OwnersApart'
    BY <1>5, <2>4, <2>5 DEF OwnersApart
  <2>7. Outstanding' = Outstanding
    BY <2>4, OutstandingIs
  <2> QED
    BY <1>2, <2>2, <2>6, <2>7, ArenaStays
<1> QED
  BY <1>6, <1>7

LEMMA ReturningDeleter ==
    ASSUME PointersSound, OwnersApart, ArenaHolds(Outstanding), DeleterReturns
    PROVE  PointersSound' /\ OwnersApart' /\ ArenaHolds(Outstanding)'
<1>1. MemoryTypeOK /\ unique \in [UniqueOwners -> MemoryBlocks \cup {NoBlock}] /\ DyingDiffer
  BY DEF PointersSound, MemoryTypeOK, OwnersApart
<1>2. PICK owned : owned = Outstanding
  OBVIOUS
<1>3. PICK x : x = stack[1].block
  OBVIOUS
<1>4. /\ stack # <<>> /\ stack[1].kind = "unique" /\ stack' = Tail(stack)
      /\ Deallocate(x) /\ UNCHANGED <<strong, weak, unique, control>>
  BY <1>3 DEF DeleterReturns, IsOnTop, Pop
<1>5. StackMoves(-1) /\ 1 \in 1..Len(stack)
  BY <1>1, <1>4, StackShrinks
<1>6. PointersSound'
  <2>1. -1 \in {-1, 0, 1} /\ -1 # 1
    OBVIOUS
  <2>2. unique' \in [UniqueOwners -> MemoryBlocks \cup {NoBlock}]
        /\ UNCHANGED <<strong, weak, control>>
    BY <1>1, <1>4
  <2> QED
    BY <1>4, <1>5, <2>1, <2>2, OnlyUniqueMoves
<1>7. DyingAllocations' = DyingAllocations \ {x} /\ DyingDiffer' /\ x \in DyingAllocations
  BY <1>1, <1>3, <1>4, <1>5, DyingShrinks
<1>8. x \in owned /\ ArenaHolds(owned \ {x})'
  <2>1. ArenaHolds(owned) /\ x \in owned
    BY <1>2, <1>7, OutstandingIs
  <2> QED
    BY <1>4, <2>1, DeallocationTakes
<1>9. /\ SharedAllocations' = SharedAllocations /\ UniqueAllocations' = UniqueAllocations
      /\ (UniqueDiffer' <=> UniqueDiffer)
  BY <1>4 DEF SharedAllocations, UniqueAllocations, UniqueDiffer
<1>10. /\ SharedAllocations \cap UniqueAllocations = {}
       /\ SharedAllocations \cap DyingAllocations = {}
       /\ UniqueAllocations \cap DyingAllocations = {}
       /\ UniqueDiffer
  BY DEF OwnersApart
<1>11. OwnersApart'
  <2>1. \A b \in DOMAIN control' :
           control'[b].allocation = [Address |-> b, SizeBytes |-> SharedSizeBytes]
    BY <1>4, SharedAre
  <2>2. /\ SharedAllocations' \cap UniqueAllocations' = {}
        /\ SharedAllocations' \cap DyingAllocations' = {}
        /\ UniqueAllocations' \cap DyingAllocations' = {}
    BY <1>7, <1>9, <1>10
  <2> QED
    BY <1>7, <1>9, <1>10, <2>1, <2>2 DEF OwnersApart
<1>12. Outstanding' = owned \ {x}
  BY <1>2, <1>7, <1>9, <1>10, OutstandingIs
<1> QED
  BY <1>6, <1>8, <1>11, <1>12, ArenaFollows

-----------------------------------------------------------------------------
(* Every step.                                                             *)

\* A step that leaves the allocations and their owners alone.
LEMMA PointersOnly ==
    ASSUME PointersSound, OwnersApart, ArenaHolds(Outstanding),
           UNCHANGED <<unique, stack, arenaVars>>, DOMAIN control' = DOMAIN control,
           \A x \in DOMAIN control : control'[x].allocation = control[x].allocation
    PROVE  OwnersApart' /\ ArenaHolds(Outstanding)'
<1>1. DyingAllocations' = DyingAllocations /\ (DyingDiffer => DyingDiffer')
  BY DEF DyingAllocations, DyingDiffer, Frames
<1> QED
  BY <1>1, OwnersStay

LEMMA CountsOnly ==
    ASSUME MemoryTypeOK, NEW b,
           \/ control' = control
           \/ control' = [control EXCEPT ![b].strongCount = @ + 1]
           \/ control' = [control EXCEPT ![b].strongCount = @ - 1]
           \/ control' = [control EXCEPT ![b].weakCount = @ + 1]
    PROVE  /\ DOMAIN control' = DOMAIN control
           /\ \A x \in DOMAIN control : control'[x].allocation = control[x].allocation
<1>1. \A x \in DOMAIN control : control[x] \in SharedBlocks
  BY DEF MemoryTypeOK
<1> QED
  BY <1>1 DEF SharedBlocks

LEMMA SharingKeeps ==
    ASSUME PointersSound, OwnersApart, ArenaHolds(Outstanding),
           NEW h, NEW b, AdoptStrong(h, b) \/ AdoptWeak(h, b)
    PROVE  OwnersApart' /\ ArenaHolds(Outstanding)'
<1>1. /\ DOMAIN control' = DOMAIN control
      /\ \A x \in DOMAIN control : control'[x].allocation = control[x].allocation
  BY CountsOnly DEF PointersSound, AdoptStrong, AdoptWeak
<1>2. UNCHANGED <<unique, stack, arenaVars>>
  BY DEF AdoptStrong, AdoptWeak
<1> QED
  BY <1>1, <1>2, PointersOnly

LEMMA LettingGoKeeps ==
    ASSUME PointersSound, OwnersApart, ArenaHolds(Outstanding),
           NEW h, OneOwnerLess(h), UNCHANGED <<unique, stack, arenaVars>>
    PROVE  OwnersApart' /\ ArenaHolds(Outstanding)'
<1>1. /\ DOMAIN control' = DOMAIN control
      /\ \A x \in DOMAIN control : control'[x].allocation = control[x].allocation
  BY CountsOnly DEF PointersSound, OneOwnerLess
<1> QED
  BY <1>1, PointersOnly

LEMMA DestroyingKeeps ==
    ASSUME PointersSound, OwnersApart, ArenaHolds(Outstanding),
           NEW h \in UsableStrong, IsLastOwner(h), NEW below,
           DestroyValueInPlace(h, below), UNCHANGED <<weak, unique, arenaVars>>,
           ReturnsTo(h, below)
    PROVE  PointersSound' /\ OwnersApart' /\ ArenaHolds(Outstanding)'
<1>1. PointersSound' /\ AllocationsStay /\ OtherFramesCome
  BY DestroyingValue
<1>2. PICK d \in {1, 2} : StackMoves(d) /\ Frames("unique")' \cap 1..d = {}
  BY <1>1 DEF OtherFramesCome
<1>3. DyingAllocations' = DyingAllocations /\ (DyingDiffer => DyingDiffer')
  <2>1. MemoryTypeOK /\ d \in {-1, 0, 1, 2} /\ d # -1
    BY DEF PointersSound
  <2> QED
    BY <1>2, <2>1, DyingStay
<1> QED
  BY <1>1, <1>3, OwnersStay DEF AllocationsStay

LEMMA SharedKeeps ==
    ASSUME MemoryInvariant, SharedStep
    PROVE  MemoryInvariant'
<1> USE DEF MemoryInvariant
<1>1. ASSUME NEW h \in StrongHandles, MakeShared(h) PROVE MemoryInvariant'
  BY <1>1, BlockTaken
<1>2. ASSUME NEW h \in StrongHandles, Reset(h) PROVE MemoryInvariant'
  <2>1. OneOwnerLess(h) /\ UNCHANGED <<unique, stack, arenaVars>>
    BY <1>2 DEF Reset
  <2>2. PointersSound'
    BY <1>2, ResettingStrong
  <2> QED
    BY <2>1, <2>2, LettingGoKeeps
<1>3. ASSUME NEW h \in StrongHandles, ResetLast(h) PROVE MemoryInvariant'
  <2>1. /\ h \in UsableStrong /\ IsLastOwner(h) /\ DestroyValueInPlace(h, <<>>)
        /\ UNCHANGED <<weak, unique, arenaVars>>
    BY <1>3 DEF ResetLast
  <2>2. ReturnsTo(h, <<>>)
    BY DEF ReturnsTo
  <2> QED
    BY <2>1, <2>2, DestroyingKeeps
<1>4. ASSUME NEW from \in StrongHandles, NEW to \in StrongHandles, TryShare(from, to)
      PROVE  MemoryInvariant'
  <2>1. /\ strong[from] \in DOMAIN control /\ control[strong[from]].strongCount # 0
        /\ AdoptStrong(to, strong[from])
    BY <1>4 DEF TryShare, HasLiveStrongReference, PointersSound, BlocksSound
  <2>2. PICK b : b = strong[from]
    OBVIOUS
  <2>3. b \in DOMAIN control /\ control[b].strongCount # 0 /\ AdoptStrong(to, b)
    BY <2>1, <2>2
  <2>4. PointersSound'
    BY <2>3, AdoptingStrong
  <2> QED
    BY <2>3, <2>4, SharingKeeps
<1>5. ASSUME NEW from \in StrongHandles, NEW to \in StrongHandles, MoveAssign(to, from)
      PROVE  MemoryInvariant'
  <2>1. OneOwnerLess(to) /\ UNCHANGED <<unique, stack, arenaVars>>
    BY <1>5 DEF MoveAssign
  <2>2. PointersSound'
    BY <1>5, MovingStrong
  <2> QED
    BY <2>1, <2>2, LettingGoKeeps
<1>6. ASSUME NEW from \in StrongOwners, NEW to \in StrongOwners, MoveAssignOverLast(to, from)
      PROVE  MemoryInvariant'
  <2>1. PICK below : below = <<AssignFrame(to, from)>>
    OBVIOUS
  <2>2. /\ to \in UsableStrong /\ to \in StrongOwners /\ from \in UsableStrong \cap StrongOwners
        /\ to # from /\ IsLastOwner(to) /\ DestroyValueInPlace(to, below)
        /\ UNCHANGED <<weak, unique, arenaVars>>
    BY <1>6, <2>1 DEF MoveAssignOverLast
  <2>3. ReturnsTo(to, below)
    BY <2>1, <2>2 DEF ReturnsTo
  <2> QED
    BY <2>2, <2>3, DestroyingKeeps
<1>7. ASSUME AdoptAfterReset PROVE MemoryInvariant'
  <2>1. /\ PointersSound' /\ StackMoves(-1) /\ 1 \in 1..Len(stack)
        /\ stack[1].kind = "assign"
    BY <1>7, AdoptingAfterReset
  <2>2. UNCHANGED <<unique, control, arenaVars>>
    BY <1>7 DEF AdoptAfterReset
  <2>3. DyingAllocations' = DyingAllocations /\ (DyingDiffer => DyingDiffer')
    <3>1. /\ MemoryTypeOK /\ -1 \in {-1, 0, 1, 2} /\ stack[1].kind # "unique"
          /\ Frames("unique")' \cap 1..(-1) = {}
      BY <2>1 DEF PointersSound
    <3> QED
      BY <2>1, <3>1, DyingStay
  <2> QED
    BY <2>1, <2>2, <2>3, OwnersStay
<1>8. ASSUME DestructorReturns PROVE MemoryInvariant'
  <2>1. /\ PointersSound' /\ StackMoves(-1) /\ 1 \in 1..Len(stack)
        /\ stack[1].kind = "value" /\ stack[1].block \in DOMAIN control
        /\ \/ DestroySharedControlBlock(stack[1].block)
           \/ /\ DOMAIN control' = DOMAIN control /\ UNCHANGED arenaVars
              /\ \A x \in DOMAIN control : control'[x].allocation = control[x].allocation
    BY <1>8, ReturningDestructor
  <2>2. UNCHANGED unique
    BY <1>8 DEF DestructorReturns
  <2>3. MemoryTypeOK /\ DyingAllocations' = DyingAllocations /\ (DyingDiffer => DyingDiffer')
    <3>1. /\ MemoryTypeOK /\ -1 \in {-1, 0, 1, 2} /\ stack[1].kind # "unique"
          /\ Frames("unique")' \cap 1..(-1) = {}
      BY <2>1 DEF PointersSound
    <3> QED
      BY <2>1, <3>1, DyingStay
  <2>4. CASE DestroySharedControlBlock(stack[1].block)
    <3>1. PICK b : b = stack[1].block
      OBVIOUS
    <3>2. b \in DOMAIN control /\ DestroySharedControlBlock(b)
      BY <2>1, <2>4, <3>1
    <3> QED
      BY <2>1, <2>2, <2>3, <3>2, BlockReturns
  <2>5. CASE /\ DOMAIN control' = DOMAIN control /\ UNCHANGED arenaVars
             /\ \A x \in DOMAIN control : control'[x].allocation = control[x].allocation
    BY <2>1, <2>2, <2>3, <2>5, OwnersStay
  <2> QED
    BY <2>1, <2>4, <2>5
<1> QED
  BY <1>1, <1>2, <1>3, <1>4, <1>5, <1>6, <1>7, <1>8 DEF SharedStep

\* A weak pointer that lets go, and the block that may go with it.
LEMMA WeakLetsGo ==
    ASSUME MemoryInvariant, PointersSound', UNCHANGED <<unique, stack>>, NEW h,
           \/ weak[h] \in DOMAIN control /\ DestroySharedControlBlock(weak[h])
           \/ /\ DOMAIN control' = DOMAIN control /\ UNCHANGED arenaVars
              /\ \A x \in DOMAIN control : control'[x].allocation = control[x].allocation
    PROVE  MemoryInvariant'
<1> USE DEF MemoryInvariant
<1>1. DyingAllocations' = DyingAllocations /\ (DyingDiffer => DyingDiffer') /\ MemoryTypeOK
  BY DEF DyingAllocations, DyingDiffer, Frames, PointersSound
<1>2. CASE weak[h] \in DOMAIN control /\ DestroySharedControlBlock(weak[h])
  <2>1. PICK b : b = weak[h]
    OBVIOUS
  <2>2. b \in DOMAIN control /\ DestroySharedControlBlock(b)
    BY <1>2, <2>1
  <2> QED
    BY <1>1, <2>2, BlockReturns
<1>3. CASE /\ DOMAIN control' = DOMAIN control /\ UNCHANGED arenaVars
           /\ \A x \in DOMAIN control : control'[x].allocation = control[x].allocation
  BY <1>1, <1>3, OwnersStay
<1> QED
  BY <1>2, <1>3

LEMMA WeakKeeps ==
    ASSUME MemoryInvariant, WeakStep
    PROVE  MemoryInvariant'
<1>0. PointersSound /\ OwnersApart /\ ArenaHolds(Outstanding) /\ BlocksSound
  BY DEF MemoryInvariant, PointersSound
<1>1. ASSUME NEW h \in WeakHandles, ResetWeak(h) PROVE MemoryInvariant'
  BY <1>0, <1>1, ResettingWeak, WeakLetsGo
<1>2. ASSUME NEW from \in WeakHandles, NEW to \in WeakHandles, MoveAssignWeak(to, from)
      PROVE  MemoryInvariant'
  BY <1>0, <1>2, MovingWeak, WeakLetsGo
<1>3. ASSUME NEW from \in WeakHandles, NEW to, HasLiveValue(weak[from]),
             AdoptWeak(to, weak[from]) \/ AdoptStrong(to, weak[from])
      PROVE  MemoryInvariant'
  <2>1. PICK b : b = weak[from]
    OBVIOUS
  <2>2. b \in DOMAIN control /\ control[b].strongCount # 0
    BY <1>0, <1>3, <2>1 DEF HasLiveValue, HasLiveStrongReference, BlocksSound
  <2>3. AdoptWeak(to, b) \/ AdoptStrong(to, b)
    BY <1>3, <2>1
  <2>4. PointersSound'
    BY <1>0, <2>2, <2>3, AdoptingWeak, AdoptingStrong
  <2> QED
    BY <1>0, <2>3, <2>4, SharingKeeps DEF MemoryInvariant
<1>4. ASSUME NEW from \in StrongHandles, NEW to \in WeakHandles, TryAcquireWeak(from, to)
      PROVE  MemoryInvariant'
  <2>1. PICK b : b = strong[from]
    OBVIOUS
  <2>2. b \in DOMAIN control /\ AdoptWeak(to, b)
    BY <1>0, <1>4, <2>1 DEF TryAcquireWeak, HasLiveStrongReference, BlocksSound
  <2>3. PointersSound'
    BY <1>0, <2>2, AdoptingWeak
  <2> QED
    BY <1>0, <2>2, <2>3, SharingKeeps DEF MemoryInvariant
<1>5. ASSUME NEW from \in WeakHandles, NEW to \in WeakHandles, TryObserve(from, to)
      PROVE  MemoryInvariant'
  BY <1>3, <1>5 DEF TryObserve
<1>6. ASSUME NEW from \in WeakHandles, NEW to \in StrongHandles, TryAcquireStrong(from, to)
      PROVE  MemoryInvariant'
  BY <1>3, <1>6 DEF TryAcquireStrong
<1> QED
  BY <1>1, <1>2, <1>4, <1>5, <1>6 DEF WeakStep

LEMMA UniqueKeeps ==
    ASSUME MemoryInvariant, UniqueStep
    PROVE  MemoryInvariant'
<1> USE DEF MemoryInvariant
<1>1. ASSUME NEW u \in UniqueOwners, MakeUnique(u) PROVE MemoryInvariant'
  BY <1>1, MakingUnique
<1>2. ASSUME NEW u \in UniqueOwners, ResetUnique(u) PROVE MemoryInvariant'
  BY <1>2, ResettingUnique
<1>3. ASSUME NEW from \in UniqueOwners, NEW to \in UniqueOwners, MoveAssignUnique(to, from)
      PROVE  MemoryInvariant'
  BY <1>3, MovingUnique
<1>4. ASSUME DeleterReturns PROVE MemoryInvariant'
  BY <1>4, ReturningDeleter
<1> QED
  BY <1>1, <1>2, <1>3, <1>4 DEF UniqueStep

LEMMA MemoryBegins ==
    ASSUME PointerInit
    PROVE  MemoryInvariant
<1>1. /\ strong = [h \in StrongHandles |-> NoBlock] /\ weak = [h \in WeakHandles |-> NoBlock]
      /\ unique = [u \in UniqueOwners |-> NoBlock] /\ control = [b \in {} |-> {}]
      /\ stack = <<>> /\ allocationStartMarkers = {} /\ allocationEndMarkers = {}
      /\ usedSizeBytes = 0
  BY DEF PointerInit, ArenaInit
<1>2. DOMAIN control = {} /\ \A kind : Frames(kind) = {}
  BY <1>1 DEF Frames
<1>3. MemoryTypeOK
  BY <1>1, <1>2 DEF MemoryTypeOK, Pointers, Targets
<1>4. BlocksSound
  BY <1>1, <1>2 DEF BlocksSound, StrongHandles, WeakHandles
<1>5. FramesSound
  BY <1>2 DEF FramesSound
<1>6. /\ SharedAllocations = {} /\ UniqueAllocations = {} /\ DyingAllocations = {}
  BY <1>1, <1>2 DEF SharedAllocations, UniqueAllocations, DyingAllocations
<1>7. OwnersApart
  BY <1>1, <1>2, <1>6 DEF OwnersApart, UniqueDiffer, DyingDiffer
<1>8. Outstanding = {}
  BY <1>6, OutstandingIs
<1>9. ArenaHolds({})
  <2>1. UNION {Bytes(x) : x \in {}} = {} /\ Cardinality({}) = 0
    BY FS_EmptySet
  <2> QED
    BY <1>1, <2>1 DEF ArenaHolds
<1>10. ArenaHolds(Outstanding)
  BY <1>8, <1>9
<1> QED
  BY <1>3, <1>4, <1>5, <1>7, <1>10 DEF MemoryInvariant, PointersSound

LEMMA MemoryUntouched ==
    ASSUME MemoryInvariant, UNCHANGED memoryVars
    PROVE  MemoryInvariant'
<1>1. UNCHANGED <<strong, weak, unique, control, stack, arenaVars>>
  BY DEF memoryVars, pointerVars
<1>2. PointersSound /\ OwnersApart /\ ArenaHolds(Outstanding) /\ MemoryTypeOK
  BY DEF MemoryInvariant, PointersSound
<1>3. PointersSound'
  <2>1. 0 \in {-1, 0, 1} /\ StackMoves(0) /\ 0 # 1 /\ 0 # -1
    BY <1>1, <1>2, StackStays
  <2>2. unique' \in [UniqueOwners -> MemoryBlocks \cup {NoBlock}]
    BY <1>1, <1>2 DEF MemoryTypeOK
  <2> QED
    BY <1>1, <1>2, <2>1, <2>2, OnlyUniqueMoves
<1>4. OwnersApart' /\ ArenaHolds(Outstanding)'
  <2>1. /\ DOMAIN control' = DOMAIN control
        /\ \A x \in DOMAIN control : control'[x].allocation = control[x].allocation
    BY <1>1
  <2> QED
    BY <1>1, <1>2, <2>1, PointersOnly
<1> QED
  BY <1>3, <1>4 DEF MemoryInvariant

-----------------------------------------------------------------------------
(* The scan for a free range.                                              *)

\* A byte is inside an allocation when some owned block has it.
LEMMA InsideIsOwned ==
    ASSUME NEW owned, ArenaHolds(owned), NEW k \in Nat
    PROVE  IsInsideAllocation(k) <=> \E y \in owned : y.Address <= k /\ k <= LastByte(y)
<1>1. \A y \in owned :
         /\ y \in MemoryBlocks /\ y.Address \in Nat /\ LastByte(y) \in Int
         /\ y.Address <= LastByte(y)
         /\ \A i \in Int : i \in Bytes(y) <=> y.Address <= i /\ i <= LastByte(y)
  BY BlockIs DEF ArenaHolds
<1>2. ASSUME NEW y \in owned, y.Address <= k, k <= LastByte(y) PROVE IsInsideAllocation(k)
  <2>1. k \in Bytes(y)
    BY <1>1, <1>2
  <2> QED
    BY <2>1, OwnedIsInside
<1>3. ASSUME IsInsideAllocation(k) PROVE \E y \in owned : y.Address <= k /\ k <= LastByte(y)
  <2>1. PICK start \in allocationStartMarkers :
           start <= k /\ \A end \in allocationEndMarkers : end < start \/ end >= k
    BY <1>3 DEF IsInsideAllocation
  <2>2. PICK y \in owned : start = y.Address
    BY DEF ArenaHolds
  <2>3. LastByte(y) < y.Address \/ LastByte(y) >= k
    BY <2>1, <2>2 DEF ArenaHolds
  <2> QED
    BY <1>1, <2>1, <2>2, <2>3
<1> QED
  BY <1>2, <1>3

\* An owned block has the byte before and this one.
Spans(owned, k) == \E y \in owned : y.Address < k /\ k <= LastByte(y)

\* What the scan carries from byte to byte says whether an allocation goes on.
LEMMA InsideGoesOn ==
    ASSUME NEW owned, ArenaHolds(owned), NEW k \in Nat
    PROVE  /\ IsInsideAllocation(k) <=> Spans(owned, k) \/ k \in allocationStartMarkers
           /\ Spans(owned, k + 1) <=> IsInsideAllocation(k) /\ k \notin allocationEndMarkers
<1>1. \A y \in owned :
         /\ y.Address \in Nat /\ LastByte(y) \in Int /\ y.Address <= LastByte(y)
         /\ \A i \in Int : i \in Bytes(y) <=> y.Address <= i /\ i <= LastByte(y)
  BY BlockIs DEF ArenaHolds
<1>2. IsInsideAllocation(k) <=> \E y \in owned : y.Address <= k /\ k <= LastByte(y)
  BY InsideIsOwned
<1>3. k \in allocationStartMarkers <=> \E y \in owned : y.Address = k
  BY DEF ArenaHolds
<1>4. k \in allocationEndMarkers <=> \E y \in owned : LastByte(y) = k
  BY DEF ArenaHolds
<1>5. IsInsideAllocation(k) <=> Spans(owned, k) \/ k \in allocationStartMarkers
  BY <1>1, <1>2, <1>3 DEF Spans
<1>6. ASSUME Spans(owned, k + 1)
      PROVE  IsInsideAllocation(k) /\ k \notin allocationEndMarkers
  <2>1. PICK y \in owned : y.Address < k + 1 /\ k + 1 <= LastByte(y)
    BY <1>6 DEF Spans
  <2>2. y.Address <= k /\ k <= LastByte(y) /\ k # LastByte(y) /\ k \in Bytes(y)
    BY <1>1, <2>1
  <2>3. ASSUME NEW z \in owned, LastByte(z) = k PROVE FALSE
    <3>1. k \in Bytes(z)
      BY <1>1, <2>3
    <3>2. z = y
      BY <2>2, <3>1 DEF ArenaHolds
    <3> QED
      BY <2>2, <2>3, <3>2
  <2> QED
    BY <1>2, <1>4, <2>2, <2>3
<1>7. ASSUME IsInsideAllocation(k), k \notin allocationEndMarkers
      PROVE  Spans(owned, k + 1)
  <2>1. PICK y \in owned : y.Address <= k /\ k <= LastByte(y)
    BY <1>2, <1>7
  <2>2. LastByte(y) # k
    BY <1>4, <1>7
  <2>3. y.Address < k + 1 /\ k + 1 <= LastByte(y)
    BY <1>1, <2>1, <2>2
  <2> QED
    BY <2>3 DEF Spans
<1> QED
  BY <1>5, <1>6, <1>7

\* What the scan knows when the bytes before k are behind it.
ScanKnows(owned, size, alignment, k, scan) ==
    /\ scan \in [inside : BOOLEAN, start : Nat, size : Nat, found : BOOLEAN]
    /\ scan.found =>
          /\ scan.start \in FreeRanges(size, alignment)
          /\ \A s \in FreeRanges(size, alignment) : scan.start <= s
    /\ ~scan.found =>
          /\ scan.inside <=> Spans(owned, k)
          /\ scan.size = 0 => \A s \in FreeRanges(size, alignment) : k <= s
          /\ scan.size # 0 =>
                /\ scan.start + scan.size = k /\ scan.size < size
                /\ scan.start % alignment = 0
                /\ \A i \in scan.start..(k - 1) : ~IsInsideAllocation(i)
                /\ \A s \in FreeRanges(size, alignment) : scan.start <= s

LEMMA FreeRangesAre ==
    ASSUME NEW size \in Nat \ {0}, NEW alignment, NEW s
    PROVE  s \in FreeRanges(size, alignment) <=>
              /\ s \in Nat /\ s + size <= StorageCapacityBytes /\ s % alignment = 0
              /\ \A i \in Int : s <= i /\ i < s + size => ~IsInsideAllocation(i)
<1>1. StorageCapacityBytes \in Nat \ {0}
  BY ArenaAssumption
<1> QED
  BY <1>1 DEF FreeRanges, Offsets

LEMMA ScanGoesOn ==
    ASSUME NEW owned, ArenaHolds(owned), NEW size \in Nat \ {0}, NEW alignment \in Nat \ {0},
           NEW k \in Offsets, NEW scan, ScanKnows(owned, size, alignment, k, scan)
    PROVE  ScanKnows(owned, size, alignment, k + 1, ScanByte(size, alignment, scan, k))
<1> DEFINE inside == scan.inside \/ k \in allocationStartMarkers
           start == IF ~inside /\ scan.size = 0 THEN k ELSE scan.start
           length == CASE inside -> 0
                       [] ~inside /\ scan.size > 0 -> scan.size + 1
                       [] OTHER -> IF k % alignment = 0 THEN 1 ELSE 0
           ranges == FreeRanges(size, alignment)
<1>1. /\ scan \in [inside : BOOLEAN, start : Nat, size : Nat, found : BOOLEAN]
      /\ scan.start \in Nat /\ scan.size \in Nat /\ k \in Nat
      /\ k < StorageCapacityBytes /\ StorageCapacityBytes \in Nat
  BY ArenaAssumption DEF ScanKnows, Offsets
<1>2. CASE scan.found
  <2>1. ScanByte(size, alignment, scan, k) = scan
    BY <1>2 DEF ScanByte
  <2> QED
    BY <1>2, <2>1 DEF ScanKnows
<1>3. CASE ~scan.found
  <2>1. ScanByte(size, alignment, scan, k)
           = [inside |-> inside /\ k \notin allocationEndMarkers,
              start |-> start, size |-> length, found |-> length = size]
    BY <1>3 DEF ScanByte
  <2>2. inside <=> IsInsideAllocation(k)
    BY <1>3, <1>1, InsideGoesOn DEF ScanKnows
  <2>3. (inside /\ k \notin allocationEndMarkers) <=> Spans(owned, k + 1)
    BY <1>1, <2>2, InsideGoesOn
  <2>4. start \in Nat /\ length \in Nat
    BY <1>1
  <2>5. PICK next : next = ScanByte(size, alignment, scan, k)
    OBVIOUS
  <2>6. /\ next \in [inside : BOOLEAN, start : Nat, size : Nat, found : BOOLEAN]
        /\ next.start = start /\ next.size = length
        /\ next.found <=> length = size
        /\ next.inside <=> Spans(owned, k + 1)
    <3>1. PICK in \in BOOLEAN : in <=> inside /\ k \notin allocationEndMarkers
      OBVIOUS
    <3>2. PICK out \in BOOLEAN : out <=> length = size
      OBVIOUS
    <3>3. in = (inside /\ k \notin allocationEndMarkers) /\ out = (length = size)
      BY <3>1, <3>2
    <3> HIDE DEF inside, start, length
    <3>4. next = [inside |-> in, start |-> start, size |-> length, found |-> out]
      BY <2>5, <2>1, <3>3
    <3> QED
      BY <2>3, <2>4, <3>1, <3>2, <3>4
  <2>7. \A s \in ranges :
           /\ s \in Nat /\ s + size <= StorageCapacityBytes /\ s % alignment = 0
           /\ \A i \in Int : s <= i /\ i < s + size => ~IsInsideAllocation(i)
    BY FreeRangesAre
  <2>8. /\ scan.size = 0 => \A s \in ranges : k <= s
        /\ scan.size # 0 =>
              /\ scan.start + scan.size = k /\ scan.size < size
              /\ scan.start % alignment = 0
              /\ \A i \in scan.start..(k - 1) : ~IsInsideAllocation(i)
              /\ \A s \in ranges : scan.start <= s
    BY <1>3 DEF ScanKnows
  <2> HIDE DEF ranges
  <2>9. CASE inside
    <3>1. length = 0 /\ length # size
      BY <2>9
    <3>2. \A s \in ranges : k + 1 <= s
      <4> TAKE s \in ranges
      <4>1. ~(s <= k /\ k < s + size)
        BY <1>1, <2>2, <2>7, <2>9
      <4>2. k < s + size
        BY <1>1, <2>7, <2>8
      <4> QED
        BY <1>1, <2>7, <4>1, <4>2
    <3> QED
      BY <2>5, <2>6, <3>1, <3>2 DEF ScanKnows, ranges
  <2>10. CASE ~inside /\ scan.size # 0
    <3>1. length = scan.size + 1 /\ start = scan.start
      BY <1>1, <2>10
    <3>2. /\ start + length = k + 1 /\ length <= size /\ start % alignment = 0
          /\ \A i \in start..k : ~IsInsideAllocation(i)
          /\ \A s \in ranges : start <= s
      BY <1>1, <2>2, <2>8, <2>10, <3>1
    <3>3. length = size => start \in ranges
      <4>1. ASSUME length = size, NEW i \in Int, start <= i, i < start + size
            PROVE  ~IsInsideAllocation(i)
        BY <1>1, <2>4, <3>2, <4>1
      <4>2. ASSUME length = size PROVE start + size <= StorageCapacityBytes
        BY <1>1, <2>4, <3>2, <4>2
      <4> QED
        BY <2>4, <3>2, <4>1, <4>2, FreeRangesAre DEF ranges
    <3>4. length # size => length < size
      BY <2>4, <3>2
    <3>5. length # 0 /\ (k + 1) - 1 = k
      BY <1>1, <3>1
    <3> HIDE DEF inside, start, length
    <3> QED
      BY <2>5, <2>6, <3>2, <3>3, <3>4, <3>5 DEF ScanKnows, ranges
  <2>11. CASE ~inside /\ scan.size = 0
    <3>1. start = k /\ length = (IF k % alignment = 0 THEN 1 ELSE 0)
      BY <2>11
    <3>2. CASE k % alignment = 0
      <4>1. /\ length = 1 /\ start % alignment = 0 /\ start + length = k + 1
            /\ \A i \in start..k : ~IsInsideAllocation(i)
            /\ \A s \in ranges : start <= s
        BY <1>1, <2>2, <2>8, <2>11, <3>1, <3>2
      <4>2. length = size => start \in ranges
        <5>1. ASSUME length = size, NEW i \in Int, start <= i, i < start + size
              PROVE  ~IsInsideAllocation(i)
          BY <1>1, <2>4, <4>1, <5>1
        <5>2. ASSUME length = size PROVE start + size <= StorageCapacityBytes
          BY <1>1, <2>4, <4>1, <5>2
        <5> QED
          BY <2>4, <4>1, <5>1, <5>2, FreeRangesAre DEF ranges
      <4>3. length # size => length < size
        BY <4>1
      <4>4. length # 0 /\ (k + 1) - 1 = k
        BY <1>1, <4>1
      <4> HIDE DEF inside, start, length
      <4> QED
        BY <2>5, <2>6, <4>1, <4>2, <4>3, <4>4 DEF ScanKnows, ranges
    <3>3. CASE k % alignment # 0
      <4>1. length = 0 /\ length # size
        BY <3>1, <3>3
      <4>2. \A s \in ranges : k + 1 <= s
        <5> TAKE s \in ranges
        <5>1. k <= s /\ s # k /\ s \in Nat
          BY <2>7, <2>8, <2>11, <3>3
        <5> QED
          BY <1>1, <5>1
      <4> HIDE DEF inside, start, length
      <4> QED
        BY <2>5, <2>6, <4>1, <4>2 DEF ScanKnows, ranges
    <3> QED
      BY <3>2, <3>3
  <2> QED
    BY <2>9, <2>10, <2>11
<1> QED
  BY <1>2, <1>3

\* The scan is there: the least number of bytes it could not get through is none.
IsScan(f, size, alignment, n) ==
    /\ f[0] = ScanStart
    /\ \A k \in 1..n : f[k] = ScanByte(size, alignment, f[k - 1], k - 1)

LEMMA ScanGetsThrough ==
    ASSUME NEW size, NEW alignment, NEW m \in Nat
    PROVE  \E f : IsScan(f, size, alignment, m)
<1> DEFINE stuck == {k \in 0..m : ~ \E f : IsScan(f, size, alignment, k)}
<1>0. m \in 0..m
  OBVIOUS
<1>1. SUFFICES ASSUME m \in stuck PROVE FALSE
  BY <1>0
<1>2. stuck \in SUBSET Nat /\ stuck # {} /\ IsFiniteSet(stuck)
  <2>1. IsFiniteSet(0..m) /\ stuck \in SUBSET (0..m) /\ 0..m \subseteq Nat
    BY FS_Interval
  <2> QED
    BY <1>1, <2>1, FS_Subset
<1>3. PICK n : n = Min(stuck)
  OBVIOUS
<1>4. n \in stuck /\ n \in Nat /\ \A k \in stuck : n <= k
  BY <1>2, <1>3, MinIsLeast
<1>5. n # 0
  <2>1. IsScan([k \in {0} |-> ScanStart], size, alignment, 0)
    BY DEF IsScan
  <2> QED
    BY <1>4, <2>1
<1>6. n - 1 \in 0..m /\ n - 1 \notin stuck
  BY <1>4, <1>5
<1>7. PICK f : IsScan(f, size, alignment, n - 1)
  BY <1>6
<1> DEFINE g == [k \in 0..n |-> IF k = n THEN ScanByte(size, alignment, f[n - 1], n - 1) ELSE f[k]]
<1>8. g[n] = ScanByte(size, alignment, f[n - 1], n - 1) /\ \A k \in 0..(n - 1) : g[k] = f[k]
  BY <1>4, <1>5
<1> HIDE DEF g
<1>9. IsScan(g, size, alignment, n)
  <2>1. g[0] = ScanStart
    BY <1>4, <1>5, <1>7, <1>8 DEF IsScan
  <2>2. ASSUME NEW k \in 1..n
        PROVE  g[k] = ScanByte(size, alignment, g[k - 1], k - 1)
    <3>1. k - 1 \in 0..(n - 1) /\ g[k - 1] = f[k - 1]
      BY <1>4, <1>8
    <3>2. CASE k = n
      BY <1>8, <3>1, <3>2
    <3>3. CASE k # n
      <4>1. k \in 1..(n - 1) /\ k \in 0..(n - 1)
        BY <1>4, <3>3
      <4> QED
        BY <1>7, <1>8, <3>1, <4>1 DEF IsScan
    <3> QED
      BY <3>2, <3>3
  <2> QED
    BY <2>1, <2>2 DEF IsScan
<1> QED
  BY <1>4, <1>9

LEMMA ScanIs ==
    ASSUME NEW size, NEW alignment
    PROVE  \E f : IsScan(f, size, alignment, StorageCapacityBytes)
                  /\ ScanForRange(size, alignment) = f[StorageCapacityBytes]
<1> DEFINE Step(f) == [scanned \in 0..StorageCapacityBytes |->
                          IF scanned = 0 THEN ScanStart
                          ELSE ScanByte(size, alignment, f[scanned - 1], scanned - 1)]
           scan == CHOOSE f : f = Step(f)
<1>0. StorageCapacityBytes \in Nat
  BY ArenaAssumption
<1>1. \E f : f = Step(f)
  <2>1. PICK f : IsScan(f, size, alignment, StorageCapacityBytes)
    BY <1>0, ScanGetsThrough
  <2> DEFINE g == [scanned \in 0..StorageCapacityBytes |-> f[scanned]]
  <2>2. \A k \in 0..StorageCapacityBytes : g[k] = f[k]
    OBVIOUS
  <2> HIDE DEF g
  <2>3. \A k \in 0..StorageCapacityBytes :
           g[k] = IF k = 0 THEN ScanStart ELSE ScanByte(size, alignment, g[k - 1], k - 1)
    <3> TAKE k \in 0..StorageCapacityBytes
    <3>1. CASE k = 0
      BY <1>0, <2>1, <2>2, <3>1 DEF IsScan
    <3>2. CASE k # 0
      <4>1. k \in 1..StorageCapacityBytes /\ k - 1 \in 0..StorageCapacityBytes
        BY <1>0, <3>2
      <4> QED
        BY <2>1, <2>2, <3>2, <4>1 DEF IsScan
    <3> QED
      BY <3>1, <3>2
  <2>4. g = [scanned \in 0..StorageCapacityBytes |-> g[scanned]]
    BY DEF g
  <2>5. g = Step(g)
    BY <2>3, <2>4
  <2> QED
    BY <2>5
<1>2. scan = Step(scan)
  BY <1>1
<1>3. ScanForRange(size, alignment) = scan[StorageCapacityBytes]
  BY DEF ScanForRange
<1> HIDE DEF scan
<1>4. /\ scan[0] = ScanStart
      /\ \A k \in 1..StorageCapacityBytes :
            scan[k] = ScanByte(size, alignment, scan[k - 1], k - 1)
  <2>1. \A k \in 0..StorageCapacityBytes :
           Step(scan)[k] = IF k = 0 THEN ScanStart
                           ELSE ScanByte(size, alignment, scan[k - 1], k - 1)
    OBVIOUS
  <2> HIDE DEF Step
  <2>2. \A k \in 0..StorageCapacityBytes :
           scan[k] = IF k = 0 THEN ScanStart ELSE ScanByte(size, alignment, scan[k - 1], k - 1)
    BY <1>2, <2>1
  <2>3. 0 \in 0..StorageCapacityBytes
        /\ \A k \in 1..StorageCapacityBytes : k \in 0..StorageCapacityBytes /\ k # 0
    BY <1>0
  <2> QED
    BY <2>2, <2>3
<1> QED
  BY <1>3, <1>4 DEF IsScan

LEMMA ScanIsRight ==
    ASSUME NEW owned, ArenaHolds(owned), NEW size \in Nat \ {0}, NEW alignment \in Nat \ {0}
    PROVE  LET scan == ScanForRange(size, alignment)
               ranges == FreeRanges(size, alignment)
           IN  /\ scan.found <=> ranges # {}
               /\ scan.found => scan.start = Min(ranges)
<1> DEFINE ranges == FreeRanges(size, alignment)
<1>0. StorageCapacityBytes \in Nat \ {0}
  BY ArenaAssumption
<1>1. PICK f : /\ IsScan(f, size, alignment, StorageCapacityBytes)
               /\ ScanForRange(size, alignment) = f[StorageCapacityBytes]
  BY ScanIs
<1>2. ScanKnows(owned, size, alignment, 0, f[0])
  <2>1. f[0] = ScanStart
    BY <1>1 DEF IsScan
  <2>2. ~Spans(owned, 0)
    <3>1. \A y \in owned : y.Address \in Nat
      BY BlockIs DEF ArenaHolds
    <3> QED
      BY <3>1 DEF Spans
  <2>3. \A s \in ranges : 0 <= s
    BY FreeRangesAre
  <2> QED
    BY <2>1, <2>2, <2>3 DEF ScanKnows, ScanStart
<1> DEFINE wrong == {k \in 0..StorageCapacityBytes : ~ScanKnows(owned, size, alignment, k, f[k])}
<1>3. ASSUME wrong # {} PROVE FALSE
  <2>1. wrong \in SUBSET Nat /\ IsFiniteSet(wrong)
    <3>1. IsFiniteSet(0..StorageCapacityBytes) /\ wrong \in SUBSET (0..StorageCapacityBytes)
          /\ 0..StorageCapacityBytes \subseteq Nat
      BY <1>0, FS_Interval
    <3> QED
      BY <3>1, FS_Subset
  <2>2. PICK n : n = Min(wrong)
    OBVIOUS
  <2>3. n \in wrong /\ \A k \in wrong : n <= k
    BY <1>3, <2>1, <2>2, MinIsLeast
  <2>4. n \in 1..StorageCapacityBytes
    BY <1>0, <1>2, <2>3
  <2>5. n - 1 \in Offsets /\ n - 1 \in 0..StorageCapacityBytes /\ n - 1 \notin wrong
        /\ (n - 1) + 1 = n
    BY <1>0, <2>3, <2>4 DEF Offsets
  <2>6. ScanKnows(owned, size, alignment, n - 1, f[n - 1])
    BY <2>5
  <2>7. f[n] = ScanByte(size, alignment, f[n - 1], n - 1)
    BY <1>1, <2>4 DEF IsScan
  <2>8. ScanKnows(owned, size, alignment, (n - 1) + 1, f[n])
    BY <2>5, <2>6, <2>7, ScanGoesOn
  <2> QED
    BY <2>3, <2>5, <2>8
<1> DEFINE scan == f[StorageCapacityBytes]
<1>4. ScanKnows(owned, size, alignment, StorageCapacityBytes, scan)
  <2>1. StorageCapacityBytes \in 0..StorageCapacityBytes /\ StorageCapacityBytes \notin wrong
    BY <1>0, <1>3
  <2> QED
    BY <2>1
<1> HIDE DEF scan, wrong
<1>5. \A s \in ranges :
         s \in Nat /\ s + size <= StorageCapacityBytes /\ s < StorageCapacityBytes
  BY <1>0, FreeRangesAre
<1>6. CASE scan.found
  <2>1. scan.start \in ranges /\ \A s \in ranges : scan.start <= s
    BY <1>4, <1>6 DEF ScanKnows
  <2>2. Min(ranges) = scan.start
    <3>1. ranges \in SUBSET Nat /\ IsFiniteSet(ranges) /\ ranges # {}
      <4>1. IsFiniteSet(Offsets) /\ Offsets \subseteq Nat /\ ranges \in SUBSET Offsets
        BY <1>0, FS_Interval DEF Offsets, FreeRanges
      <4> QED
        BY <2>1, <4>1, FS_Subset
    <3>2. PICK n : n = Min(ranges)
      OBVIOUS
    <3> HIDE DEF ranges
    <3>3. n \in ranges /\ \A s \in ranges : n <= s
      BY <3>1, <3>2, MinIsLeast
    <3>4. n <= scan.start /\ scan.start <= n /\ n \in Nat /\ scan.start \in Nat
      BY <1>5, <2>1, <3>3
    <3> QED
      BY <3>2, <3>4
  <2> QED
    BY <1>1, <1>6, <2>1, <2>2 DEF scan
<1>7. CASE ~scan.found
  <2>1. ASSUME NEW s \in ranges PROVE FALSE
    <3>1. scan.start \in Nat /\ scan.size \in Nat
      BY <1>4 DEF ScanKnows
    <3>2. CASE scan.size = 0
      <4>1. StorageCapacityBytes <= s
        BY <1>4, <1>7, <2>1, <3>2 DEF ScanKnows
      <4> QED
        BY <1>0, <1>5, <2>1, <4>1
    <3>3. CASE scan.size # 0
      <4>1. /\ scan.start + scan.size = StorageCapacityBytes /\ scan.size < size
            /\ scan.start <= s
        BY <1>4, <1>7, <2>1, <3>3 DEF ScanKnows
      <4> QED
        BY <1>0, <1>5, <2>1, <3>1, <4>1
    <3> QED
      BY <3>2, <3>3
  <2> QED
    BY <1>1, <1>7, <2>1 DEF scan
<1> QED
  BY <1>6, <1>7

-----------------------------------------------------------------------------
(* What the invariant says.                                                *)
LEMMA MemoryIsSound ==
    ASSUME MemoryInvariant
    PROVE  MemorySound
<1>1. BlocksSound /\ ArenaHolds(Outstanding)
  BY DEF MemoryInvariant, PointersSound
<1>2. PICK owned : owned = Outstanding
  OBVIOUS
<1>3. ArenaHolds(owned)
  BY <1>1, <1>2
<1>4. ScanFindsFirstFit
  <2>1. SharedAlignment \in Nat \ {0} /\ UniqueAlignment \in Nat \ {0}
    BY PointerAssumption
  <2>2. \A size \in 1..StorageCapacityBytes : size \in Nat \ {0}
    BY ArenaAssumption
  <2>3. \A size \in 1..StorageCapacityBytes, alignment \in {SharedAlignment, UniqueAlignment} :
           LET scan == ScanForRange(size, alignment)
               ranges == FreeRanges(size, alignment)
           IN  /\ scan.found <=> ranges # {}
               /\ scan.found => scan.start = Min(ranges)
    BY <1>3, <2>1, <2>2, ScanIsRight
  <2> QED
    BY <2>3 DEF ScanFindsFirstFit
<1>5. \A x \in [Address : Offsets, SizeBytes : 0..StorageCapacityBytes] :
         IsExactAllocation(x) <=> x \in Outstanding
  <2> TAKE x \in [Address : Offsets, SizeBytes : 0..StorageCapacityBytes]
  <2>1. x \in MemoryBlocks
    BY ArenaAssumption DEF MemoryBlocks, Offsets
  <2> QED
    BY <1>2, <1>3, <2>1, ExactIsOwned
<1>6. /\ \A x, y \in Outstanding : x = y \/ Bytes(x) \cap Bytes(y) = {}
      /\ \A x \in Outstanding : Bytes(x) \subseteq Offsets
      /\ allocationStartMarkers = {x.Address : x \in Outstanding}
      /\ allocationEndMarkers = {LastByte(x) : x \in Outstanding}
      /\ usedSizeBytes = Cardinality(UNION {Bytes(x) : x \in Outstanding})
  BY <1>1 DEF ArenaHolds
<1>7. ArenaSound
  BY <1>4, <1>5, <1>6 DEF ArenaSound
<1> QED
  BY <1>1, <1>7 DEF MemorySound

-----------------------------------------------------------------------------
(* Every pointer refers to a block that is there, the counts are exact, a  *)
(* value lives as long as it is owned and its block until its destructor   *)
(* has ended and nobody observes it; the arena's marks describe just the   *)
(* allocations somebody will give back, and its scan misses no room; at    *)
(* every point of every destructor, however deep they nest                 *)
(* (SharedPtr.h:129-201, WeakPtr.h:113-130, FixedArena.h:88-132, 165-294). *)
THEOREM MemoryStaysSound == StorageSpec => []MemorySound
<1>1. StorageInit => MemoryInvariant
  BY MemoryBegins DEF StorageInit
<1>2. MemoryInvariant /\ [StorageNext]_storageVars => MemoryInvariant'
  <2> SUFFICES ASSUME MemoryInvariant, [StorageNext]_storageVars PROVE MemoryInvariant'
    OBVIOUS
  <2>1. CASE MemoryStep
    BY <2>1, SharedKeeps, WeakKeeps, UniqueKeeps DEF MemoryStep, PointerNext
  <2>2. CASE ClassStep \/ MessageStep \/ UNCHANGED storageVars
    <3>1. UNCHANGED memoryVars
      BY <2>2 DEF ClassStep, MessageStep, storageVars
    <3> QED
      BY <3>1, MemoryUntouched
  <2> QED
    BY <2>1, <2>2 DEF StorageNext
<1>3. MemoryInvariant => MemorySound
  BY MemoryIsSound
<1> QED
  BY <1>1, <1>2, <1>3, PTL DEF StorageSpec

-----------------------------------------------------------------------------
(* The registry of classes.                                                *)

RegistryTypeOK ==
    /\ registeredClasses \in Seq(Descriptors) /\ ClassCount <= MaxClasses
    /\ nextAutomaticTypeId \in FirstAutomaticTypeId..(TypeIdCount - 1)

\* Ids are different, and parents are registered first.
HierarchySound ==
    /\ \A i, j \in Places : registeredClasses[i].TypeId = registeredClasses[j].TypeId => i = j
    /\ \A i \in Places : registeredClasses[i].TypeId # 0 /\ registeredClasses[i].Parent < i

RegistryInvariant == RegistryTypeOK /\ HierarchySound

LEMMA PlacesAreThere ==
    ASSUME RegistryTypeOK
    PROVE  /\ ClassCount \in Nat /\ Places \subseteq Nat /\ IsFiniteSet(Places)
           /\ \A i \in Places : registeredClasses[i] \in Descriptors
<1>1. ClassCount \in Nat
  BY DEF RegistryTypeOK, ClassCount
<1>2. Places \subseteq Nat /\ IsFiniteSet(Places)
  BY <1>1, FS_Interval DEF Places
<1>3. \A i \in Places : registeredClasses[i] \in Descriptors
  BY DEF RegistryTypeOK, ClassCount, Places
<1> QED
  BY <1>1, <1>2, <1>3

LEMMA LeastUpTo ==
    ASSUME NEW m \in Nat, NEW S \in SUBSET (0..m), S # {}
    PROVE  \E n \in S : n \in 0..m /\ \A k \in S : n <= k
<1>1. S \in SUBSET Nat /\ IsFiniteSet(S)
  <2>1. IsFiniteSet(0..m) /\ 0..m \subseteq Nat
    BY FS_Interval
  <2> QED
    BY <2>1, FS_Subset
<1>2. Min(S) \in S /\ \A k \in S : Min(S) <= k
  BY <1>1, MinIsLeast
<1> QED
  BY <1>2

LEMMA FirstFound ==
    ASSUME NEW n \in Nat, NEW I \in SUBSET (1..n)
    PROVE  I # {} => Min(I) \in I /\ Min(I) \in 1..n /\ \A i \in I : Min(I) <= i
<1>1. I \in SUBSET Nat /\ IsFiniteSet(I)
  <2>1. IsFiniteSet(1..n) /\ 1..n \subseteq Nat
    BY FS_Interval
  <2> QED
    BY <2>1, FS_Subset
<1>2. I # {} => Min(I) \in I /\ \A i \in I : Min(I) <= i
  BY <1>1, MinIsLeast
<1> QED
  BY <1>2

\* More entries behind the others leave the first one that was found the first.
LEMMA FirstStays ==
    ASSUME NEW n \in Nat, NEW m \in Nat, n <= m, NEW I \in SUBSET (1..n), NEW J \in SUBSET (1..m),
           I # {}, \A i \in 1..n : i \in I <=> i \in J
    PROVE  J # {} /\ Min(J) = Min(I)
<1>1. Min(I) \in I /\ Min(I) \in 1..n /\ \A i \in I : Min(I) <= i
  BY FirstFound
<1>2. J # {} /\ Min(I) \in J
  BY <1>1
<1>3. Min(J) \in J /\ Min(J) \in 1..m /\ \A i \in J : Min(J) <= i
  BY <1>2, FirstFound
<1>4. Min(J) <= Min(I) /\ Min(J) \in 1..n
  BY <1>1, <1>2, <1>3
<1>5. Min(I) <= Min(J)
  BY <1>1, <1>3, <1>4
<1> QED
  BY <1>1, <1>2, <1>3, <1>4, <1>5

LEMMA FindIs ==
    ASSUME RegistryTypeOK, NEW id
    PROVE  /\ Find(id) \in 0..ClassCount
           /\ Find(id) = 0 <=> \A i \in Places : registeredClasses[i].TypeId # id
           /\ Find(id) # 0 => /\ registeredClasses[Find(id)].TypeId = id
                              /\ \A i \in Places : registeredClasses[i].TypeId = id => Find(id) <= i
<1> DEFINE I == {i \in Places : registeredClasses[i].TypeId = id}
<1>1. Find(id) = IF I # {} THEN Min(I) ELSE 0
  BY DEF Find, SelectInSeq, Places, ClassCount
<1>2. I # {} => Min(I) \in I /\ Min(I) \in 1..ClassCount /\ \A i \in I : Min(I) <= i
  <2>1. ClassCount \in Nat /\ I \in SUBSET (1..ClassCount)
    BY PlacesAreThere DEF Places
  <2> HIDE DEF I
  <2> QED
    BY <2>1, FirstFound
<1> QED
  BY <1>1, <1>2, PlacesAreThere DEF Places

LEMMA FindByTypeTokenIs ==
    ASSUME RegistryTypeOK, NEW token
    PROVE  /\ FindByTypeToken(token) \in 0..ClassCount
           /\ FindByTypeToken(token) = 0 <=> \A i \in Places : registeredClasses[i].TypeToken # token
           /\ FindByTypeToken(token) # 0 =>
                /\ registeredClasses[FindByTypeToken(token)].TypeToken = token
                /\ \A i \in Places : registeredClasses[i].TypeToken = token => FindByTypeToken(token) <= i
<1> DEFINE I == {i \in Places : registeredClasses[i].TypeToken = token}
<1>1. FindByTypeToken(token) = IF I # {} THEN Min(I) ELSE 0
  BY DEF FindByTypeToken, SelectInSeq, Places, ClassCount
<1>2. I # {} => Min(I) \in I /\ Min(I) \in 1..ClassCount /\ \A i \in I : Min(I) <= i
  <2>1. ClassCount \in Nat /\ I \in SUBSET (1..ClassCount)
    BY PlacesAreThere DEF Places
  <2> HIDE DEF I
  <2> QED
    BY <2>1, FirstFound
<1> QED
  BY <1>1, <1>2, PlacesAreThere DEF Places

\* The ids that as many probes as there are classes meet are all different.
LEMMA Wrapped ==
    ASSUME NEW m \in Nat \ {0}, NEW a \in 0..(m - 1), NEW k \in 0..m
    PROVE  (a + k) % m = IF a + k < m THEN a + k ELSE (a + k) - m
<1>1. CASE a + k < m
  BY <1>1
<1>2. CASE a + k >= m
  BY <1>2
<1> QED
  BY <1>1, <1>2

LEMMA CandidatesAre ==
    ASSUME RegistryTypeOK
    PROVE  /\ \A k \in 0..MaxClasses :
                 AutomaticCandidate(k) \in FirstAutomaticTypeId..(TypeIdCount - 1)
           /\ \A j, k \in 0..(MaxClasses - 1) :
                 AutomaticCandidate(j) = AutomaticCandidate(k) => j = k
<1> DEFINE m == TypeIdCount - FirstAutomaticTypeId
           a == nextAutomaticTypeId - FirstAutomaticTypeId
<1>1. m \in Nat \ {0} /\ MaxClasses <= m /\ a \in 0..(m - 1)
  BY RegistryAssumption DEF RegistryTypeOK
<1>2. \A k \in 0..MaxClasses : k \in 0..m
  BY <1>1, RegistryAssumption
<1> HIDE DEF m, a
<1>3. \A k \in 0..MaxClasses : (a + k) % m = IF a + k < m THEN a + k ELSE (a + k) - m
  BY <1>1, <1>2, Wrapped
<1>4. \A k \in 0..MaxClasses :
         AutomaticCandidate(k) = FirstAutomaticTypeId + (IF a + k < m THEN a + k ELSE (a + k) - m)
  BY <1>3 DEF AutomaticCandidate, m, a
<1>5. \A k \in 0..MaxClasses : AutomaticCandidate(k) \in FirstAutomaticTypeId..(TypeIdCount - 1)
  BY <1>1, <1>2, <1>4, RegistryAssumption DEF m
<1>6. \A j, k \in 0..(MaxClasses - 1) : AutomaticCandidate(j) = AutomaticCandidate(k) => j = k
  <2> TAKE j, k \in 0..(MaxClasses - 1)
  <2>1. j \in 0..MaxClasses /\ k \in 0..MaxClasses /\ j < m /\ k < m
    BY <1>1, RegistryAssumption
  <2> QED
    BY <1>1, <1>4, <2>1, RegistryAssumption
<1> QED
  BY <1>5, <1>6

\* While there is room, one of those ids is free: there are more of them than classes.
LEMMA ProbeFindsRoom ==
    ASSUME RegistryTypeOK, ClassCount < MaxClasses
    PROVE  /\ AllocateAutomaticTypeId.id \in FirstAutomaticTypeId..(TypeIdCount - 1)
           /\ AllocateAutomaticTypeId.cursor \in FirstAutomaticTypeId..(TypeIdCount - 1)
           /\ Find(AllocateAutomaticTypeId.id) = 0
<1>1. MaxClasses \in Nat \ {0} /\ ClassCount \in Nat
  BY PlacesAreThere, RegistryAssumption
<1>2. FreeProbes # {}
  <2> SUFFICES ASSUME FreeProbes = {} PROVE FALSE
    OBVIOUS
  <2> DEFINE f == [i \in 1..MaxClasses |-> Find(AutomaticCandidate(i - 1))]
  <2>1. \A i \in 1..MaxClasses :
           f[i] = Find(AutomaticCandidate(i - 1)) /\ i - 1 \in 0..(MaxClasses - 1)
    BY <1>1
  <2>2. \A i \in 1..MaxClasses :
           f[i] \in 1..ClassCount /\ registeredClasses[f[i]].TypeId = AutomaticCandidate(i - 1)
    <3> TAKE i \in 1..MaxClasses
    <3>1. Find(AutomaticCandidate(i - 1)) # 0
      BY <2>1 DEF FreeProbes
    <3>2. Find(AutomaticCandidate(i - 1)) \in 0..ClassCount
          /\ registeredClasses[Find(AutomaticCandidate(i - 1))].TypeId = AutomaticCandidate(i - 1)
      BY <3>1, FindIs
    <3> QED
      BY <1>1, <2>1, <3>1, <3>2
  <2>3. f \in [1..MaxClasses -> 1..ClassCount]
    BY <2>2
  <2> HIDE DEF f
  <2>4. \A i, j \in 1..MaxClasses : f[i] = f[j] => i = j
    <3> SUFFICES ASSUME NEW i \in 1..MaxClasses, NEW j \in 1..MaxClasses, f[i] = f[j]
                 PROVE  i = j
      OBVIOUS
    <3>1. AutomaticCandidate(i - 1) = AutomaticCandidate(j - 1)
      BY <2>2
    <3>2. i - 1 = j - 1
      BY <2>1, <3>1, CandidatesAre
    <3> QED
      BY <1>1, <3>2
  <2>5. MaxClasses <= ClassCount
    BY <1>1, <2>3, <2>4, OneEntryPerSlot
  <2> QED
    BY <1>1, <2>5
<1> DEFINE k == CHOOSE k \in FreeProbes : \A j \in FreeProbes : k <= j
<1>3. k \in FreeProbes
  <2>1. FreeProbes \in SUBSET Nat /\ IsFiniteSet(FreeProbes)
    <3>1. IsFiniteSet(0..(MaxClasses - 1)) /\ 0..(MaxClasses - 1) \subseteq Nat
      BY <1>1, FS_Interval
    <3> QED
      BY <3>1, FS_Subset DEF FreeProbes
  <2>2. \E j \in FreeProbes : \A i \in FreeProbes : j <= i
    BY <1>2, <2>1, MinIsLeast
  <2> QED
    BY <2>2
<1>4. AllocateAutomaticTypeId = [id |-> AutomaticCandidate(k), cursor |-> AutomaticCandidate(k + 1)]
  BY <1>2 DEF AllocateAutomaticTypeId
<1> HIDE DEF k
<1>5. k \in 0..MaxClasses /\ k + 1 \in 0..MaxClasses /\ Find(AutomaticCandidate(k)) = 0
  BY <1>1, <1>3 DEF FreeProbes
<1> QED
  BY <1>4, <1>5, CandidatesAre

-----------------------------------------------------------------------------
(* A class is registered.                                                  *)

LEMMA RegistryAfterStored ==
    ASSUME RegistryInvariant, NEW d \in Descriptors, Stored(d), ClassCount < MaxClasses,
           d.TypeId # 0, Find(d.TypeId) = 0, d.Parent \in 0..ClassCount,
           nextAutomaticTypeId' \in FirstAutomaticTypeId..(TypeIdCount - 1)
    PROVE  /\ RegistryInvariant'
           /\ ClassCount' = ClassCount + 1
           /\ \A i \in Places : registeredClasses'[i] = registeredClasses[i]
<1>1. /\ registeredClasses' \in Seq(Descriptors) /\ ClassCount' = ClassCount + 1
      /\ ClassCount \in Nat /\ registeredClasses'[ClassCount + 1] = d
      /\ \A i \in Places : registeredClasses'[i] = registeredClasses[i]
  BY EntryAdded DEF RegistryInvariant, RegistryTypeOK, Stored, ClassCount, Places
<1>2. Places' = Places \cup {ClassCount + 1}
  BY <1>1 DEF Places
<1>3. RegistryTypeOK'
  BY <1>1, RegistryAssumption DEF RegistryInvariant, RegistryTypeOK
<1>4. \A i \in Places : registeredClasses[i].TypeId # d.TypeId /\ i # ClassCount + 1
  BY <1>1, FindIs DEF RegistryInvariant, Places
<1>5. (\A i, j \in Places : registeredClasses[i].TypeId = registeredClasses[j].TypeId => i = j)'
  BY <1>1, <1>2, <1>4 DEF RegistryInvariant, HierarchySound
<1>6. (\A i \in Places : registeredClasses[i].TypeId # 0 /\ registeredClasses[i].Parent < i)'
  <2>1. d.Parent < ClassCount + 1
    BY <1>1
  <2> QED
    BY <1>1, <1>2, <2>1 DEF RegistryInvariant, HierarchySound
<1> QED
  BY <1>1, <1>3, <1>5, <1>6 DEF RegistryInvariant, HierarchySound

LEMMA AutomaticKeeps ==
    ASSUME RegistryInvariant, NEW d \in Descriptors, RegisterAutomatic(d)
    PROVE  /\ RegistryInvariant'
           /\ ClassCount' = ClassCount + 1
           /\ \A i \in Places : registeredClasses'[i] = registeredClasses[i]
<1> DEFINE id == AllocateAutomaticTypeId.id
<1>1. /\ id \in FirstAutomaticTypeId..(TypeIdCount - 1) /\ Find(id) = 0
      /\ nextAutomaticTypeId' \in FirstAutomaticTypeId..(TypeIdCount - 1)
      /\ ClassCount < MaxClasses
  BY ProbeFindsRoom DEF RegisterAutomatic, RegistryInvariant
<1> HIDE DEF id
<1>2. id # 0 /\ id \in TypeIds
  BY <1>1, RegistryAssumption DEF TypeIds
<1> DEFINE e == [d EXCEPT !.TypeId = id]
<1>3. Stored(e)
  BY <1>2 DEF RegisterAutomatic, id
<1>4. e \in Descriptors /\ e.TypeId = id /\ e.Parent = d.Parent
  BY <1>2 DEF Descriptors
<1>5. e.Parent \in 0..ClassCount
  BY <1>4 DEF RegisterAutomatic, HasValidParentChain, NoParent
<1> HIDE DEF e
<1> QED
  BY <1>1, <1>2, <1>3, <1>4, <1>5, RegistryAfterStored

LEMMA RegistryGrows ==
    ASSUME RegistryInvariant, ClassNext
    PROVE  /\ RegistryInvariant'
           /\ ClassCount' = ClassCount + 1
           /\ \A i \in Places : registeredClasses'[i] = registeredClasses[i]
<1>1. CASE \E d \in Descriptors : Register(d)
  <2>1. PICK d \in Descriptors : Register(d)
    BY <1>1
  <2>2. /\ Stored(d) /\ ClassCount < MaxClasses /\ d.TypeId # 0 /\ Find(d.TypeId) = 0
        /\ d.Parent \in 0..ClassCount
    BY <2>1 DEF Register, HasValidParentChain, NoParent
  <2>3. nextAutomaticTypeId' \in FirstAutomaticTypeId..(TypeIdCount - 1)
    BY <2>1 DEF Register, RegistryInvariant, RegistryTypeOK
  <2> QED
    BY <2>2, <2>3, RegistryAfterStored
<1>2. CASE \E d \in Descriptors : RegisterAutomatic(d)
  BY <1>2, AutomaticKeeps
<1>3. CASE \E token \in Types, base \in BaseTypeIds : Resolve(token, base)
  <2>1. PICK token \in Types, base \in BaseTypeIds : Resolve(token, base)
    BY <1>3
  <2> DEFINE d == [TypeId |-> 0, TypeToken |-> token, Parent |-> Find(base)]
  <2>2. Find(base) \in NoParent..ForeignCopy
    <3>1. Find(base) \in 0..ClassCount /\ ClassCount \in Nat
      BY FindIs, PlacesAreThere DEF RegistryInvariant
    <3> QED
      BY <3>1, RegistryAssumption DEF RegistryInvariant, RegistryTypeOK, NoParent, ForeignCopy
  <2>3. d \in Descriptors
    <3>1. 0 \in TypeIds
      BY RegistryAssumption DEF TypeIds
    <3> QED
      BY <2>2, <3>1 DEF Descriptors
  <2>4. RegisterAutomatic(d)
    BY <2>1 DEF Resolve
  <2> HIDE DEF d
  <2> QED
    BY <2>3, <2>4, AutomaticKeeps
<1> QED
  BY <1>1, <1>2, <1>3 DEF ClassNext

\* What was found is found again: an entry added comes after it.
LEMMA LookupsStay ==
    ASSUME RegistryTypeOK, RegistryTypeOK', ClassCount' >= ClassCount,
           \A i \in Places : registeredClasses'[i] = registeredClasses[i]
    PROVE  LookupsStable
<1>1. ClassCount \in Nat /\ ClassCount' \in Nat /\ Places \subseteq Places'
  BY PlacesAreThere DEF RegistryTypeOK, ClassCount, Places
<1>2. IsPrefix(registeredClasses, registeredClasses')
  <2>1. /\ registeredClasses \in Seq(Descriptors) /\ registeredClasses' \in Seq(Descriptors)
        /\ Len(registeredClasses) <= Len(registeredClasses')
    BY <1>1 DEF RegistryTypeOK, ClassCount
  <2>2. SubSeq(registeredClasses, 1, Len(registeredClasses))
           = SubSeq(registeredClasses', 1, Len(registeredClasses))
    BY <1>1, <2>1 DEF Places, ClassCount
  <2> QED
    BY <2>1, <2>2 DEF IsPrefix
<1>3. ASSUME NEW id, Find(id) # 0
      PROVE  Find(id)' = Find(id)
  <2> DEFINE I == {i \in Places : registeredClasses[i].TypeId = id}
             J == {i \in Places' : registeredClasses'[i].TypeId = id}
  <2>1. /\ Find(id) = IF I # {} THEN Min(I) ELSE 0
        /\ Find(id)' = IF J # {} THEN Min(J) ELSE 0
    BY DEF Find, SelectInSeq, Places, ClassCount
  <2>2. I # {} /\ \A i \in Places : i \in I <=> i \in J
    BY <1>1, <1>3, <2>1
  <2>3. I \in SUBSET (1..ClassCount) /\ J \in SUBSET (1..ClassCount')
    BY DEF Places
  <2>4. ClassCount <= ClassCount' /\ \A i \in 1..ClassCount : i \in I <=> i \in J
    BY <1>1, <2>2 DEF Places
  <2> HIDE DEF I, J
  <2>5. J # {} /\ Min(J) = Min(I)
    BY <1>1, <2>2, <2>3, <2>4, FirstStays
  <2> QED
    BY <2>1, <2>2, <2>5
<1>4. ASSUME NEW token, FindByTypeToken(token) # 0
      PROVE  FindByTypeToken(token)' = FindByTypeToken(token)
  <2> DEFINE I == {i \in Places : registeredClasses[i].TypeToken = token}
             J == {i \in Places' : registeredClasses'[i].TypeToken = token}
  <2>1. /\ FindByTypeToken(token) = IF I # {} THEN Min(I) ELSE 0
        /\ FindByTypeToken(token)' = IF J # {} THEN Min(J) ELSE 0
    BY DEF FindByTypeToken, SelectInSeq, Places, ClassCount
  <2>2. I # {} /\ \A i \in Places : i \in I <=> i \in J
    BY <1>1, <1>4, <2>1
  <2>3. I \in SUBSET (1..ClassCount) /\ J \in SUBSET (1..ClassCount')
    BY DEF Places
  <2>4. ClassCount <= ClassCount' /\ \A i \in 1..ClassCount : i \in I <=> i \in J
    BY <1>1, <2>2 DEF Places
  <2> HIDE DEF I, J
  <2>5. J # {} /\ Min(J) = Min(I)
    BY <1>1, <2>2, <2>3, <2>4, FirstStays
  <2> QED
    BY <2>1, <2>2, <2>5
<1> QED
  BY <1>2, <1>3, <1>4 DEF LookupsStable

-----------------------------------------------------------------------------
(* Ancestry: the chain of parents descends, so it ends.                    *)

Parent(x) == IF x = NoParent THEN NoParent ELSE registeredClasses[x].Parent

LEMMA ParentIs ==
    ASSUME RegistryInvariant
    PROVE  /\ ClassCount \in Nat /\ NoParent = 0 /\ Parent(0) = 0
           /\ \A x \in 1..ClassCount :
                 Parent(x) = registeredClasses[x].Parent /\ Parent(x) \in 0..ClassCount /\ Parent(x) < x
           /\ \A x \in 0..ClassCount : Parent(x) \in 0..ClassCount
<1>1. ClassCount \in Nat /\ NoParent = 0 /\ Parent(0) = 0
  BY PlacesAreThere DEF RegistryInvariant, NoParent, Parent
<1>2. ASSUME NEW x \in 1..ClassCount
      PROVE  Parent(x) = registeredClasses[x].Parent /\ Parent(x) \in 0..ClassCount /\ Parent(x) < x
  <2>1. x # 0 /\ Parent(x) = registeredClasses[x].Parent
    BY <1>1 DEF Parent
  <2>2. registeredClasses[x] \in Descriptors /\ registeredClasses[x].Parent < x
    BY <1>2, PlacesAreThere DEF RegistryInvariant, HierarchySound, Places
  <2>3. registeredClasses[x].Parent \in 0..ForeignCopy
    BY <1>1, <2>2 DEF Descriptors
  <2>4. registeredClasses[x].Parent \in 0..ClassCount
    BY <1>1, <2>2, <2>3, RegistryAssumption DEF ForeignCopy
  <2> QED
    BY <2>1, <2>2, <2>4
<1>3. \A x \in 0..ClassCount : Parent(x) \in 0..ClassCount
  <2> TAKE x \in 0..ClassCount
  <2>1. x = 0 \/ x \in 1..ClassCount
    BY <1>1
  <2> QED
    BY <1>1, <1>2, <2>1
<1> QED
  BY <1>1, <1>2, <1>3

\* f is the chain of the first n links above d.
IsChain(f, d, n) ==
    /\ f[0] = d
    /\ \A k \in 1..n : f[k] = Parent(f[k - 1])

LEMMA ChainGoesOn ==
    ASSUME NEW d, NEW m \in Nat
    PROVE  \E f : IsChain(f, d, m)
<1> DEFINE stuck == {k \in 0..m : ~ \E f : IsChain(f, d, k)}
<1>1. SUFFICES ASSUME m \in stuck PROVE FALSE
  OBVIOUS
<1>2. stuck \in SUBSET (0..m) /\ stuck # {}
  BY <1>1
<1>3. PICK n \in stuck : n \in 0..m /\ \A k \in stuck : n <= k
  <2> HIDE DEF stuck
  <2> QED
    BY <1>2, LeastUpTo
<1>4. n \in stuck /\ n \in Nat /\ \A k \in stuck : n <= k
  BY <1>3
<1>5. n # 0
  <2>1. IsChain([k \in {0} |-> d], d, 0)
    BY DEF IsChain
  <2> QED
    BY <1>4, <2>1
<1>6. n - 1 \in 0..m /\ n - 1 \notin stuck
  BY <1>4, <1>5
<1>7. PICK f : IsChain(f, d, n - 1)
  BY <1>6
<1> DEFINE g == [k \in 0..n |-> IF k = n THEN Parent(f[n - 1]) ELSE f[k]]
<1>8. g[n] = Parent(f[n - 1]) /\ \A k \in 0..(n - 1) : g[k] = f[k]
  BY <1>4, <1>5
<1> HIDE DEF g
<1>9. IsChain(g, d, n)
  <2>1. g[0] = d
    BY <1>4, <1>5, <1>7, <1>8 DEF IsChain
  <2>2. ASSUME NEW k \in 1..n
        PROVE  g[k] = Parent(g[k - 1])
    <3>1. k - 1 \in 0..(n - 1) /\ g[k - 1] = f[k - 1]
      BY <1>4, <1>8
    <3>2. CASE k = n
      BY <1>8, <3>1, <3>2
    <3>3. CASE k # n
      <4>1. k \in 1..(n - 1) /\ k \in 0..(n - 1)
        BY <1>4, <3>3
      <4> QED
        BY <1>7, <1>8, <3>1, <4>1 DEF IsChain
    <3> QED
      BY <3>2, <3>3
  <2> QED
    BY <2>1, <2>2 DEF IsChain
<1> QED
  BY <1>4, <1>9

\* Two chains from the same class differ nowhere: nowhere first.
LEMMA ChainsAgree ==
    ASSUME NEW d, NEW m \in Nat, NEW f, NEW g, IsChain(f, d, m), IsChain(g, d, m)
    PROVE  \A k \in 0..m : f[k] = g[k]
<1> DEFINE apart == {k \in 0..m : f[k] # g[k]}
<1>1. SUFFICES ASSUME apart # {} PROVE FALSE
  OBVIOUS
<1>2. apart \in SUBSET (0..m)
  OBVIOUS
<1>3. PICK n \in apart : n \in 0..m /\ \A k \in apart : n <= k
  <2> HIDE DEF apart
  <2> QED
    BY <1>1, <1>2, LeastUpTo
<1>4. n \in apart /\ n \in Nat /\ \A k \in apart : n <= k
  BY <1>3
<1>5. n # 0
  BY <1>4 DEF IsChain
<1>6. n \in 1..m /\ n - 1 \in 0..m /\ n - 1 \notin apart
  BY <1>4, <1>5
<1> QED
  BY <1>4, <1>6 DEF IsChain

LEMMA AboveIs ==
    ASSUME NEW d, NEW m \in Nat, NEW f, IsChain(f, d, m)
    PROVE  Above(d, m) = f[m]
<1> DEFINE Links(up) == [n \in 0..m |-> IF n = 0 THEN d
                                        ELSE IF up[n - 1] = NoParent THEN NoParent
                                        ELSE registeredClasses[up[n - 1]].Parent]
           chain == CHOOSE up : up = Links(up)
<1>1. \E up : up = Links(up)
  <2> DEFINE g == [n \in 0..m |-> f[n]]
  <2>1. \A k \in 0..m : g[k] = f[k]
    OBVIOUS
  <2> HIDE DEF g
  <2>2. \A k \in 0..m :
           g[k] = IF k = 0 THEN d ELSE IF g[k - 1] = NoParent THEN NoParent
                                       ELSE registeredClasses[g[k - 1]].Parent
    <3> TAKE k \in 0..m
    <3>1. CASE k = 0
      BY <2>1, <3>1 DEF IsChain
    <3>2. CASE k # 0
      <4>1. k \in 1..m /\ k - 1 \in 0..m
        BY <3>2
      <4> QED
        BY <2>1, <3>2, <4>1 DEF IsChain, Parent
    <3> QED
      BY <3>1, <3>2
  <2>3. g = [n \in 0..m |-> g[n]]
    BY DEF g
  <2>4. g = Links(g)
    BY <2>2, <2>3
  <2> QED
    BY <2>4
<1>2. chain = Links(chain)
  <2> HIDE DEF Links
  <2> QED
    BY <1>1
<1>3. Above(d, m) = chain[m]
  BY DEF Above
<1> HIDE DEF chain
<1>4. IsChain(chain, d, m)
  <2>1. chain[0] = d
    BY <1>2
  <2>2. \A k \in 1..m : chain[k] = Parent(chain[k - 1])
    BY <1>2 DEF Parent
  <2> QED
    BY <2>1, <2>2 DEF IsChain
<1> QED
  BY <1>3, <1>4, ChainsAgree

LEMMA AboveSteps ==
    ASSUME NEW d, NEW k \in Nat
    PROVE  /\ Above(d, 0) = d
           /\ Above(d, k + 1) = Parent(Above(d, k))
           /\ Above(d, k + 1) = Above(Parent(d), k)
<1>1. PICK f : IsChain(f, d, k + 1)
  BY ChainGoesOn
<1>2. IsChain(f, d, 0) /\ IsChain(f, d, k)
  BY <1>1 DEF IsChain
<1>3. Above(d, 0) = f[0] /\ Above(d, k) = f[k] /\ Above(d, k + 1) = f[k + 1]
  <2>1. k + 1 \in Nat
    OBVIOUS
  <2> QED
    BY <1>1, <1>2, <2>1, AboveIs
<1>4. f[0] = d /\ f[k + 1] = Parent(f[k]) /\ f[1] = Parent(d)
  <2>1. k + 1 \in 1..(k + 1) /\ (k + 1) - 1 = k /\ 1 \in 1..(k + 1)
    OBVIOUS
  <2> QED
    BY <1>1, <2>1 DEF IsChain
<1> DEFINE g == [n \in 0..k |-> f[n + 1]]
<1>5. \A n \in 0..k : g[n] = f[n + 1]
  OBVIOUS
<1> HIDE DEF g
<1>6. IsChain(g, Parent(d), k)
  <2>1. g[0] = Parent(d)
    BY <1>4, <1>5
  <2>2. ASSUME NEW n \in 1..k
        PROVE  g[n] = Parent(g[n - 1])
    <3>1. n \in 0..k /\ n - 1 \in 0..k /\ n + 1 \in 1..(k + 1) /\ (n + 1) - 1 = n /\ (n - 1) + 1 = n
      OBVIOUS
    <3>2. f[n + 1] = Parent(f[n])
      BY <1>1, <3>1 DEF IsChain
    <3> QED
      BY <1>5, <3>1, <3>2
  <2> QED
    BY <2>1, <2>2 DEF IsChain
<1>7. Above(Parent(d), k) = f[k + 1]
  BY <1>5, <1>6, AboveIs
<1> QED
  BY <1>3, <1>4, <1>7

LEMMA AboveDescends ==
    ASSUME RegistryInvariant, NEW d \in 0..ClassCount, NEW m \in Nat
    PROVE  Above(d, m) \in 0..ClassCount /\ (Above(d, m) # 0 => Above(d, m) + m <= d)
<1> DEFINE Descends(k) == Above(d, k) \in 0..ClassCount /\ (Above(d, k) # 0 => Above(d, k) + k <= d)
           bad == {k \in 0..m : ~Descends(k)}
<1>1. SUFFICES ASSUME bad # {} PROVE FALSE
  OBVIOUS
<1>2. PICK n \in bad : n \in 0..m /\ \A k \in bad : n <= k
  <2>1. bad \in SUBSET (0..m)
    OBVIOUS
  <2> HIDE DEF bad
  <2> QED
    BY <1>1, <2>1, LeastUpTo
<1>3. n # 0
  BY <1>2, AboveSteps, ParentIs
<1>4. n - 1 \in 0..m /\ n - 1 \in Nat /\ Descends(n - 1) /\ (n - 1) + 1 = n
  BY <1>2, <1>3
<1>5. Above(d, n) = Parent(Above(d, n - 1))
  BY <1>4, AboveSteps
<1>6. Descends(n)
  <2>1. CASE Above(d, n - 1) = 0
    BY <1>5, <2>1, ParentIs
  <2>2. CASE Above(d, n - 1) # 0
    <3>1. Above(d, n - 1) \in 1..ClassCount /\ Above(d, n - 1) + (n - 1) <= d
      BY <1>4, <2>2, ParentIs
    <3>2. Above(d, n) \in 0..ClassCount /\ Above(d, n) < Above(d, n - 1)
      BY <1>5, <3>1, ParentIs
    <3> QED
      BY <1>2, <3>1, <3>2, ParentIs
  <2> QED
    BY <2>1, <2>2
<1> QED
  BY <1>2, <1>6

\* Whoever follows the chain farther is lower, so it never meets itself.
LEMMA AboveFarther ==
    ASSUME RegistryInvariant, NEW d \in 0..ClassCount, NEW n \in Nat, NEW m \in Nat, n < m,
           Above(d, m) # 0
    PROVE  Above(d, m) < Above(d, n)
<1> DEFINE bad == {k \in 0..m : n < k /\ Above(d, k) # 0 /\ ~(Above(d, k) < Above(d, n))}
<1>1. SUFFICES ASSUME bad # {} PROVE FALSE
  OBVIOUS
<1>2. PICK k \in bad : k \in 0..m /\ \A j \in bad : k <= j
  <2>1. bad \in SUBSET (0..m)
    OBVIOUS
  <2> HIDE DEF bad
  <2> QED
    BY <1>1, <2>1, LeastUpTo
<1>3. /\ k - 1 \in 0..m /\ k - 1 \in Nat /\ (k - 1) + 1 = k /\ n <= k - 1
      /\ k - 1 \notin bad
  BY <1>2
<1>4. Above(d, k) = Parent(Above(d, k - 1))
  BY <1>3, AboveSteps
<1>5. Above(d, k - 1) # 0
  BY <1>2, <1>4, ParentIs
<1>6. Above(d, k - 1) \in 1..ClassCount /\ Above(d, n) \in 0..ClassCount /\ Above(d, k) \in 0..ClassCount
  BY <1>2, <1>3, <1>5, AboveDescends, ParentIs
<1>7. Above(d, k) < Above(d, k - 1)
  BY <1>4, <1>6, ParentIs
<1>8. n = k - 1 \/ Above(d, k - 1) < Above(d, n)
  BY <1>3, <1>5
<1> QED
  BY <1>2, <1>6, <1>7, <1>8, ParentIs

\* The hierarchy above the first n classes.
IsAncestry(f, n) ==
    /\ f[0] = {}
    /\ \A d \in 1..n : f[d] = {d} \cup f[Parent(d)]

LEMMA AncestryGoesOn ==
    ASSUME RegistryInvariant
    PROVE  \E f : IsAncestry(f, ClassCount)
<1> DEFINE stuck == {k \in 0..ClassCount : ~ \E f : IsAncestry(f, k)}
<1>0. ClassCount \in Nat
  BY ParentIs
<1>1. SUFFICES ASSUME ClassCount \in stuck PROVE FALSE
  BY <1>0
<1>2. PICK n \in stuck : n \in 0..ClassCount /\ \A k \in stuck : n <= k
  <2>1. stuck \in SUBSET (0..ClassCount) /\ stuck # {}
    BY <1>1
  <2> HIDE DEF stuck
  <2> QED
    BY <1>0, <2>1, LeastUpTo
<1>3. n # 0
  <2>1. IsAncestry([k \in {0} |-> {}], 0)
    BY DEF IsAncestry
  <2> QED
    BY <1>2, <2>1
<1>4. n \in 1..ClassCount /\ n - 1 \in 0..ClassCount /\ n - 1 \notin stuck
  BY <1>0, <1>2, <1>3
<1>5. PICK f : IsAncestry(f, n - 1)
  BY <1>4
<1> DEFINE g == [d \in 0..n |-> IF d = n THEN {n} \cup f[Parent(n)] ELSE f[d]]
<1>6. g[n] = {n} \cup f[Parent(n)] /\ \A d \in 0..(n - 1) : g[d] = f[d]
  BY <1>4
<1> HIDE DEF g
<1>7. IsAncestry(g, n)
  <2>1. g[0] = {}
    BY <1>4, <1>5, <1>6 DEF IsAncestry
  <2>2. ASSUME NEW d \in 1..n
        PROVE  g[d] = {d} \cup g[Parent(d)]
    <3>1. d \in 1..ClassCount
      BY <1>0, <1>4
    <3>2. Parent(d) \in 0..ClassCount /\ Parent(d) < d
      BY <3>1, ParentIs
    <3>3. Parent(d) \in 0..(n - 1) /\ g[Parent(d)] = f[Parent(d)]
      BY <1>0, <1>4, <1>6, <3>2
    <3>4. CASE d = n
      BY <1>6, <3>3, <3>4
    <3>5. CASE d # n
      <4>1. d \in 1..(n - 1) /\ d \in 0..(n - 1)
        BY <1>4, <3>5
      <4>2. f[d] = {d} \cup f[Parent(d)]
        BY <1>5, <4>1 DEF IsAncestry
      <4> QED
        BY <1>6, <3>3, <4>1, <4>2
    <3> QED
      BY <3>4, <3>5
  <2> QED
    BY <2>1, <2>2 DEF IsAncestry
<1> QED
  BY <1>2, <1>7

LEMMA AncestryIs == RegistryInvariant => IsAncestry(Ancestry, ClassCount)
<1> SUFFICES ASSUME RegistryInvariant PROVE IsAncestry(Ancestry, ClassCount)
  OBVIOUS
<1> DEFINE Classes(f) == [d \in 0..ClassCount |->
                            IF d = 0 THEN {} ELSE {d} \cup f[registeredClasses[d].Parent]]
<1>1. \E f : f = Classes(f)
  <2>1. PICK f : IsAncestry(f, ClassCount)
    BY AncestryGoesOn
  <2> DEFINE g == [d \in 0..ClassCount |-> f[d]]
  <2>2. \A d \in 0..ClassCount : g[d] = f[d]
    OBVIOUS
  <2> HIDE DEF g
  <2>3. \A d \in 0..ClassCount :
           g[d] = IF d = 0 THEN {} ELSE {d} \cup g[registeredClasses[d].Parent]
    <3> TAKE d \in 0..ClassCount
    <3>1. CASE d = 0
      BY <2>1, <2>2, <3>1 DEF IsAncestry
    <3>2. CASE d # 0
      <4>1. d \in 1..ClassCount
        BY <3>2, ParentIs
      <4>2. registeredClasses[d].Parent = Parent(d) /\ Parent(d) \in 0..ClassCount
        BY <4>1, ParentIs
      <4>3. f[d] = {d} \cup f[Parent(d)]
        BY <2>1, <4>1 DEF IsAncestry
      <4> QED
        BY <2>2, <3>2, <4>2, <4>3
    <3> QED
      BY <3>1, <3>2
  <2>4. g = [d \in 0..ClassCount |-> g[d]]
    BY DEF g
  <2>5. g = Classes(g)
    BY <2>3, <2>4
  <2> QED
    BY <2>5
<1>2. Ancestry = Classes(Ancestry)
  <2>1. Ancestry = CHOOSE f : f = Classes(f)
    BY DEF Ancestry
  <2> HIDE DEF Classes
  <2> QED
    BY <1>1, <2>1
<1>3. ClassCount \in Nat
  BY ParentIs
<1>4. PICK a : a = Ancestry
  OBVIOUS
<1>5. \A d \in 0..ClassCount :
         a[d] = IF d = 0 THEN {} ELSE {d} \cup a[registeredClasses[d].Parent]
  <2>1. a = Classes(a)
    BY <1>2, <1>4
  <2> QED
    BY <2>1
<1>6. a[0] = {}
  <2>1. 0 \in 0..ClassCount
    BY <1>3
  <2>2. a[0] = IF 0 = 0 THEN {} ELSE {0} \cup a[registeredClasses[0].Parent]
    BY <1>5, <2>1, Zenon
  <2> QED
    BY <2>2
<1>7. ASSUME NEW d \in 1..ClassCount
      PROVE  a[d] = {d} \cup a[Parent(d)]
  <2>1. d \in 0..ClassCount /\ d # 0
    BY <1>3
  <2>2. Parent(d) = registeredClasses[d].Parent
    BY ParentIs
  <2> QED
    BY <1>5, <2>1, <2>2
<1> QED
  BY <1>4, <1>6, <1>7 DEF IsAncestry

\* The walk along the chain meets the classes of the hierarchy, and its bound is enough.
LEMMA WalkMeetsAncestry ==
    ASSUME RegistryInvariant, NEW d \in 0..ClassCount, NEW x \in Places
    PROVE  x \in Ancestry[d] <=> AncestryContains(d, x)
<1> DEFINE Meets(e) == x \in Ancestry[e] <=> AncestryContains(e, x)
           bad == {e \in 0..ClassCount : ~Meets(e)}
<1>1. SUFFICES ASSUME bad # {} PROVE FALSE
  OBVIOUS
<1>2. ClassCount \in Nat /\ ClassCount <= MaxClasses /\ MaxClasses \in Nat /\ x \in 1..ClassCount
  BY ParentIs, RegistryAssumption DEF RegistryInvariant, RegistryTypeOK, Places
<1>3. PICK n \in bad : n \in 0..ClassCount /\ \A k \in bad : n <= k
  <2>1. bad \in SUBSET (0..ClassCount)
    OBVIOUS
  <2> HIDE DEF bad
  <2> QED
    BY <1>1, <1>2, <2>1, LeastUpTo
<1>4. n # 0
  <2> SUFFICES ASSUME n = 0 PROVE FALSE
    OBVIOUS
  <2>1. x \notin Ancestry[0]
    BY AncestryIs DEF IsAncestry
  <2>2. ASSUME NEW k \in 0..MaxClasses, Above(0, k) = x PROVE FALSE
    <3>1. 0 \in 0..ClassCount /\ k \in Nat
      BY <1>2
    <3>2. Above(0, k) # 0 => Above(0, k) + k <= 0
      BY <3>1, AboveDescends
    <3> QED
      BY <1>2, <2>2, <3>1, <3>2
  <2> QED
    BY <1>3, <2>1, <2>2 DEF AncestryContains
<1> DEFINE p == Parent(n)
<1>5. n \in 1..ClassCount /\ p \in 0..ClassCount /\ p < n
  <2>1. n \in 1..ClassCount
    BY <1>2, <1>3, <1>4
  <2> QED
    BY <2>1, ParentIs
<1>6. Ancestry[n] = {n} \cup Ancestry[p]
  BY <1>5, AncestryIs DEF IsAncestry
<1>7. \A k \in Nat : Above(n, 0) = n /\ Above(n, k + 1) = Above(p, k)
  BY AboveSteps
<1> HIDE DEF p
<1>8. x \in Ancestry[p] <=> AncestryContains(p, x)
  <2>1. p \notin bad
    BY <1>3, <1>5
  <2> QED
    BY <1>5, <2>1
<1>9. ASSUME x \in Ancestry[n] PROVE AncestryContains(n, x)
  <2>1. CASE x = n
    BY <1>2, <1>7, <2>1 DEF AncestryContains
  <2>2. CASE x # n
    <3>1. PICK k \in 0..MaxClasses : Above(p, k) = x
      BY <1>6, <1>8, <1>9, <2>2 DEF AncestryContains
    <3>2. k \in Nat /\ k + 1 \in Nat /\ Above(n, k + 1) = x
      BY <1>2, <1>7, <3>1
    <3>3. x + (k + 1) <= n
      <4>1. Above(n, k + 1) # 0 => Above(n, k + 1) + (k + 1) <= n
        BY <1>3, <3>2, AboveDescends
      <4> QED
        BY <1>2, <3>2, <4>1
    <3>4. k + 1 \in 0..MaxClasses
      BY <1>2, <1>5, <3>2, <3>3
    <3> QED
      BY <3>2, <3>4 DEF AncestryContains
  <2> QED
    BY <2>1, <2>2
<1>10. ASSUME AncestryContains(n, x) PROVE x \in Ancestry[n]
  <2>1. PICK k \in 0..MaxClasses : Above(n, k) = x
    BY <1>10 DEF AncestryContains
  <2>2. CASE k = 0
    BY <1>6, <1>7, <2>1, <2>2
  <2>3. CASE k # 0
    <3>1. k - 1 \in 0..MaxClasses /\ k - 1 \in Nat /\ (k - 1) + 1 = k
      BY <1>2, <2>3
    <3>2. Above(p, k - 1) = x
      BY <1>7, <2>1, <3>1
    <3> QED
      BY <1>6, <1>8, <3>1, <3>2 DEF AncestryContains
  <2> QED
    BY <2>2, <2>3
<1> QED
  BY <1>3, <1>9, <1>10

LEMMA ClassesAreSound == RegistryInvariant => ClassesSound
<1> SUFFICES ASSUME RegistryInvariant PROVE ClassesSound
  OBVIOUS
<1>1. ClassCount < MaxClasses => AllocateAutomaticTypeId.id # 0
  BY ProbeFindsRoom, RegistryAssumption DEF RegistryInvariant
<1>2. ASSUME NEW i \in Places, NEW j \in Places
      PROVE  IsChildOf(i, j) <=> j \in Ancestry[i]
  <2>1. i \in 0..ClassCount
    BY ParentIs DEF Places
  <2>2. HasAcyclicAncestry(i)
    <3> SUFFICES ASSUME NEW k \in 1..MaxClasses, Above(i, 2 * k) # NoParent
                 PROVE  Above(i, k) # Above(i, 2 * k)
      BY DEF HasAcyclicAncestry
    <3>1. k \in Nat /\ 2 * k \in Nat /\ k < 2 * k
      BY RegistryAssumption
    <3>2. Above(i, 2 * k) < Above(i, k)
      BY <2>1, <3>1, AboveFarther DEF NoParent
    <3>3. Above(i, k) \in 0..ClassCount
      BY <2>1, <3>1, AboveDescends
    <3> QED
      BY <3>2, <3>3, ParentIs
  <2> QED
    BY <2>1, <2>2, WalkMeetsAncestry DEF IsChildOf
<1> QED
  BY <1>1, <1>2 DEF ClassesSound, RegistryInvariant, HierarchySound

\* A descriptor that is found is found for ever where it was; no id is given twice, an
\* automatic id is found whenever there is room, and IsChildOf is the hierarchy: for
\* every capacity, every set of types, wherever the automatic ids begin and wrap, and
\* whatever ids the program chooses for itself
\* (ClassRegistry.h:60-84, 128-201, ClassDescriptor.h:78-125).
THEOREM ClassesAreFoundForEver == StorageSpec => ClassesStayResolved
<1>1. StorageInit => RegistryInvariant
  <2> SUFFICES ASSUME StorageInit PROVE RegistryInvariant
    OBVIOUS
  <2>1. registeredClasses = <<>> /\ nextAutomaticTypeId = FirstAutomaticTypeId
    BY DEF StorageInit, ClassInit
  <2>2. ClassCount = 0 /\ Places = {}
    BY <2>1 DEF ClassCount, Places
  <2>3. FirstAutomaticTypeId \in FirstAutomaticTypeId..(TypeIdCount - 1) /\ 0 <= MaxClasses
    BY RegistryAssumption
  <2> QED
    BY <2>1, <2>2, <2>3 DEF RegistryInvariant, RegistryTypeOK, HierarchySound
<1>2. RegistryInvariant /\ [StorageNext]_storageVars => RegistryInvariant' /\ [LookupsStable]_classVars
  <2> SUFFICES ASSUME RegistryInvariant, [StorageNext]_storageVars
               PROVE  RegistryInvariant' /\ [LookupsStable]_classVars
    OBVIOUS
  <2>1. CASE ClassNext
    <3>1. /\ RegistryInvariant' /\ ClassCount' = ClassCount + 1
          /\ \A i \in Places : registeredClasses'[i] = registeredClasses[i]
      BY <2>1, RegistryGrows
    <3>2. ClassCount' >= ClassCount
      BY <3>1, ParentIs
    <3> QED
      BY <3>1, <3>2, LookupsStay DEF RegistryInvariant
  <2>2. CASE ~ClassNext
    <3>1. UNCHANGED classVars
      BY <2>2 DEF StorageNext, MemoryStep, ClassStep, MessageStep, storageVars
    <3> QED
      BY <3>1 DEF classVars, RegistryInvariant, RegistryTypeOK, HierarchySound, ClassCount, Places
  <2> QED
    BY <2>1, <2>2
<1>3. RegistryInvariant => ClassesSound
  BY ClassesAreSound
<1> QED
  BY <1>1, <1>2, <1>3, PTL DEF StorageSpec, ClassesStayResolved
=============================================================================
