CONSTANTS
    MaxTimers = 2
    MaxTimerGeneration = 2
    MaxTime = 2
    Delays = {0, 1}
    MaxBindings = 2
    MaxBindingGeneration = 1
    EndOfTime = 4
    MaxDuration = 2
    Intervals = {0, 1, 2}
    StorageCapacityBytes = 5
    GuaranteedAlignmentBytes = 2
    StrongOwners = {s1, s2}
    WeakOwners = {w1, w2}
    UniqueOwners = {u1, u2}
    SharedSizeBytes = 2
    SharedAlignment = 2
    UniqueSizeBytes = 1
    UniqueAlignment = 1
    MaxReferenceCount = 2
    NoBlock = NoBlock
    MaxClasses = 3
    Types = {t1, t2}
    TypeIdCount = 6
    FirstAutomaticTypeId = 3
    BaseTypeIds = {1}
    Radix = 3
    MaxMessageBytes = 16
    MaxRoutedBytes = 1
    Numbers = {0, 47}
    NoMessage = NoMessage
SPECIFICATION CoreSpec
INVARIANTS
    TablesSound
    MemorySound
PROPERTIES
    TimersFireInTurn
    BroadcastReachesAll
    TicksOnTime
    EveryTimerFires
    ClassesStayResolved
    DecodesExactly
