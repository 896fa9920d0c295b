CONSTANTS
    StorageCapacityBytes = 4
    GuaranteedAlignmentBytes = 2
    StrongOwners = {head}
    WeakOwners = {w1}
    UniqueOwners = {u1}
    SharedSizeBytes = 2
    SharedAlignment = 2
    UniqueSizeBytes = 1
    UniqueAlignment = 1
    MaxReferenceCount = 2
    NoBlock = NoBlock
SPECIFICATION ListSpec
INVARIANT
    AssignedValueSurvives
