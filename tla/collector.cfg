CONSTANTS
    MaxObjects = 3
    SlotCount = 3
    RootCapacity = 2
    MaxGeneration = 2
    MaxComponentsPerActor = 1
    MaxReferences = 1
    WorklistCapacity = 3
SPECIFICATION MCSpec
INVARIANTS
    CycleInvariant
    RootsNameOccupants
PROPERTIES
    CycleReclaimsGarbage
    CallbacksFreezeStore
    HeapRefinement
