CONSTANTS
    SlotCount = 2
    RootCapacity = 1
    MaxGeneration = 1
    MaxComponentsPerActor = 0
    MaxReferences = 1
    WorklistCapacity = 2
    FrameReclamationBudget = 1
    NoSystem = NoSystem
SPECIFICATION FairFrames
INVARIANTS
    CallbacksSeeNoCycle
    EngineSound
PROPERTIES
    TurnsAlternate
    FramesReclaim
