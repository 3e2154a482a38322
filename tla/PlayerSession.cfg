CONSTANTS
    Depths = {10}
    Surfaces <- PlayerSurfaces
    MaxTracked = 1
    FeedbackCapacity = 1
    MaxFailures = 2
    MaxInputs = 1
    MaxFrames = 1
    InputCapacity = 1
SPECIFICATION PlayerSpec
INVARIANTS
    OneSession
    OnlyCurrent
    NothingInUse
PROPERTIES
    StreamResumes
    StopEnds
