\* Two lengths that need several squeezes, one that is no multiple of a lane.
CONSTANTS
    Multipliers = {0, 1, 5, 12}
    MaxMultiplier = 10
    Unit = 32
    ChunkMax = 128
    Lane = 8
    RawBytes = 64
    Levels = {400, 450}
    Target = 437
    Requests = {21, 32, 128}
SPECIFICATION Spec
INVARIANTS
    TypeOK
    StoredFits
PROPERTIES
    ImplementsSource
