\* Options that give one chunk and several, and two whose product with 256 wraps, to 0
\* and to several chunks; a level the clamp cuts.
CONSTANTS
    Multipliers = {0, 1, 2, 3, 5, 10, 256, 261}
    Word = 65536
    Levels = {400, 437, 600}
    Target = 437
    Provable = 437
    ChunkMax = 128
    MaxWarmup = 2
    CreditMax = 0
    MaxDevices = 3
SPECIFICATION FairToolSpec
INVARIANTS
    ToolTypeOK
    StoredFits
    PoolRecordFits
    ListOwned
PROPERTIES
    ImplementsSource
    TerminateEnds
