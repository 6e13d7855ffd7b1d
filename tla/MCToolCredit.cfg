\* Credit given to the entropy pool.
CONSTANTS
    Multipliers = {0, 1, 2, 3, 5, 10}
    Word = 65536
    Levels = {400, 437, 600}
    Target = 437
    Provable = 437
    ChunkMax = 128
    MaxWarmup = 2
    CreditMax = 900
    MaxDevices = 1
SPECIFICATION ToolSpec
INVARIANT CreditEarned
