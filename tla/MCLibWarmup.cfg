\* A device that is unplugged, or late, during the warmup.
CONSTANTS
    Multipliers = {0, 1, 3, 5, 10}
    Word = 65536
    Levels = {400, 437, 600}
    Target = 437
    Provable = 437
    ChunkMax = 128
    MaxWarmup = 3
SPECIFICATION FairSpec
PROPERTY WarmupEnds
