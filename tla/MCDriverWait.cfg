SPECIFICATION FairSpec
CONSTANTS
    Readers = {r1}
    NoThread = NoThread
    Count = 1
    WarmupRounds = 2
    MaxLeft = 0
PROPERTY
    WaitsOnlyForWarmup
