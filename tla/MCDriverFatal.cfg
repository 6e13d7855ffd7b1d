SPECIFICATION Spec
CONSTANTS
    Readers = {r1, r2}
    NoThread = NoThread
    Count = 2
    WarmupRounds = 2
    MaxLeft = 1
INVARIANT
    NoDataAfterFatal
