\* Tables of two contexts, five blocks.
SPECIFICATION Spec
CONSTANTS
    TableSize = 2
    MinData = 8
    MinSampleSize = 1
    MaxSequence = 2
    MaxCount = 4
    MaxHalvings = 2
    Expected = 1
    Unit = 2
    Accuracy = 150
    BlockBits = 4
    MaxBits = 20
INVARIANTS
    TypeOK
    WindowFits
    TotalsScaled
    FaultPeriod
    CreditInBlock
