\* FpOne and MaxCount keep the relation of the header: 4 * (MaxCount - 1) is as large
\* as FpOne allows.
SPECIFICATION Spec
CONSTANTS
    FpOne = 8
    MaxDoublings = 3
    TableSize = 2
    MinData = 10
    MinSampleSize = 1
    MaxSequence = 2
    MaxCount = 3
    ExpectedEntropy = 4
    Accuracy = 12
    BlockBits = 4
    MaxBits = 20
INVARIANTS
    TypeOK
    TableCapped
    ProbPositive
    NoEarlyCredit
    StuckIffRun
    EstimateFits
