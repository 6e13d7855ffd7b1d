\* The attempts and the threshold of the driver; packets always full, and packets of any
\* fill.
SPECIFICATION FairSpec
CONSTANTS
    BufLen = 3
    StatusSize = 1
    DataPerPacket = 2
    MaxRetries = 3
    Threshold = 5
INVARIANTS
    TypeOK
    ExactFromEmpty
    DeafChipRemembered
    RecoveryTried
PROPERTIES
    BacklogDrains
    TransferEnds
    Heals
