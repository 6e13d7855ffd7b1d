SPECIFICATION FairSpec
CONSTANTS
    Readers = {r1}
    NoThread = NoThread
    Count = 2
    WarmupRounds = 2
    MaxLeft = 0

PROPERTIES
    DisconnectEnds
    WarmupEnds
    SignalReturns
