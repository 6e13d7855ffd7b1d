SPECIFICATION Spec
CONSTANTS
    Blocks <- MCBlocks
    MaxCalls = 3
INVARIANTS
    SameSponge
    IsKeccak
