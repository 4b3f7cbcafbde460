CONSTANTS
    N = 1
    Blocks <- TwoBlocks
    KindLists <- Single
    Formats <- FirstBlock
    Checks <- SourceCheck
    Attempts = 5
    MaxWrites = 1
    MaxTears = 0
    MaxRot = 0
SPECIFICATION Spec
INVARIANTS
    LockedIsWhole
