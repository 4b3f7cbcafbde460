CONSTANTS
    N = 2
    Blocks <- TwoBlocks
    KindLists <- Pairs
    Formats <- FirstBlock
    Checks <- AllChecks
    Attempts = 2
    MaxWrites = 1
    MaxTears = 2
    MaxRot = 1
SPECIFICATION FairSpec
INVARIANTS
    LetteredIsOneInstant
    ShadowIsWhole
    VerifiedIsOneInstant
    UncomparedIsIntact
PROPERTIES
    RunReturns
