SPECIFICATION FairSpec
CONSTANTS
    ChunkSize = 2
    VolumeLen = 10
    TargetLen = 9
    ExtentLists <- MCExtentLists
    Moves <- MCMoves
    ShortReads = FALSE
    MaxDamage = 1
    Workers = {w1, w2}
    Mortal = {w1}
    JobCap = 1
    DoneCap = 1
INVARIANTS
    TargetIsPrefix
    RestoredFaithfully
PROPERTIES
    RestoreReturns
