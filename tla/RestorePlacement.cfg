SPECIFICATION Spec
CONSTANTS
    ChunkSize = 2
    VolumeLen = 6
    TargetLen = 6
    ExtentLists <- MCLongExtents
    Moves <- MCStay
    ShortReads = TRUE
    MaxDamage = 0
    Workers = {w1, w2}
    Mortal = {}
    JobCap = 1
    DoneCap = 1
INVARIANT
    RestoredFaithfully
