SPECIFICATION FairSpec
CONSTANTS
    Target <- ForeignBehind
    Source <- ScatteredFat
    Jobs <- CloneOnly
    Align = 2
    Fine = 1
    Lead = 1
    Trail = 1
    MbrLimit = 9
    MbrSlots = 1
    MaxEdits = 2
CHECK_DEADLOCK FALSE
INVARIANTS
    PreservedIntact
