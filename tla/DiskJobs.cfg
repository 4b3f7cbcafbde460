SPECIFICATION FairSpec
CONSTANTS
    Target <- TwoLive
    Source <- ThreeKinds
    Jobs <- Both
    Align = 2
    Fine = 1
    Lead = 1
    Trail = 1
    MbrLimit = 9
    MbrSlots = 1
    MaxEdits = 3
CHECK_DEADLOCK FALSE
INVARIANTS
    EditorPlansPass
    PreservedIntact
    TableIsHonest
    RefusedUntouched
    CloneNeverDenied
PROPERTIES
    RunReturns
