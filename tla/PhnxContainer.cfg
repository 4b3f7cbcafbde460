CONSTANTS
    Parts = 2
    Reserve = 3
    ExtentTables <- Plans
    Packed <- OneOrTwo
    MaxDamage = 1
SPECIFICATION Spec
INVARIANTS
    OpenIsWhole
    FullVerifyProves
PROPERTIES
    NothingOverwritten
