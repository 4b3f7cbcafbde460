CONSTANTS
    Parts = 1
    Reserve = 1
    ExtentTables <- Plans
    Packed <- OneOrTwo
    MaxDamage = 1
SPECIFICATION Spec
INVARIANTS
    VerifyCatchesMetadata
