SPECIFICATION FairSpec
CONSTANTS
    Workers = {w1, w2}
    Mortal = {w1, w2}
    JobCap = 1
    DoneCap = 1
    MaxChunks = 4
    MaxExtents = 2
    DataStart = 4
    CompLen <- MCCompLen
INVARIANTS
    StreamMatchesSerial
    FinishOkComplete
    OnlyDeathIsUnexplained
PROPERTIES
    CallsReturn
    ImplementsStream
