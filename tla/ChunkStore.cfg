CONSTANTS
    Disk <- TwoPartitions
    MaxRead = 6
    CacheCap = 2
SPECIFICATION FairSpec
INVARIANTS
    ReadsAreFaithful
    MostRecentKept
PROPERTIES
    ReadsReturn
