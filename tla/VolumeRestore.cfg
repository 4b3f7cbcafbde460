SPECIFICATION Spec
CONSTANTS
    Jobs <- MCJobs
    Targets = {12, 13, 14, 16}
    Slacks = {0, 1}
    ClusterLbas = 2
    PageClusters = 4
    Reserve = 3
    MaxPasses = 3
    RecordsPerCluster = 3
    MirrorRecords = 2
    LabelCluster = 99
CHECK_DEADLOCK FALSE
INVARIANTS
    CaptureIsWhole
    PlanIsSound
    PreflightHolds
    FilesReadBack
    MetadataAgrees
    GeometryMounts
PROPERTIES
    PlanReturns
