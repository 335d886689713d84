SPECIFICATION ArchiveSpec
CONSTANTS
    Paths <- MCPaths
    Kind <- MCKind
    Size <- MCSize
    SigningKeys = {k1, k2}
    Versions = {v1, v2}
    Projects <- MCProjects
    OtherArchives <- MCOther
    MaxTotalBytes = 3
    MaxSingleFileBytes = 2
    MaxFiles = 3
    MaxPacked = 2
    MaxStreamFaults = 1
INVARIANTS VerifiedIsSigned LimitsHold UnpackComplete
PROPERTY UnpackSettles
CHECK_DEADLOCK FALSE
