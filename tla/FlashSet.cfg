SPECIFICATION Spec
CONSTANTS
    NULL = NULL
    Names = {n1, n2}
    MaxField = 1400
    MiB = 4
    Payloads <- MCPayloads
    PageSizes <- MCPageSizes
    Contents <- MCContents
    FsSizes <- MCFsSizes
    Partitions <- MCPartitions
    Limits <- MCLimits
    Asked <- MCAsked
    Targets = {linux, userdata}
    MaxRuns = 3
INVARIANTS
    TypeOK
    BootImageReads
    ReadyRootIsWhole
    FitsPartition
    FilesInOrder
SYMMETRY Symmetry
