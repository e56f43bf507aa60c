CONSTANTS
    t1 = t1
    t2 = t2
    Textures = {t1, t2}
    MaxUploads = 3
    MaxCommits = 3
    MaxPending = 2
    MaxOpen = 2
    Workloads <- MCWorkloads
SPECIFICATION UploadSpec
SYMMETRY Symmetry
CHECK_DEADLOCK FALSE
INVARIANTS
    UploadTypeOK
    UploadsOrdered
    WatermarkCatchesUp
