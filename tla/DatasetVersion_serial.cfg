SPECIFICATION Spec
CONSTANTS
    r1 = r1
    p1 = p1
    p2 = p2
    f1 = f1
    f2 = f2
    f3 = f3
    j1 = j1
    j2 = j2
    j3 = j3
    Requests <- MCRequests
    Parts <- MCParts
    Files <- MCFiles
    Jobs <- MCJobs
    MaxAttempts = 3
    RequestsOverlap = FALSE
    MayFailWhenReady = FALSE
    MayRetryEarly = TRUE
SYMMETRY DataSymmetry
CHECK_DEADLOCK FALSE
INVARIANTS IngestionHasArchive NoUploadLeftOpen ReadyIsWhole
PROPERTY ReadyIsFinal
