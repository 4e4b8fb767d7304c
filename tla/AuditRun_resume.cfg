SPECIFICATION AuditSpec
CONSTANTS
    w1 = w1
    w2 = w2
    j1 = j1
    j2 = j2
    NoJob = NoJob
    NoWorker = NoWorker
    Workers <- MCWorkers
    Jobs <- TwoJobs
    Cancellable <- TwoJobs
    Errors <- MCErrors
    MaxAttempts = 2
    MayStall = FALSE
    MayCrash = TRUE
    MayResumeAtOnce = TRUE
    MayCancelClaimed = FALSE
    NumStages = 2
SYMMETRY AuditSymmetry
INVARIANTS
    OneRunPerAudit
    StoppedAuditIsIdle
    CompletedAuditHasAllStages
    RecordedOncePerJob
    ExclusiveUnlessStalled
PROPERTIES CompletedStagesKept ImplementsLease
CHECK_DEADLOCK FALSE
