SPECIFICATION AuditFairSpec
CONSTANTS
    w1 = w1
    w2 = w2
    j1 = j1
    j2 = j2
    NoJob = NoJob
    NoWorker = NoWorker
    Workers <- MCWorkers
    Jobs <- OneJob
    Cancellable <- NoJobs
    Errors <- MCErrors
    MaxAttempts = 2
    MayStall = FALSE
    MayCrash = TRUE
    MayResumeAtOnce = FALSE
    MayCancelClaimed = FALSE
    NumStages = 1
PROPERTY AuditSettles
CHECK_DEADLOCK FALSE
