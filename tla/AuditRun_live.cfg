SPECIFICATION AuditFairSpec
CONSTANTS
    w1 = w1
    w2 = w2
    j1 = j1
    j2 = j2
    NoJob = NoJob
    NoWorker = NoWorker
    Workers <- MCWorkers
    Jobs <- TwoJobs
    Cancellable <- NoJobs
    Errors <- MCErrors
    MaxAttempts = 3
    MayStall = FALSE
    MayCrash = FALSE
    MayResumeAtOnce = FALSE
    MayCancelClaimed = FALSE
    NumStages = 2
INVARIANT UnfinishedAuditHasJob
PROPERTY AuditSettles
CHECK_DEADLOCK FALSE
