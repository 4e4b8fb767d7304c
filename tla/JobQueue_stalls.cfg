SPECIFICATION FairSpec
CONSTANTS
    w1 = w1
    w2 = w2
    w3 = w3
    j1 = j1
    NoJob = NoJob
    NoWorker = NoWorker
    Workers <- ThreeWorkers
    Jobs <- OneJob
    Cancellable <- OneJob
    Errors <- MCErrors
    MaxAttempts = 2
    MayStall = TRUE
    MayCrash = TRUE
INVARIANT AttemptsBounded
PROPERTY JobSettles
