CONSTANTS
    Runners = {w1, w2}
    Audits <- MCAudits
    MaxReruns = 1
    MayOverlap = TRUE
INIT StagesInit
NEXT StagesNext
INVARIANTS RowsOfOneRun NothingMissing WholeAndCurrent
CHECK_DEADLOCK FALSE
