SPECIFICATION Spec
CONSTANTS
    ann = ann
    bob = bob
    e1 = e1
    Reviewers <- MCReviewers
    Admins <- MCAdmins
    Decisive <- MCDecisive
    Exports <- OneExport
    MaxDecisions = 3
    MaxRuns = 1
    MayEscalate = FALSE
    RequestsOverlap = TRUE
    ReviewDuringExport = FALSE
CHECK_DEADLOCK FALSE
INVARIANT StatusMatchesDecisions
