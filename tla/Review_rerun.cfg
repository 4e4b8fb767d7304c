SPECIFICATION Spec
CONSTANTS
    ann = ann
    bob = bob
    e1 = e1
    Reviewers <- MCReviewers
    Admins <- MCAdmins
    Decisive <- MCDecisive
    Exports <- OneExport
    MaxDecisions = 1
    MaxRuns = 2
    MayEscalate = FALSE
    RequestsOverlap = FALSE
    ReviewDuringExport = FALSE
CHECK_DEADLOCK FALSE
INVARIANT OneVersionPerExport
