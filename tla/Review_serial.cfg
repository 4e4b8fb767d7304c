SPECIFICATION Spec
CONSTANTS
    ann = ann
    bob = bob
    e1 = e1
    Reviewers <- MCReviewers
    Admins <- MCAdmins
    Decisive <- MCDecisive
    Exports <- OneExport
    MaxDecisions = 3
    MaxRuns = 2
    MayEscalate = TRUE
    RequestsOverlap = FALSE
    ReviewDuringExport = FALSE
CHECK_DEADLOCK FALSE
INVARIANTS StatusMatchesDecisions FinalIffSettled ExportedDecisionStands
