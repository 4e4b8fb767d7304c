----------------------------- MODULE JobQueueMC -----------------------------
(* The job queue with a few jobs and workers, for TLC. *)
EXTENDS JobQueue

CONSTANTS w1, w2, w3, j1

TwoWorkers == {w1, w2}
ThreeWorkers == {w1, w2, w3}
OneJob == {j1}
NoJobs == {}

\* One class of those that are retried and one of those that are not, beside the cancellation.
MCErrors == {"transient", "permanent", "cancelled"}
=============================================================================
