----------------------------- MODULE AuditRunMC -----------------------------
(* One audit with a few jobs and workers, for TLC. *)
EXTENDS AuditRun, TLC

CONSTANTS w1, w2, j1, j2

MCWorkers == {w1, w2}
OneJob == {j1}
TwoJobs == {j1, j2}
NoJobs == {}

\* One class of those that are retried stands for the three.
MCErrors == {"transient", "permanent", "cancelled", "timeout"}

\* Workers are interchangeable, and so are the rows of jobs that can all be cancelled;
\* only for safety.
AuditSymmetry == Permutations(MCWorkers) \cup Permutations(TwoJobs)
=============================================================================
