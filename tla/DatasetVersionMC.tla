-------------------------- MODULE DatasetVersionMC --------------------------
(* One version, its requests and its ingestion jobs, for TLC. *)
EXTENDS DatasetVersion, TLC

CONSTANTS r1, p1, p2, f1, f2, f3, j1, j2, j3

MCRequests == {r1}
MCParts    == {p1, p2}
MCFiles    == {f1, f2, f3}
MCJobs     == {j1, j2, j3}

DataSymmetry == Permutations(MCParts) \cup Permutations(MCFiles) \cup Permutations(MCJobs)
=============================================================================
