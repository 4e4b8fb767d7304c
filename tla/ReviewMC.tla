------------------------------ MODULE ReviewMC ------------------------------
(* One case, a few reviewers and exports, for TLC. *)
EXTENDS Review

CONSTANTS ann, bob, e1

MCReviewers == {ann, bob}
MCAdmins == {ann}
MCDecisive == {"keep", "remove"}
OneExport == {e1}
=============================================================================
