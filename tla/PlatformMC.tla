----------------------------- MODULE PlatformMC -----------------------------
(***************************************************************************)
(* The parts of the platform around queue, audit, versions and review, one *)
(* instance of each.  They share no state: a behaviour is one of one part. *)
(***************************************************************************)
EXTENDS Migration, Deletion, Ledger, Members, ObjectCache, Purge, Retention, Dispatch, WhatIf,
        Jury, Governance

VARIABLE part
platformVars == <<part, migrationVars, deletionVars, ledgerVars, membersVars, cacheVars, purgeVars,
                  retentionVars, dispatchVars, whatIfVars, juryVars, governanceVars>>

PlatformParts == {"migration", "deletion", "ledger", "members", "cache", "purge", "retention",
                  "dispatch", "whatif", "jury", "governance"}

-----------------------------------------------------------------------------
(* Deletion *)

MCParent == [v1 |-> "d1", v2 |-> "d1", v3 |-> "d2", d1 |-> "p1", d2 |-> "p2", p1 |-> "o1", p2 |-> "o2"]
MCSibling == [v1 |-> "v2", v2 |-> "v1", v3 |-> "v3"]
MCUser == [h \in {"v1", "v2", "v3", "d1", "d2", "p1", "p2", "o1", "o2"} |->
            IF h \in {"v1", "o1", "d1"} THEN "u1" ELSE "u2"]
MCNote == [v1 |-> "u3", v2 |-> "u3", v3 |-> "u1"]

(* Ledger: what is hashed is the hash of its predecessor and the content. *)

MCHash(p, c) == <<p, c>>

(* ObjectCache *)

MCSizeOf == [k1 |-> 2, k2 |-> 1]

(* WhatIf *)

MCGiven == [i \in Samples |-> IF i \in {"s1", "s2", "s5", "e1"} THEN "a" ELSE "b"]

(* Governance: a sample with an exact leak, two label cases; contracts on different facts. *)

MCCourts == {[c1 |-> "LEAKAGE_ACTION_NEEDED", c2 |-> "STRONG_REVIEW", c3 |-> "REVIEW"],
             [c1 |-> "LEAKAGE_ACTION_NEEDED", c2 |-> "POSSIBLE_REMOVE", c3 |-> "POSSIBLE_RELABEL"]}
MCLeakSets == {[risk |-> "high", kind |-> "exact", samples |-> {"c1"}],
               [risk |-> "medium", kind |-> "near", samples |-> {"c1", "c2"}],
               [risk |-> "low", kind |-> "near", samples |-> {"c3"}]}
MCBackgrounds == {[gate |-> 0, levels |-> [quality |-> 0, coverage |-> 0]],
                  [gate |-> 1, levels |-> [quality |-> 1, coverage |-> 1]],
                  [gate |-> 2, levels |-> [quality |-> 2, coverage |-> 0]]}
Rule(metric, most) == [metric |-> metric, most |-> most]
MCRuleSets == {{Rule("exact_cross_split_duplicates", 0), Rule("leakage_findings_high", 1),
                Rule("unresolved_strong_review_cases", 0)},
               {Rule("debt_level", 1), Rule("leakage_eval_samples", 1)},
               {Rule("preflight_status", 1), Rule("unresolved_high_priority_cases", 2)}}

-----------------------------------------------------------------------------
(* The initial state of a part that is not looked at does not matter, so it is a small one.  *)

EverythingDeleted ==
    /\ present = {"security_audit_log"} \X Orgs
    /\ objects = {} /\ scheduled = {} /\ active_users = {}

PlatformInit ==
    /\ part \in PlatformParts
    /\ MigrationInit /\ LedgerInit /\ MembersInit /\ CacheInit /\ PurgeInit
    /\ RetentionInit /\ DispatchInit /\ WhatIfInit /\ JuryInit /\ GovernanceInit
    /\ IF part = "deletion" THEN DeletionInit ELSE EverythingDeleted
    /\ part # "whatif" => split = {}
    /\ part # "governance" =>
        /\ verdict = (CHOOSE v \in Courts : TRUE) /\ contract = (CHOOSE c \in RuleSets : TRUE)
        /\ background = (CHOOSE b \in Backgrounds : TRUE)

Rests(p, vars) == part # p => UNCHANGED vars

PlatformNext ==
    /\ UNCHANGED part
    /\ Rests("migration", migrationVars) /\ Rests("deletion", deletionVars)
    /\ Rests("ledger", ledgerVars) /\ Rests("members", membersVars)
    /\ Rests("cache", cacheVars) /\ Rests("purge", purgeVars)
    /\ Rests("retention", retentionVars) /\ Rests("dispatch", dispatchVars)
    /\ Rests("whatif", whatIfVars) /\ Rests("jury", juryVars) /\ Rests("governance", governanceVars)
    /\ \/ part = "migration" /\ MigrationNext
       \/ part = "deletion" /\ DeletionNext
       \/ part = "ledger" /\ LedgerNext
       \/ part = "members" /\ MembersNext
       \/ part = "cache" /\ CacheNext
       \/ part = "purge" /\ PurgeNext
       \/ part = "retention" /\ RetentionNext
       \/ part = "dispatch" /\ DispatchNext
       \/ part = "whatif" /\ WhatIfNext
       \/ part = "jury" /\ JuryNext
       \/ part = "governance" /\ GovernanceNext

PlatformSpec == PlatformInit /\ [][PlatformNext]_platformVars
=============================================================================
