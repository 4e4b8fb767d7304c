------------------------------- MODULE Schema -------------------------------
(***************************************************************************)
(* The relational schema as db/models.py declares it, reduced to what the  *)
(* other modules reason about: which columns of a table refer to which     *)
(* table and what happens to the row when its target is deleted, the       *)
(* unique keys, and the values the CHECK constraint of an enum column      *)
(* admits.  Column types, defaults and plain indexes are left out.         *)
(***************************************************************************)
\* Enumerations (enums.py) that constrain a column.
Role              == {"owner", "admin", "reviewer", "viewer"}
Split             == {"train", "val", "test", "unsplit"}
VersionStatus     == {"awaiting_upload", "uploaded", "ingesting", "ready", "failed"}
FileStatus        == {"accepted", "rejected", "ignored"}
AuditProfile      == {"fast", "deep"}
RunStatus         == {"queued", "running", "completed", "failed", "cancelled"}
StepStatus        == {"pending", "running", "completed", "failed", "skipped"}
Severity          == {"info", "low", "medium", "high"}
Risk              == {"low", "medium", "high", "critical"}
LeakageKind       == {"exact_cross_split", "transformed_cross_split", "near_cross_split",
                     "similar_subject_cluster"}
Relation          == {"exact", "resized", "flipped", "possible_crop", "photometric",
                     "near_duplicate"}
LabelAction       == {"REVIEW", "LOW_PRIORITY_REVIEW", "LIKELY_RARE", "NO_ACTION"}
Hypothesis        == {"likely_mislabeled", "rare_valid", "poor_quality", "domain_shifted",
                     "ambiguous", "uncertain"}
DynamicsCategory  == {"easy", "ambiguous", "consistently_hard", "forgotten", "unstable"}
Verdict           == {"KEEP", "REVIEW", "STRONG_REVIEW", "POSSIBLE_RELABEL", "POSSIBLE_REMOVE",
                     "LIKELY_RARE", "LEAKAGE_ACTION_NEEDED", "UNCERTAIN"}
Uncertainty       == {"low", "medium", "high"}
CaseStatus        == {"open", "decided", "disputed", "resolved"}
Witness           == {"quality", "embedding", "neighbor", "model", "split", "duplicate",
                     "training_dynamics", "influence", "shortcut", "privacy"}
Stance            == {"prosecution", "defense", "neutral"}
EvidenceKind      == {"measured", "heuristic", "model_prediction", "model_estimate"}
DecisionAction    == {"keep", "relabel", "remove", "unsure", "escalate"}
JobType           == {"ingest_version", "run_audit", "what_if", "export", "report",
                     "version_diff", "contamination", "purge_prefix"}
PreflightStatus   == {"READY", "READY_WITH_WARNINGS", "BLOCKED"}
DebtLevel         == {"LOW", "MODERATE", "HIGH", "CRITICAL"}
ExplanationSource == {"gemini", "template"}
LinkType          == {"nearest_neighbor", "harmful_influence", "helpful_influence", "duplicate"}
CollectionStatus  == {"open", "in_progress", "done", "dismissed"}

-----------------------------------------------------------------------------
\* A table: references that must be set, and may be set, whose row goes with the target
\* (ondelete CASCADE); references that are emptied (ondelete SET NULL); unique keys; CHECKs.
Table(must, may, unset, keys, checks) ==
    [must |-> must, may |-> may, unset |-> unset, keys |-> keys, checks |-> checks]

IdentityTables == [
    users |-> Table({}, {}, {}, {{"email"}}, {}),
    auth_sessions |-> Table({<<"user_id", "users">>}, {}, {}, {{"token_hash"}}, {}),
    organizations |-> Table({}, {}, {}, {{"slug"}}, {}),
    organization_members |-> Table({<<"org_id", "organizations">>, <<"user_id", "users">>}, {},
        {}, {{"org_id", "user_id"}}, {<<"member_role", Role>>}),
    api_tokens |-> Table({<<"org_id", "organizations">>}, {}, {<<"created_by", "users">>},
        {{"token_hash"}}, {}),
    projects |-> Table({<<"org_id", "organizations">>}, {}, {<<"created_by", "users">>},
        {{"name", "org_id"}}, {}),
    audit_configs |-> Table({<<"project_id", "projects">>}, {}, {<<"created_by", "users">>},
        {{"project_id", "version"}}, {}),
    data_contracts |-> Table({<<"project_id", "projects">>}, {}, {<<"created_by", "users">>},
        {{"project_id", "version"}}, {})]

DatasetTables == [
    datasets |-> Table({<<"org_id", "organizations">>, <<"project_id", "projects">>}, {},
        {<<"created_by", "users">>}, {{"name", "project_id"}}, {}),
    dataset_versions |-> Table({<<"dataset_id", "datasets">>, <<"org_id", "organizations">>}, {},
        {<<"created_by", "users">>, <<"parent_version_id", "dataset_versions">>},
        {{"dataset_id", "version_number"}}, {<<"version_status", VersionStatus>>}),
    dataset_files |-> Table({<<"dataset_version_id", "dataset_versions">>}, {}, {},
        {{"dataset_version_id", "relative_path"}}, {<<"file_status", FileStatus>>}),
    classes |-> Table({<<"dataset_version_id", "dataset_versions">>}, {}, {},
        {{"dataset_version_id", "index"}, {"dataset_version_id", "name"}}, {}),
    splits |-> Table({<<"dataset_version_id", "dataset_versions">>}, {}, {},
        {{"dataset_version_id", "name"}}, {<<"split_name", Split>>}),
    samples |-> Table({<<"class_id", "classes">>, <<"dataset_version_id", "dataset_versions">>},
        {}, {<<"file_id", "dataset_files">>},
        {{"dataset_version_id", "idx"}, {"dataset_version_id", "relative_path"}},
        {<<"sample_split", Split>>}),
    algorithm_versions |-> Table({}, {}, {}, {{"name", "version"}}, {}),
    system_model_versions |-> Table({}, {}, {}, {{"name", "version"}}, {})]

AuditTables == [
    audit_runs |-> Table(
        {<<"dataset_version_id", "dataset_versions">>, <<"org_id", "organizations">>}, {},
        {<<"created_by", "users">>}, {},
        {<<"audit_profile", AuditProfile>>, <<"audit_status", RunStatus>>}),
    audit_pipeline_steps |-> Table({<<"audit_run_id", "audit_runs">>}, {}, {},
        {{"audit_run_id", "stage"}}, {<<"step_status", StepStatus>>}),
    sample_quality_metrics |-> Table(
        {<<"audit_run_id", "audit_runs">>, <<"sample_id", "samples">>}, {}, {},
        {{"audit_run_id", "sample_id"}}, {}),
    quality_findings |-> Table({<<"audit_run_id", "audit_runs">>, <<"sample_id", "samples">>}, {},
        {}, {}, {<<"severity", Severity>>}),
    embeddings_metadata |-> Table(
        {<<"audit_run_id", "audit_runs">>, <<"dataset_version_id", "dataset_versions">>}, {}, {},
        {}, {}),
    similarity_edges |-> Table(
        {<<"audit_run_id", "audit_runs">>, <<"sample_a_id", "samples">>, <<"sample_b_id",
         "samples">>}, {<<"family_id", "duplicate_families">>}, {}, {},
        {<<"edge_relation", Relation>>}),
    duplicate_families |-> Table(
        {<<"audit_run_id", "audit_runs">>, <<"root_sample_id", "samples">>}, {}, {},
        {{"audit_run_id", "family_number"}}, {}),
    duplicate_family_members |-> Table(
        {<<"family_id", "duplicate_families">>, <<"sample_id", "samples">>},
        {<<"parent_sample_id", "samples">>}, {}, {{"family_id", "sample_id"}}, {}),
    leakage_findings |-> Table({<<"audit_run_id", "audit_runs">>},
        {<<"family_id", "duplicate_families">>}, {}, {},
        {<<"leakage_kind", LeakageKind>>, <<"leakage_risk", Risk>>}),
    split_integrity_metrics |-> Table({<<"audit_run_id", "audit_runs">>}, {}, {}, {}, {})]

ModelTables == [
    baseline_model_runs |-> Table({},
        {<<"audit_run_id", "audit_runs">>, <<"what_if_run_id", "what_if_runs">>}, {}, {}, {}),
    model_predictions |-> Table(
        {<<"audit_run_id", "audit_runs">>, <<"baseline_run_id", "baseline_model_runs">>,
         <<"predicted_class_id", "classes">>, <<"sample_id", "samples">>}, {}, {},
        {{"baseline_run_id", "sample_id"}}, {}),
    training_dynamics |-> Table({<<"audit_run_id", "audit_runs">>, <<"sample_id", "samples">>},
        {}, {}, {{"audit_run_id", "sample_id"}}, {<<"dynamics_category", DynamicsCategory>>}),
    label_findings |-> Table({<<"audit_run_id", "audit_runs">>, <<"sample_id", "samples">>},
        {<<"neighbor_majority_class_id", "classes">>, <<"predicted_class_id", "classes">>}, {},
        {{"audit_run_id", "sample_id"}}, {<<"label_action", LabelAction>>}),
    rare_wrong_findings |-> Table({<<"audit_run_id", "audit_runs">>, <<"sample_id", "samples">>},
        {}, {}, {{"audit_run_id", "sample_id"}}, {<<"hypothesis", Hypothesis>>}),
    shortcut_findings |-> Table({<<"audit_run_id", "audit_runs">>}, {<<"class_id", "classes">>},
        {}, {}, {})]

FindingTables == [
    coverage_clusters |-> Table({<<"audit_run_id", "audit_runs">>},
        {<<"dominant_class_id", "classes">>}, {}, {{"audit_run_id", "cluster_index"}}, {}),
    coverage_gaps |-> Table({<<"audit_run_id", "audit_runs">>}, {<<"class_id", "classes">>}, {},
        {}, {}),
    collection_tasks |-> Table({<<"dataset_id", "datasets">>, <<"org_id", "organizations">>}, {},
        {<<"created_by", "users">>, <<"gap_id", "coverage_gaps">>}, {},
        {<<"collection_status", CollectionStatus>>}),
    influence_findings |-> Table({<<"audit_run_id", "audit_runs">>, <<"sample_id", "samples">>},
        {}, {}, {{"audit_run_id", "sample_id"}}, {}),
    failure_events |-> Table(
        {<<"actual_class_id", "classes">>, <<"audit_run_id", "audit_runs">>,
         <<"predicted_class_id", "classes">>, <<"sample_id", "samples">>}, {}, {},
        {{"audit_run_id", "sample_id"}}, {}),
    failure_data_links |-> Table(
        {<<"failure_event_id", "failure_events">>, <<"train_sample_id", "samples">>}, {}, {}, {},
        {<<"link_type", LinkType>>}),
    privacy_findings |-> Table({<<"audit_run_id", "audit_runs">>, <<"sample_id", "samples">>}, {},
        {}, {}, {})]

CourtTables == [
    court_cases |-> Table(
        {<<"audit_run_id", "audit_runs">>, <<"dataset_version_id", "dataset_versions">>,
         <<"org_id", "organizations">>, <<"sample_id", "samples">>}, {},
        {<<"family_id", "duplicate_families">>},
        {{"audit_run_id", "case_number"}, {"audit_run_id", "sample_id"}},
        {<<"verdict", Verdict>>, <<"uncertainty", Uncertainty>>, <<"case_status", CaseStatus>>}),
    case_evidence |-> Table({<<"case_id", "court_cases">>}, {}, {}, {},
        {<<"witness", Witness>>, <<"stance", Stance>>, <<"evidence_kind", EvidenceKind>>}),
    case_verdicts |-> Table({<<"case_id", "court_cases">>}, {}, {}, {},
        {<<"case_verdict", Verdict>>}),
    case_explanations |-> Table({<<"case_id", "court_cases">>}, {}, {<<"created_by", "users">>},
        {}, {<<"explanation_source", ExplanationSource>>})]

ReviewTables == [
    review_sessions |-> Table(
        {<<"audit_run_id", "audit_runs">>, <<"dataset_version_id", "dataset_versions">>,
         <<"org_id", "organizations">>}, {}, {<<"created_by", "users">>}, {}, {}),
    review_queue_items |-> Table(
        {<<"case_id", "court_cases">>, <<"session_id", "review_sessions">>}, {}, {},
        {{"case_id", "session_id"}}, {}),
    human_decisions |-> Table(
        {<<"case_id", "court_cases">>, <<"dataset_version_id", "dataset_versions">>,
         <<"reviewer_id", "users">>}, {<<"target_class_id", "classes">>},
        {<<"previous_decision_id", "human_decisions">>, <<"undone_by", "users">>}, {},
        {<<"decision_action", DecisionAction>>}),
    reviewer_notes |-> Table({<<"case_id", "court_cases">>, <<"user_id", "users">>}, {}, {}, {},
        {}),
    review_budget_runs |-> Table(
        {<<"audit_run_id", "audit_runs">>, <<"dataset_version_id", "dataset_versions">>}, {},
        {<<"created_by", "users">>, <<"session_id", "review_sessions">>}, {}, {})]

WhatIfTables == [
    what_if_runs |-> Table(
        {<<"audit_run_id", "audit_runs">>, <<"dataset_version_id", "dataset_versions">>,
         <<"org_id", "organizations">>}, {},
        {<<"created_by", "users">>, <<"failure_event_id", "failure_events">>}, {},
        {<<"what_if_status", RunStatus>>}),
    what_if_actions |-> Table({<<"run_id", "what_if_runs">>}, {}, {}, {}, {}),
    what_if_results |-> Table({<<"run_id", "what_if_runs">>}, {}, {},
        {{"eval_set", "run_id", "variant"}}, {})]

GovernanceTables == [
    dataset_debt_snapshots |-> Table(
        {<<"audit_run_id", "audit_runs">>, <<"dataset_version_id", "dataset_versions">>}, {}, {},
        {}, {<<"debt_level", DebtLevel>>}),
    preflight_results |-> Table(
        {<<"audit_run_id", "audit_runs">>, <<"dataset_version_id", "dataset_versions">>}, {},
        {<<"override_by", "users">>}, {}, {<<"preflight_status", PreflightStatus>>}),
    contract_evaluations |-> Table(
        {<<"audit_run_id", "audit_runs">>, <<"contract_id", "data_contracts">>,
         <<"dataset_version_id", "dataset_versions">>}, {}, {}, {}, {}),
    dataset_dna_profiles |-> Table(
        {<<"audit_run_id", "audit_runs">>, <<"dataset_version_id", "dataset_versions">>}, {}, {},
        {}, {}),
    dataset_version_diffs |-> Table(
        {<<"from_version_id", "dataset_versions">>, <<"to_version_id", "dataset_versions">>}, {},
        {}, {{"from_version_id", "to_version_id"}}, {}),
    contamination_checks |-> Table(
        {<<"org_id", "organizations">>, <<"reference_version_id", "dataset_versions">>,
         <<"source_version_id", "dataset_versions">>}, {}, {<<"created_by", "users">>}, {},
        {<<"contamination_status", RunStatus>>}),
    exports |-> Table(
        {<<"dataset_version_id", "dataset_versions">>, <<"org_id", "organizations">>},
        {<<"audit_run_id", "audit_runs">>},
        {<<"created_by", "users">>, <<"new_version_id", "dataset_versions">>}, {},
        {<<"export_status", RunStatus>>}),
    audit_reports |-> Table({<<"audit_run_id", "audit_runs">>, <<"org_id", "organizations">>}, {},
        {<<"created_by", "users">>}, {}, {<<"report_status", RunStatus>>}),
    evidence_ledger |-> Table({<<"org_id", "organizations">>}, {},
        {<<"actor_id", "users">>, <<"dataset_version_id", "dataset_versions">>}, {{"id"}}, {}),
    security_audit_log |-> Table({}, {}, {<<"actor_id", "users">>, <<"org_id", "organizations">>},
        {}, {})]

JobTables == [
    jobs |-> Table({}, {<<"org_id", "organizations">>}, {}, {{"idempotency_key"}},
        {<<"job_type", JobType>>, <<"job_status", RunStatus>>}),
    job_events |-> Table({<<"job_id", "jobs">>}, {}, {}, {}, {})]

\* The tables of two groups, which share none.
Merged(some, others) ==
    [t \in DOMAIN some \cup DOMAIN others |-> IF t \in DOMAIN some THEN some[t] ELSE others[t]]

Declared ==
    LET early == Merged(Merged(IdentityTables, DatasetTables), Merged(AuditTables, ModelTables))
        later == Merged(Merged(FindingTables, CourtTables), Merged(ReviewTables, WhatIfTables))
    IN Merged(Merged(early, later), Merged(GovernanceTables, JobTables))

\* Columns the models have and revision 0001 has not.
LateJobColumns ==
    {"timeout_seconds", "dispatched_at", "dispatch_attempts", "dispatch_slot",
     "dispatch_error", "runner_url"}
LateVersionColumns == {"upload_id", "upload_meta"}

\* fk(...): the references of a table, each a pair of column and target.
Cascading(schema, t) == schema[t].must \cup schema[t].may
References(schema, t) == Cascading(schema, t) \cup schema[t].unset
Targets(refs) == {r[2] : r \in refs}
=============================================================================
