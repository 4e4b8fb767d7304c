------------------------------ MODULE Migration ------------------------------
(***************************************************************************)
(* The migrations 0001 and 0002 and the way migrations/env.py runs them:   *)
(* one transaction per run of alembic, serialised by an advisory lock,     *)
(* while the application goes on using the database.  The result is        *)
(* compared with the schema the models declare.                            *)
(***************************************************************************)
EXTENDS Schema, Integers, Sequences

CONSTANTS
    Migrators,      \* runs of alembic (worker workflows, db-migrate.yml, CI)
    Purges          \* identities of purge_prefix jobs the application may enqueue

ASSUME MigrationAssumption == Migrators # {} /\ Purges # {} /\ "nobody" \notin Migrators

VARIABLES
    revision,       \* alembic_version: "none", "0001" or "0002"
    tables,         \* the committed tables
    columns,        \* the committed columns that revision 0002 adds
    purge_rows,     \* the rows of jobs whose type is purge_prefix, whatever their status
    mig,            \* each migrator: where it is and what it was asked
    work            \* the open transaction of the migrator that holds the lock

migrationVars == <<revision, tables, columns, purge_rows, mig, work>>

-----------------------------------------------------------------------------
Create(t, must, may, unset, keys, checks) ==
    [op |-> "create", table |-> t, def |-> Table(must, may, unset, keys, checks)]

Create1 == <<
    Create("algorithm_versions", {}, {}, {}, {{"name", "version"}}, {}),
    Create("organizations", {}, {}, {}, {{"slug"}}, {}),
    Create("system_model_versions", {}, {}, {}, {{"name", "version"}}, {}),
    Create("users", {}, {}, {}, {{"email"}}, {}),
    Create("api_tokens", {<<"org_id", "organizations">>}, {}, {<<"created_by", "users">>},
        {{"token_hash"}}, {}),
    Create("auth_sessions", {<<"user_id", "users">>}, {}, {}, {{"token_hash"}}, {})>>

Create2 == <<
    Create("jobs", {}, {<<"org_id", "organizations">>}, {}, {{"idempotency_key"}},
        {<<"job_type", {"ingest_version", "run_audit", "what_if", "export", "report",
         "version_diff", "contamination"}>>, <<"job_status", {"queued", "running", "completed",
         "failed", "cancelled"}>>}),
    Create("organization_members", {<<"org_id", "organizations">>, <<"user_id", "users">>}, {},
        {}, {{"org_id", "user_id"}},
        {<<"member_role", {"owner", "admin", "reviewer", "viewer"}>>}),
    Create("projects", {<<"org_id", "organizations">>}, {}, {<<"created_by", "users">>},
        {{"name", "org_id"}}, {}),
    Create("security_audit_log", {}, {}, {<<"actor_id", "users">>, <<"org_id", "organizations">>},
        {}, {})>>

Create3 == <<
    Create("audit_configs", {<<"project_id", "projects">>}, {}, {<<"created_by", "users">>},
        {{"project_id", "version"}}, {}),
    Create("data_contracts", {<<"project_id", "projects">>}, {}, {<<"created_by", "users">>},
        {{"project_id", "version"}}, {}),
    Create("datasets", {<<"org_id", "organizations">>, <<"project_id", "projects">>}, {},
        {<<"created_by", "users">>}, {{"name", "project_id"}}, {}),
    Create("job_events", {<<"job_id", "jobs">>}, {}, {}, {}, {}),
    Create("dataset_versions", {<<"dataset_id", "datasets">>, <<"org_id", "organizations">>}, {},
        {<<"created_by", "users">>, <<"parent_version_id", "dataset_versions">>},
        {{"dataset_id", "version_number"}},
        {<<"version_status", {"awaiting_upload", "uploaded", "ingesting", "ready", "failed"}>>})>>

Create4 == <<
    Create("audit_runs",
        {<<"dataset_version_id", "dataset_versions">>, <<"org_id", "organizations">>}, {},
        {<<"created_by", "users">>}, {},
        {<<"audit_profile", {"fast", "deep"}>>, <<"audit_status", {"queued", "running",
         "completed", "failed", "cancelled"}>>}),
    Create("classes", {<<"dataset_version_id", "dataset_versions">>}, {}, {},
        {{"dataset_version_id", "index"}, {"dataset_version_id", "name"}}, {}),
    Create("contamination_checks",
        {<<"org_id", "organizations">>, <<"reference_version_id", "dataset_versions">>,
         <<"source_version_id", "dataset_versions">>}, {}, {<<"created_by", "users">>}, {},
        {<<"contamination_status", {"queued", "running", "completed", "failed", "cancelled"}>>})>>

Create5 == <<
    Create("dataset_files", {<<"dataset_version_id", "dataset_versions">>}, {}, {},
        {{"dataset_version_id", "relative_path"}},
        {<<"file_status", {"accepted", "rejected", "ignored"}>>}),
    Create("dataset_version_diffs",
        {<<"from_version_id", "dataset_versions">>, <<"to_version_id", "dataset_versions">>}, {},
        {}, {{"from_version_id", "to_version_id"}}, {}),
    Create("evidence_ledger", {<<"org_id", "organizations">>}, {},
        {<<"actor_id", "users">>, <<"dataset_version_id", "dataset_versions">>}, {{"id"}}, {}),
    Create("splits", {<<"dataset_version_id", "dataset_versions">>}, {}, {},
        {{"dataset_version_id", "name"}},
        {<<"split_name", {"train", "val", "test", "unsplit"}>>})>>

Create6 == <<
    Create("audit_pipeline_steps", {<<"audit_run_id", "audit_runs">>}, {}, {},
        {{"audit_run_id", "stage"}},
        {<<"step_status", {"pending", "running", "completed", "failed", "skipped"}>>}),
    Create("audit_reports", {<<"audit_run_id", "audit_runs">>, <<"org_id", "organizations">>}, {},
        {<<"created_by", "users">>}, {},
        {<<"report_status", {"queued", "running", "completed", "failed", "cancelled"}>>}),
    Create("contract_evaluations",
        {<<"audit_run_id", "audit_runs">>, <<"contract_id", "data_contracts">>,
         <<"dataset_version_id", "dataset_versions">>}, {}, {}, {}, {}),
    Create("coverage_clusters", {<<"audit_run_id", "audit_runs">>},
        {<<"dominant_class_id", "classes">>}, {}, {{"audit_run_id", "cluster_index"}}, {})>>

Create7 == <<
    Create("coverage_gaps", {<<"audit_run_id", "audit_runs">>}, {<<"class_id", "classes">>}, {},
        {}, {}),
    Create("dataset_debt_snapshots",
        {<<"audit_run_id", "audit_runs">>, <<"dataset_version_id", "dataset_versions">>}, {}, {},
        {}, {<<"debt_level", {"LOW", "MODERATE", "HIGH", "CRITICAL"}>>}),
    Create("dataset_dna_profiles",
        {<<"audit_run_id", "audit_runs">>, <<"dataset_version_id", "dataset_versions">>}, {}, {},
        {}, {}),
    Create("embeddings_metadata",
        {<<"audit_run_id", "audit_runs">>, <<"dataset_version_id", "dataset_versions">>}, {}, {},
        {}, {})>>

Create8 == <<
    Create("exports",
        {<<"dataset_version_id", "dataset_versions">>, <<"org_id", "organizations">>},
        {<<"audit_run_id", "audit_runs">>},
        {<<"created_by", "users">>, <<"new_version_id", "dataset_versions">>}, {},
        {<<"export_status", {"queued", "running", "completed", "failed", "cancelled"}>>}),
    Create("preflight_results",
        {<<"audit_run_id", "audit_runs">>, <<"dataset_version_id", "dataset_versions">>}, {},
        {<<"override_by", "users">>}, {},
        {<<"preflight_status", {"READY", "READY_WITH_WARNINGS", "BLOCKED"}>>}),
    Create("review_sessions",
        {<<"audit_run_id", "audit_runs">>, <<"dataset_version_id", "dataset_versions">>,
         <<"org_id", "organizations">>}, {}, {<<"created_by", "users">>}, {}, {})>>

Create9 == <<
    Create("samples", {<<"class_id", "classes">>, <<"dataset_version_id", "dataset_versions">>},
        {}, {<<"file_id", "dataset_files">>},
        {{"dataset_version_id", "idx"}, {"dataset_version_id", "relative_path"}},
        {<<"sample_split", {"train", "val", "test", "unsplit"}>>}),
    Create("shortcut_findings", {<<"audit_run_id", "audit_runs">>}, {<<"class_id", "classes">>},
        {}, {}, {}),
    Create("split_integrity_metrics", {<<"audit_run_id", "audit_runs">>}, {}, {}, {}, {})>>

Create10 == <<
    Create("collection_tasks", {<<"dataset_id", "datasets">>, <<"org_id", "organizations">>}, {},
        {<<"created_by", "users">>, <<"gap_id", "coverage_gaps">>}, {},
        {<<"collection_status", {"open", "in_progress", "done", "dismissed"}>>}),
    Create("duplicate_families",
        {<<"audit_run_id", "audit_runs">>, <<"root_sample_id", "samples">>}, {}, {},
        {{"audit_run_id", "family_number"}}, {}),
    Create("failure_events",
        {<<"actual_class_id", "classes">>, <<"audit_run_id", "audit_runs">>,
         <<"predicted_class_id", "classes">>, <<"sample_id", "samples">>}, {}, {},
        {{"audit_run_id", "sample_id"}}, {}),
    Create("influence_findings", {<<"audit_run_id", "audit_runs">>, <<"sample_id", "samples">>},
        {}, {}, {{"audit_run_id", "sample_id"}}, {})>>

Create11 == <<
    Create("label_findings", {<<"audit_run_id", "audit_runs">>, <<"sample_id", "samples">>},
        {<<"neighbor_majority_class_id", "classes">>, <<"predicted_class_id", "classes">>}, {},
        {{"audit_run_id", "sample_id"}},
        {<<"label_action", {"REVIEW", "LOW_PRIORITY_REVIEW", "LIKELY_RARE", "NO_ACTION"}>>}),
    Create("privacy_findings", {<<"audit_run_id", "audit_runs">>, <<"sample_id", "samples">>}, {},
        {}, {}, {}),
    Create("quality_findings", {<<"audit_run_id", "audit_runs">>, <<"sample_id", "samples">>}, {},
        {}, {}, {<<"severity", {"info", "low", "medium", "high"}>>}),
    Create("rare_wrong_findings", {<<"audit_run_id", "audit_runs">>, <<"sample_id", "samples">>},
        {}, {}, {{"audit_run_id", "sample_id"}},
        {<<"hypothesis", {"likely_mislabeled", "rare_valid", "poor_quality", "domain_shifted",
         "ambiguous", "uncertain"}>>})>>

Create12 == <<
    Create("review_budget_runs",
        {<<"audit_run_id", "audit_runs">>, <<"dataset_version_id", "dataset_versions">>}, {},
        {<<"created_by", "users">>, <<"session_id", "review_sessions">>}, {}, {}),
    Create("sample_quality_metrics",
        {<<"audit_run_id", "audit_runs">>, <<"sample_id", "samples">>}, {}, {},
        {{"audit_run_id", "sample_id"}}, {}),
    Create("training_dynamics", {<<"audit_run_id", "audit_runs">>, <<"sample_id", "samples">>},
        {}, {}, {{"audit_run_id", "sample_id"}},
        {<<"dynamics_category", {"easy", "ambiguous", "consistently_hard", "forgotten",
         "unstable"}>>})>>

Create13 == <<
    Create("court_cases",
        {<<"audit_run_id", "audit_runs">>, <<"dataset_version_id", "dataset_versions">>,
         <<"org_id", "organizations">>, <<"sample_id", "samples">>}, {},
        {<<"family_id", "duplicate_families">>},
        {{"audit_run_id", "case_number"}, {"audit_run_id", "sample_id"}},
        {<<"verdict", {"KEEP", "REVIEW", "STRONG_REVIEW", "POSSIBLE_RELABEL", "POSSIBLE_REMOVE",
         "LIKELY_RARE", "LEAKAGE_ACTION_NEEDED", "UNCERTAIN"}>>, <<"uncertainty", {"low", "medium",
         "high"}>>, <<"case_status", {"open", "decided", "disputed", "resolved"}>>}),
    Create("duplicate_family_members",
        {<<"family_id", "duplicate_families">>, <<"sample_id", "samples">>},
        {<<"parent_sample_id", "samples">>}, {}, {{"family_id", "sample_id"}}, {})>>

Create14 == <<
    Create("failure_data_links",
        {<<"failure_event_id", "failure_events">>, <<"train_sample_id", "samples">>}, {}, {}, {},
        {<<"link_type", {"nearest_neighbor", "harmful_influence", "helpful_influence",
         "duplicate"}>>}),
    Create("leakage_findings", {<<"audit_run_id", "audit_runs">>},
        {<<"family_id", "duplicate_families">>}, {}, {},
        {<<"leakage_kind", {"exact_cross_split", "transformed_cross_split", "near_cross_split",
         "similar_subject_cluster"}>>, <<"leakage_risk", {"low", "medium", "high", "critical"}>>}),
    Create("similarity_edges",
        {<<"audit_run_id", "audit_runs">>, <<"sample_a_id", "samples">>, <<"sample_b_id",
         "samples">>}, {<<"family_id", "duplicate_families">>}, {}, {},
        {<<"edge_relation", {"exact", "resized", "flipped", "possible_crop", "photometric",
         "near_duplicate"}>>})>>

Create15 == <<
    Create("what_if_runs",
        {<<"audit_run_id", "audit_runs">>, <<"dataset_version_id", "dataset_versions">>,
         <<"org_id", "organizations">>}, {},
        {<<"created_by", "users">>, <<"failure_event_id", "failure_events">>}, {},
        {<<"what_if_status", {"queued", "running", "completed", "failed", "cancelled"}>>}),
    Create("baseline_model_runs", {},
        {<<"audit_run_id", "audit_runs">>, <<"what_if_run_id", "what_if_runs">>}, {}, {}, {}),
    Create("case_evidence", {<<"case_id", "court_cases">>}, {}, {}, {},
        {<<"witness", {"quality", "embedding", "neighbor", "model", "split", "duplicate",
         "training_dynamics", "influence", "shortcut", "privacy"}>>, <<"stance", {"prosecution",
         "defense", "neutral"}>>, <<"evidence_kind", {"measured", "heuristic", "model_prediction",
         "model_estimate"}>>})>>

Create16 == <<
    Create("case_explanations", {<<"case_id", "court_cases">>}, {}, {<<"created_by", "users">>},
        {}, {<<"explanation_source", {"gemini", "template"}>>}),
    Create("case_verdicts", {<<"case_id", "court_cases">>}, {}, {}, {},
        {<<"case_verdict", {"KEEP", "REVIEW", "STRONG_REVIEW", "POSSIBLE_RELABEL",
         "POSSIBLE_REMOVE", "LIKELY_RARE", "LEAKAGE_ACTION_NEEDED", "UNCERTAIN"}>>}),
    Create("human_decisions",
        {<<"case_id", "court_cases">>, <<"dataset_version_id", "dataset_versions">>,
         <<"reviewer_id", "users">>}, {<<"target_class_id", "classes">>},
        {<<"previous_decision_id", "human_decisions">>, <<"undone_by", "users">>}, {},
        {<<"decision_action", {"keep", "relabel", "remove", "unsure", "escalate"}>>}),
    Create("review_queue_items",
        {<<"case_id", "court_cases">>, <<"session_id", "review_sessions">>}, {}, {},
        {{"case_id", "session_id"}}, {})>>

Create17 == <<
    Create("reviewer_notes", {<<"case_id", "court_cases">>, <<"user_id", "users">>}, {}, {}, {},
        {}),
    Create("what_if_actions", {<<"run_id", "what_if_runs">>}, {}, {}, {}, {}),
    Create("what_if_results", {<<"run_id", "what_if_runs">>}, {}, {},
        {{"eval_set", "run_id", "variant"}}, {}),
    Create("model_predictions",
        {<<"audit_run_id", "audit_runs">>, <<"baseline_run_id", "baseline_model_runs">>,
         <<"predicted_class_id", "classes">>, <<"sample_id", "samples">>}, {}, {},
        {{"baseline_run_id", "sample_id"}}, {})>>

Upgrade0001 ==
    Create1 \o Create2 \o Create3 \o Create4 \o Create5 \o Create6 \o Create7 \o Create8 \o
    Create9 \o Create10 \o Create11 \o Create12 \o Create13 \o Create14 \o Create15 \o
    Create16 \o Create17

Drop1 == <<
    "model_predictions", "what_if_results", "what_if_actions", "reviewer_notes",
    "review_queue_items", "human_decisions", "case_verdicts", "case_explanations",
    "case_evidence", "baseline_model_runs", "what_if_runs", "similarity_edges",
    "leakage_findings", "failure_data_links", "duplicate_family_members", "court_cases",
    "training_dynamics", "sample_quality_metrics", "review_budget_runs", "rare_wrong_findings",
    "quality_findings", "privacy_findings", "label_findings", "influence_findings",
    "failure_events", "duplicate_families", "collection_tasks", "split_integrity_metrics",
    "shortcut_findings">>

Drop2 == <<
    "samples", "review_sessions", "preflight_results", "exports", "embeddings_metadata",
    "dataset_dna_profiles", "dataset_debt_snapshots", "coverage_gaps", "coverage_clusters",
    "contract_evaluations", "audit_reports", "audit_pipeline_steps", "splits",
    "evidence_ledger", "dataset_version_diffs", "dataset_files", "contamination_checks",
    "classes", "audit_runs", "dataset_versions", "job_events", "datasets", "data_contracts",
    "audit_configs", "security_audit_log", "projects", "organization_members", "jobs",
    "auth_sessions", "api_tokens", "users", "system_model_versions", "organizations",
    "algorithm_versions">>

DropTable(t) == [op |-> "drop", table |-> t]
Downgrade0001 == [i \in 1..(Len(Drop1) + Len(Drop2)) |-> DropTable((Drop1 \o Drop2)[i])]

\* Revision 0002: columns, and the CHECK of jobs.type.
JobTypesV1 == {"ingest_version", "run_audit", "what_if", "export", "report", "version_diff",
               "contamination"}
JobTypesV2 == JobTypesV1 \cup {"purge_prefix"}

AddColumn(t, c)  == [op |-> "add_column", table |-> t, column |-> c]
DropColumn(t, c) == [op |-> "drop_column", table |-> t, column |-> c]

\* _job_type_check: the constraint is dropped and created again, which validates every row.
JobTypeCheck(values) == [op |-> "check", table |-> "jobs", values |-> values]

\* Mutant: one of the columns the models have is forgotten.
Upgrade0002_OneColumnShort ==
    <<AddColumn("jobs", "timeout_seconds"), AddColumn("jobs", "dispatched_at"),
      AddColumn("jobs", "dispatch_attempts"), AddColumn("jobs", "dispatch_slot"),
      AddColumn("jobs", "dispatch_error"), AddColumn("jobs", "runner_url"),
      JobTypeCheck(JobTypesV2), AddColumn("dataset_versions", "upload_id")>>

Upgrade0002 ==
    <<AddColumn("jobs", "timeout_seconds"), AddColumn("jobs", "dispatched_at"),
      AddColumn("jobs", "dispatch_attempts"), AddColumn("jobs", "dispatch_slot"),
      AddColumn("jobs", "dispatch_error"), AddColumn("jobs", "runner_url"),
      JobTypeCheck(JobTypesV2),
      AddColumn("dataset_versions", "upload_id"), AddColumn("dataset_versions", "upload_meta")>>

Downgrade0002 ==
    <<DropColumn("dataset_versions", "upload_meta"), DropColumn("dataset_versions", "upload_id"),
      [op |-> "delete_purges", table |-> "none"], JobTypeCheck(JobTypesV1),
      DropColumn("jobs", "runner_url"), DropColumn("jobs", "dispatch_error"),
      DropColumn("jobs", "dispatch_slot"), DropColumn("jobs", "dispatch_attempts"),
      DropColumn("jobs", "dispatched_at"), DropColumn("jobs", "timeout_seconds")>>

\* alembic (external): the operations between the current revision and the target.
Script(current, target) ==
    CASE current = "none" /\ target = "0002" -> Upgrade0001 \o Upgrade0002
      [] current = "0001" /\ target = "0002" -> Upgrade0002
      [] current = "0002" /\ target = "0001" -> Downgrade0002
      [] current = "0002" /\ target = "none" -> Downgrade0002 \o Downgrade0001
      [] current = "0001" /\ target = "none" -> Downgrade0001
      [] OTHER -> <<>>

-----------------------------------------------------------------------------
Revision == {"none", "0001", "0002"}
NoWork == [by |-> "nobody"]
NoMigrator == [phase |-> "idle", target |-> "none", saw |-> "none"]

MigrationInit ==
    /\ revision = "none"
    /\ tables = <<>>
    /\ columns = {}
    /\ purge_rows = {}
    /\ mig = [x \in Migrators |-> NoMigrator]
    /\ work = NoWork

InProgress == work.by # "nobody"

\* The transaction open in work has altered or dropped jobs: it holds the exclusive lock.
JobsLocked ==
    InProgress /\ \E i \in 1..(work.step - 1) : work.script[i].table = "jobs"

\* The application schedules a purge (services/purge.py, schedule).
EnqueuePurge(p) ==
    /\ p \notin purge_rows /\ ~JobsLocked
    /\ "jobs" \in DOMAIN tables
    /\ \E c \in tables["jobs"].checks : c[1] = "job_type" /\ "purge_prefix" \in c[2]
    /\ purge_rows' = purge_rows \cup {p}
    /\ UNCHANGED <<revision, tables, columns, mig, work>>

\* alembic upgrade head, or downgrade: connects and asks for the lock.
Connect(x, target) ==
    /\ mig[x].phase \in {"idle", "rejected"}
    /\ mig' = [mig EXCEPT ![x] = [phase |-> "waiting", target |-> target, saw |-> revision]]
    /\ UNCHANGED <<revision, tables, columns, purge_rows, work>>

Begin(x, current) ==
    /\ work' = [by |-> x, target |-> mig[x].target, script |-> Script(current, mig[x].target),
                step |-> 1, tables |-> tables, columns |-> columns, deleted |-> {}]
    /\ mig' = [mig EXCEPT ![x].phase = "working"]
    /\ UNCHANGED <<revision, tables, columns, purge_rows>>

\* Mutant: the current revision is read before the lock is there.
LockThenRead_ReadsFirst(x) ==
    /\ mig[x].phase = "waiting" /\ ~InProgress
    /\ Begin(x, mig[x].saw)

\* run_migrations_online: pg_advisory_xact_lock, then run_migrations reads the revision.
LockThenRead(x) ==
    /\ mig[x].phase = "waiting" /\ ~InProgress
    /\ Begin(x, revision)

\* Mutant: the narrowed CHECK is created without validating the rows (NOT VALID).
Possible_NotValid(o) ==
    CASE o.op = "create" -> o.table \notin DOMAIN work.tables
      [] o.op = "add_column" -> <<o.table, o.column>> \notin work.columns
      [] OTHER -> TRUE

\* Can the database carry out an operation in the open transaction?
Possible(o) ==
    CASE o.op = "create" ->
            /\ o.table \notin DOMAIN work.tables
            /\ Targets(o.def.must \cup o.def.may \cup o.def.unset)
                  \subseteq DOMAIN work.tables \cup {o.table}
      [] o.op = "drop" ->
            /\ o.table \in DOMAIN work.tables
            /\ \A t \in DOMAIN work.tables \ {o.table} :
                  o.table \notin Targets(References(work.tables, t))
      [] o.op = "add_column" ->
            o.table \in DOMAIN work.tables /\ <<o.table, o.column>> \notin work.columns
      [] o.op = "drop_column" -> <<o.table, o.column>> \in work.columns
      [] o.op = "check" ->
            \/ "purge_prefix" \in o.values
            \/ purge_rows \subseteq work.deleted
      [] OTHER -> TRUE

TablesAfter(o) ==
    CASE o.op = "create" -> Merged(work.tables, [t \in {o.table} |-> o.def])
      [] o.op = "drop" -> [t \in DOMAIN work.tables \ {o.table} |-> work.tables[t]]
      [] o.op = "check" ->
            [work.tables EXCEPT !["jobs"].checks =
                {c \in @ : c[1] # "job_type"} \cup {<<"job_type", o.values>>}]
      [] OTHER -> work.tables

ColumnsAfter(o) ==
    CASE o.op = "add_column" -> work.columns \cup {<<o.table, o.column>>}
      [] o.op = "drop_column" -> work.columns \ {<<o.table, o.column>>}
      [] OTHER -> work.columns

ApplyOperation(x) ==
    /\ work.by = x /\ work.step <= Len(work.script)
    /\ LET o == work.script[work.step] IN
       IF Possible(o)
       THEN /\ work' = [work EXCEPT !.step = @ + 1, !.tables = TablesAfter(o),
                                    !.columns = ColumnsAfter(o),
                                    !.deleted = IF o.op = "delete_purges" THEN purge_rows ELSE @]
            /\ UNCHANGED mig
       ELSE /\ work' = NoWork
            /\ mig' = [mig EXCEPT ![x].phase = IF o.op = "check" THEN "rejected" ELSE "broken"]
    /\ UNCHANGED <<revision, tables, columns, purge_rows>>

\* The end of context.begin_transaction: one commit for all the revisions of the run.
CommitMigration(x) ==
    /\ work.by = x /\ work.step > Len(work.script)
    /\ tables' = work.tables /\ columns' = work.columns
    /\ revision' = IF work.script = <<>> THEN revision ELSE work.target
    /\ purge_rows' = IF "jobs" \in DOMAIN work.tables THEN purge_rows \ work.deleted ELSE {}
    /\ work' = NoWork
    /\ mig' = [mig EXCEPT ![x] = NoMigrator]

\* The run is cancelled or its connection lost: the transaction rolls back.
LoseConnection(x) ==
    /\ mig[x].phase \in {"waiting", "working"}
    /\ work' = IF work.by = x THEN NoWork ELSE work
    /\ mig' = [mig EXCEPT ![x] = NoMigrator]
    /\ UNCHANGED <<revision, tables, columns, purge_rows>>

MigrationNext ==
    \/ \E p \in Purges : EnqueuePurge(p)
    \/ \E x \in Migrators :
        \/ \E target \in Revision : Connect(x, target)
        \/ LockThenRead(x) \/ ApplyOperation(x) \/ CommitMigration(x) \/ LoseConnection(x)

MigrationSpec == MigrationInit /\ [][MigrationNext]_migrationVars

-----------------------------------------------------------------------------
\* Whatever sequence of upgrades and downgrades led there, side by side and cut off at any
\* moment, the database at head is the one the models declare, in every reference, ON DELETE
\* rule, key and CHECK, and at base it is empty; and no operation ever meets a table or column
\* that is there already, that is missing, or that another table still refers to.  No committed
\* CHECK rejects a purge job that was enqueued while a downgrade was under way.
HeadIsDeclared ==
    /\ \A x \in Migrators : mig[x].phase # "broken"
    /\ revision = "0002" =>
          /\ tables = Declared
          /\ columns = {<<"jobs", c>> : c \in LateJobColumns}
                        \cup {<<"dataset_versions", c>> : c \in LateVersionColumns}
    /\ revision = "none" => tables = <<>> /\ columns = {}
    /\ purge_rows # {} =>
        \E c \in tables["jobs"].checks : c[1] = "job_type" /\ "purge_prefix" \in c[2]
=============================================================================
