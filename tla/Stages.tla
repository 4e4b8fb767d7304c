------------------------------- MODULE Stages -------------------------------
(***************************************************************************)
(* The stages of an audit (pipeline/stages.py): which artifacts and tables *)
(* each stage reads, replaces and writes, in the order of its code.  A     *)
(* stage is a sequence of loads, saves and transactions; its process may   *)
(* die between any two of them, and the next process runs the stage again  *)
(* from its start.  The contents of a table or an artifact are the number  *)
(* of the attempt of its stage that wrote it.                              *)
(***************************************************************************)
EXTENDS Schema, Integers, Sequences, FiniteSets

CONSTANTS
    Runners,        \* processes that run the job of the audit
    Audits,         \* the audits considered: profile, data and contract
    MaxReruns,      \* bound on how often stages of the audit are run again
    MayOverlap      \* whether a job may be taken from a process that still runs

ASSUME StagesAssumption ==
    /\ MaxReruns \in Nat /\ MayOverlap \in BOOLEAN
    /\ Audits \subseteq [deep : BOOLEAN, trainable : BOOLEAN, evaluated : BOOLEAN,
                        contract : BOOLEAN]

VARIABLES
    audit,          \* [deep, trainable, evaluated, contract]
    step,           \* status of each step
    attempts,       \* attempts of each step
    reruns,         \* attempts that were not the first of their step
    stored,         \* attempts whose rows a table holds
    artifact,       \* attempt that wrote an artifact, 0 if there is none
    runner,         \* where each process is
    made_from,      \* what the completed run of a stage has read
    missing,        \* artifacts a stage loaded in vain
    decided,        \* whether a case has a human decision
    overlapped      \* whether two processes ever ran the audit at once

stagesVars == <<audit, step, attempts, reruns, stored, artifact, runner, made_from, missing,
                decided, overlapped>>

-----------------------------------------------------------------------------
(* The effects a stage is made of. *)

Load(a) == [op |-> "load", names |-> {a}, clear |-> {}, insert |-> {}]
LoadIfThere(a) == [op |-> "load_if", names |-> {a}, clear |-> {}, insert |-> {}]
\* The perturbation tests of a deep audit with evaluation data and a model.
LoadForTests(a) == [op |-> "load_tests", names |-> {a}, clear |-> {}, insert |-> {}]
Look(ts) == [op |-> "look", names |-> ts, clear |-> {}, insert |-> {}]
Save(a) == [op |-> "save", names |-> {a}, clear |-> {}, insert |-> {}]
\* A transaction that deletes the rows of the audit from some tables and inserts into others.
Write(clear, insert) == [op |-> "write", names |-> {}, clear |-> clear, insert |-> insert]
Replace(ts) == Write(ts, ts)

LoadAll(names) == [k \in DOMAIN names |-> Load(names[k])]
SaveAll(names) == [k \in DOMAIN names |-> Save(names[k])]

Ingesting == <<Look({"dataset_versions"})>>

Validating == <<Look({"dataset_versions"})>>

Profiling == SaveAll(<<"attributes", "structure", "privacy">>)
             \o <<Replace({"sample_quality_metrics"})>>

\* Mutant: _clear of the quality findings is missing.
Quality_NotCleared == LoadAll(<<"attributes", "privacy">>)
    \o <<Write({"privacy_findings"}, {"quality_findings", "privacy_findings"})>>

Quality == LoadAll(<<"attributes", "privacy">>)
           \o <<Replace({"quality_findings", "privacy_findings"})>>

Embedding == SaveAll(<<"embeddings", "knn">>) \o <<Replace({"embeddings_metadata"})>>

Duplicates ==
    LoadAll(<<"embeddings", "knn", "attributes", "structure">>)
    \o <<Look({"embeddings_metadata"}),
         Write({"similarity_edges", "duplicate_family_members", "leakage_findings",
                "duplicate_families"},
               {"duplicate_families", "duplicate_family_members", "similarity_edges"})>>
    \o SaveAll(<<"dup_membership", "dup_families">>)

Leakage ==
    LoadAll(<<"dup_families", "embeddings", "knn">>)
    \o <<Look({"embeddings_metadata", "duplicate_families"}),
         Replace({"leakage_findings", "split_integrity_metrics"}), Save("leak_membership")>>

\* failure_links are the rows of failure_data_links this stage makes, influence_links those of
\* the influence stage; this one deletes both.
BaselineTraining ==
    <<Load("embeddings")>>
    \o SaveAll(<<"preds", "model", "dynamics_raw", "failures">>)

BaselineTables ==
    <<Load("dup_membership"),
      Write({"failure_links", "influence_links", "failure_events", "model_predictions",
             "baseline_model_runs"},
            {"baseline_model_runs", "model_predictions", "failure_events", "failure_links"})>>

Baseline == BaselineTraining \o BaselineTables

Dynamics == LoadAll(<<"dynamics_raw", "model">>)
            \o <<Save("dynamics"), Replace({"training_dynamics"})>>

Influence ==
    LoadAll(<<"model", "embeddings", "failures">>)
    \o <<Save("cf_basis"), Look({"failure_events"}),
         Replace({"influence_links", "influence_findings"}), Save("influence")>>

Labels ==
    LoadAll(<<"preds", "embeddings", "knn", "attributes", "dup_membership">>)
    \o <<LoadIfThere("dynamics"), LoadIfThere("influence"), Look({"quality_findings"}),
         Replace({"label_findings", "rare_wrong_findings"})>>
    \o SaveAll(<<"label_signals", "rare_wrong", "witness_reliability">>)

Shortcuts ==
    <<Load("attributes"), LoadForTests("model"), LoadForTests("embeddings"),
      Replace({"shortcut_findings"}), Save("shortcut_membership")>>

Coverage == LoadAll(<<"embeddings", "knn", "attributes">>)
            \o <<Save("coverage"), Replace({"coverage_gaps", "coverage_clusters"})>>

CasesGathered ==
    <<LoadIfThere("label_signals"), LoadIfThere("rare_wrong"), Load("dup_membership"),
      Load("leak_membership"), LoadIfThere("shortcut_membership"), Load("privacy"),
      LoadIfThere("dynamics"), LoadIfThere("influence"),
      Look({"quality_findings", "baseline_model_runs", "duplicate_families"}),
      LoadIfThere("witness_reliability")>>

CasesFiled ==
    <<Write({"case_evidence", "case_verdicts", "case_explanations", "court_cases"},
            {"court_cases", "case_evidence", "case_verdicts"})>>

Cases == CasesGathered \o CasesFiled

Facts == {"court_cases", "quality_findings", "duplicate_families", "leakage_findings",
          "shortcut_findings", "coverage_gaps", "label_findings"}

Debt == <<Look(Facts), Replace({"dataset_debt_snapshots"}), Load("attributes"), Load("embeddings"),
          Look({"embeddings_metadata"}), Replace({"dataset_dna_profiles"})>>

Preflight ==
    <<Look(Facts \cup {"dataset_debt_snapshots"}),
      Write({"preflight_results"}, {"preflight_results", "contract_evaluations"})>>

-----------------------------------------------------------------------------
Pipeline == <<"INGESTING", "VALIDATING", "PROFILING", "QUALITY_ANALYSIS", "EMBEDDING",
    "DUPLICATE_ANALYSIS", "LEAKAGE_ANALYSIS", "BASELINE_TRAINING", "TRAINING_DYNAMICS",
    "INFLUENCE_ANALYSIS", "LABEL_FORENSICS", "SHORTCUT_ANALYSIS", "COVERAGE_ANALYSIS",
    "COURT_CASE_GENERATION", "DEBT_CALCULATION", "PREFLIGHT">>

Effects == [
    INGESTING |-> Ingesting, VALIDATING |-> Validating, PROFILING |-> Profiling,
    QUALITY_ANALYSIS |-> Quality, EMBEDDING |-> Embedding, DUPLICATE_ANALYSIS |-> Duplicates,
    LEAKAGE_ANALYSIS |-> Leakage, BASELINE_TRAINING |-> Baseline,
    TRAINING_DYNAMICS |-> Dynamics, INFLUENCE_ANALYSIS |-> Influence,
    LABEL_FORENSICS |-> Labels, SHORTCUT_ANALYSIS |-> Shortcuts,
    COVERAGE_ANALYSIS |-> Coverage, COURT_CASE_GENERATION |-> Cases,
    DEBT_CALCULATION |-> Debt, PREFLIGHT |-> Preflight]

StageNames == DOMAIN Effects
Saved(st) == UNION {e.names : e \in {Effects[st][k] : k \in
                {k \in DOMAIN Effects[st] : Effects[st][k].op = "save"}}}
Inserted(st) == UNION {Effects[st][k].insert : k \in DOMAIN Effects[st]}
Artifacts == UNION {Saved(st) : st \in StageNames}
StageTables == UNION {Inserted(st) : st \in StageNames}

Has(a) == artifact[a] # 0

\* Contracts are evaluated only in a project that has one.
Filled(st) == Inserted(st) \ IF audit.contract THEN {} ELSE {"contract_evaluations"}

\* Mutant: label forensics does not ask whether a model was trained.
Skips_LabelsNever(st) ==
    \/ st = "BASELINE_TRAINING" /\ ~audit.trainable
    \/ st = "TRAINING_DYNAMICS" /\ (~audit.deep \/ ~Has("dynamics_raw"))
    \/ st = "INFLUENCE_ANALYSIS" /\ (~audit.deep \/ ~Has("model"))

\* The StageSkipped a stage raises before it does anything.
Skips(st) ==
    \/ st = "BASELINE_TRAINING" /\ ~audit.trainable
    \/ st = "TRAINING_DYNAMICS" /\ (~audit.deep \/ ~Has("dynamics_raw"))
    \/ st = "INFLUENCE_ANALYSIS" /\ (~audit.deep \/ ~Has("model"))
    \/ st = "LABEL_FORENSICS" /\ ~Has("preds")

-----------------------------------------------------------------------------
At(stage, effect, read, old) == [stage |-> stage, effect |-> effect, read |-> read, old |-> old]
Idle == At(0, 0, <<>>, <<>>)
Running(w) == runner[w].effect # 0
StageOf(w) == Pipeline[runner[w].stage]
Rest(w) == Len(Effects[StageOf(w)]) - runner[w].effect + 1
Effect(w) == Effects[StageOf(w)][runner[w].effect]
InTransaction(w) == runner[w].old # <<>>

StagesInit ==
    /\ audit \in Audits
    /\ step = [st \in StageNames |-> "pending"]
    /\ attempts = [st \in StageNames |-> 0] /\ reruns = 0
    /\ stored = [t \in StageTables |-> {}]
    /\ artifact = [a \in Artifacts |-> 0]
    /\ runner = [w \in Runners |-> Idle]
    /\ made_from = [st \in StageNames |-> <<>>]
    /\ missing = {} /\ decided = FALSE /\ overlapped = FALSE

\* run_audit_job: the next step that is neither completed nor skipped.  A process begins at the
\* first stage; another one may still be at work if the job was taken from it.
BeginStage(w) ==
    /\ ~Running(w)
    /\ \A v \in Runners \ {w} : runner[v] # Idle => MayOverlap
    /\ \E n \in (runner[w].stage + 1)..Len(Pipeline) :
        /\ step[Pipeline[n]] \notin {"completed", "skipped"}
        /\ \A k \in (runner[w].stage + 1)..(n - 1) : step[Pipeline[k]] \in {"completed", "skipped"}
        /\ reruns < MaxReruns \/ attempts[Pipeline[n]] = 0
        /\ reruns' = IF attempts[Pipeline[n]] = 0 THEN reruns ELSE reruns + 1
        /\ attempts' = [attempts EXCEPT ![Pipeline[n]] = @ + 1]
        /\ \/ /\ Skips(Pipeline[n])
              /\ step' = [step EXCEPT ![Pipeline[n]] = "skipped"]
              /\ runner' = [runner EXCEPT ![w] = At(n, 0, <<>>, <<>>)]
           \/ /\ ~Skips(Pipeline[n])
              /\ step' = [step EXCEPT ![Pipeline[n]] = "running"]
              /\ runner' = [runner EXCEPT ![w] = At(n, 1, <<>>, <<>>)]
    /\ overlapped' = (overlapped \/ \E v \in Runners \ {w} : runner[v] # Idle)
    /\ UNCHANGED <<audit, stored, artifact, made_from, missing, decided>>

Advanced(w, read) == At(runner[w].stage, runner[w].effect + 1, read, <<>>)
\* What was read, by name.
Seen(w, names, of) == [x \in DOMAIN runner[w].read \cup names |->
                        IF x \in names THEN of[x] ELSE runner[w].read[x]]

\* An exception: the step fails, and with it this run of the job.
FailStage(w) ==
    /\ step' = [step EXCEPT ![StageOf(w)] = "failed"]
    /\ runner' = [runner EXCEPT ![w] = Idle]

TestsPerturbations == audit.deep /\ audit.evaluated /\ Has("model")

LoadArtifact(w) ==
    /\ Running(w) /\ Rest(w) > 0 /\ Effect(w).op \in {"load", "load_if", "load_tests"}
    /\ LET lacking == {a \in Effect(w).names : ~Has(a)}
           wanted == IF Effect(w).op = "load_tests" => TestsPerturbations
                     THEN Effect(w).names ELSE {} IN
       \/ /\ Effect(w).op = "load" /\ lacking # {}
          /\ missing' = missing \cup lacking
          /\ FailStage(w)
       \/ /\ Effect(w).op = "load" => lacking = {}
          /\ runner' = [runner EXCEPT ![w] = Advanced(w, Seen(w, wanted, artifact))]
          /\ UNCHANGED <<step, missing>>
    /\ UNCHANGED <<audit, attempts, reruns, stored, artifact, made_from, decided, overlapped>>

LookAtTables(w) ==
    /\ Running(w) /\ Rest(w) > 0 /\ Effect(w).op = "look"
    /\ runner' = [runner EXCEPT ![w] =
                    Advanced(w, Seen(w, Effect(w).names \cap StageTables, stored))]
    /\ UNCHANGED <<audit, step, attempts, reruns, stored, artifact, made_from, missing, decided, overlapped>>

\* Mutant: an artifact that is there is not written again.
SaveArtifact_Once(w) ==
    /\ Running(w) /\ Rest(w) > 0 /\ Effect(w).op = "save"
    /\ artifact' = [a \in Artifacts |->
                      IF a \in Effect(w).names /\ ~Has(a) THEN attempts[StageOf(w)] ELSE artifact[a]]
    /\ runner' = [runner EXCEPT ![w] = Advanced(w, runner[w].read)]
    /\ UNCHANGED <<audit, step, attempts, reruns, stored, made_from, missing, decided, overlapped>>

\* _write replaces the object under the key of the artifact.
SaveArtifact(w) ==
    /\ Running(w) /\ Rest(w) > 0 /\ Effect(w).op = "save"
    /\ artifact' = [a \in Artifacts |-> IF a \in Effect(w).names THEN attempts[StageOf(w)] ELSE artifact[a]]
    /\ runner' = [runner EXCEPT ![w] = Advanced(w, runner[w].read)]
    /\ UNCHANGED <<audit, step, attempts, reruns, stored, made_from, missing, decided, overlapped>>

\* The deletes of a transaction see the rows committed so far.  The cases are not generated
\* again once one of them is decided.
DeleteOld(w) ==
    /\ Running(w) /\ Rest(w) > 0 /\ Effect(w).op = "write" /\ ~InTransaction(w)
    /\ \/ /\ StageOf(w) = "COURT_CASE_GENERATION" /\ decided
          /\ step' = [step EXCEPT !["COURT_CASE_GENERATION"] = "skipped"]
          /\ runner' = [runner EXCEPT ![w] = At(runner[w].stage, 0, <<>>, <<>>)]
       \/ /\ ~(StageOf(w) = "COURT_CASE_GENERATION" /\ decided)
          /\ runner' = [runner EXCEPT ![w].old =
                [t \in StageTables |-> IF t \in Effect(w).clear THEN stored[t] ELSE {}]]
          /\ UNCHANGED step
    /\ UNCHANGED <<audit, attempts, reruns, stored, artifact, made_from, missing, decided, overlapped>>

\* A unique key of the audit and of something the data determine, so that the rows of two runs
\* collide.
KeyedTables == {t \in DOMAIN Declared : \E key \in Declared[t].keys : "audit_run_id" \in key}
Keyed(t) == t \in KeyedTables

\* The inserts and the commit, or the violation of a unique key.
CommitRows(w) ==
    /\ Running(w) /\ InTransaction(w)
    /\ LET kept == [t \in StageTables |-> stored[t] \ runner[w].old[t]]
           filled == Effect(w).insert \cap Filled(StageOf(w))
           clash == \E t \in filled : Keyed(t) /\ kept[t] # {} IN
       \/ /\ clash /\ FailStage(w)
          /\ UNCHANGED <<stored, decided>>
       \/ /\ ~clash
          /\ stored' = [t \in StageTables |-> kept[t] \cup
                          IF t \in filled THEN {attempts[StageOf(w)]} ELSE {}]
          /\ decided' = (decided /\ StageOf(w) # "COURT_CASE_GENERATION")
          /\ runner' = [runner EXCEPT ![w] = Advanced(w, runner[w].read)]
          /\ UNCHANGED step
    /\ UNCHANGED <<audit, attempts, reruns, artifact, made_from, missing, overlapped>>

EndStage(w) ==
    /\ Running(w) /\ Rest(w) = 0
    /\ step' = [step EXCEPT ![StageOf(w)] = "completed"]
    /\ made_from' = [made_from EXCEPT ![StageOf(w)] = runner[w].read]
    /\ runner' = [runner EXCEPT ![w] = At(runner[w].stage, 0, <<>>, <<>>)]
    /\ UNCHANGED <<audit, attempts, reruns, stored, artifact, missing, decided, overlapped>>

\* The process dies, or notices that the job is no longer its own.
StopRunner(w) ==
    /\ runner[w] # Idle
    /\ runner' = [runner EXCEPT ![w] = Idle]
    /\ UNCHANGED <<audit, step, attempts, reruns, stored, artifact, made_from, missing, decided, overlapped>>

\* A reviewer decides a case that is committed, unless its row is being deleted.
Decide ==
    /\ stored["court_cases"] # {} /\ ~decided
    /\ \A w \in Runners :
          InTransaction(w) => "court_cases" \notin Effect(w).clear
    /\ decided' = TRUE
    /\ UNCHANGED <<audit, step, attempts, reruns, stored, artifact, runner, made_from, missing, overlapped>>

StagesNext ==
    \/ \E w \in Runners :
        \/ BeginStage(w) \/ LoadArtifact(w) \/ LookAtTables(w) \/ SaveArtifact(w)
        \/ DeleteOld(w) \/ CommitRows(w) \/ EndStage(w) \/ StopRunner(w)
    \/ Decide

StagesSpec == StagesInit /\ [][StagesNext]_stagesVars

-----------------------------------------------------------------------------
(* Properties *)

\* A history: stage_preflight adds to it, and clears nothing.
Appended == {"contract_evaluations"}

\* However often a stage is run again, its tables hold the rows of one run.  Only two processes
\* at once can double a table, and only one without a unique key that tells the rows apart.
RowsOfOneRun ==
    \A t \in StageTables \ Appended :
        Cardinality(stored[t]) <= 1 \/ (overlapped /\ ~Keyed(t))

\* No stage fails because something it loads was never written, whatever stages before it were
\* skipped and wherever their processes died.
NothingMissing == missing = {}

\* What a completed stage leaves behind comes from one run of it, and that run has read what is
\* there now: rows, artifacts and everything derived from them belong together.
Done(st) == step[st] = "completed"
WholeAndCurrent ==
    ~overlapped =>
        \A st \in StageNames : Done(st) =>
            /\ \A a \in Saved(st) : artifact[a] = attempts[st]
            /\ \A t \in Filled(st) : attempts[st] \in stored[t]
            /\ \A x \in DOMAIN made_from[st] :
                  made_from[st][x] = IF x \in Artifacts THEN artifact[x] ELSE stored[x]
=============================================================================
