---------------------------- MODULE SchemaProofs ----------------------------
(***************************************************************************)
(* Proofs about the database as a whole.  Deletion, for any versions,      *)
(* datasets, projects, workspaces and accounts and the schema as it is     *)
(* declared: what is left is whole, and nothing is left over.  Migrations, *)
(* for any runs of alembic and any purges that are enqueued meanwhile: the *)
(* database at head is the one the models declare.                         *)
(***************************************************************************)
EXTENDS Deletion, Migration, FiniteSetTheorems, SequenceTheorems, TLAPS

-----------------------------------------------------------------------------
(* Deletion: the tables.                                                   *)

Tables == DOMAIN Declared
Refs(row) == row.must \cup row.may

\* The tables others refer to, each referring to earlier ones only.
Trunk0 == {"users", "organizations"}
Trunk1 == Trunk0 \cup {"projects", "jobs"}
Trunk2 == Trunk1 \cup {"datasets", "data_contracts"}
Trunk3 == Trunk2 \cup {"dataset_versions"}
Trunk4 == Trunk3 \cup {"classes", "audit_runs"}
Trunk5 == Trunk4 \cup {"samples", "what_if_runs", "review_sessions"}
Trunk  == Trunk5 \cup {"duplicate_families", "failure_events", "court_cases", "baseline_model_runs"}

\* The tables that belong to nothing, to an account at most, to a workspace at most, and so on:
\* all others belong to a version.
Unowned     == {"algorithm_versions", "system_model_versions", "security_audit_log"}
UpToUser    == Unowned \cup {"users", "auth_sessions"}
UpToOrg     == UpToUser \cup {"organizations", "organization_members", "api_tokens",
                              "evidence_ledger", "jobs", "job_events"}
UpToProject == UpToOrg \cup {"projects", "audit_configs", "data_contracts"}
UpToDataset == UpToProject \cup {"datasets", "collection_tasks"}

\* Columns that may name another version than the row's own, the tables that have them, and the
\* tables that name an account.
SiblingColumns == {"parent_version_id", "to_version_id", "reference_version_id", "new_version_id"}
Comparing      == {"dataset_version_diffs", "contamination_checks"}
Reviewed       == {"human_decisions", "reviewer_notes"}
Personal       == Reviewed \cup {"users", "auth_sessions", "organization_members"}

\* A reference points towards the trunk ...
Ordered(t, row) ==
    \A ref \in Refs(row) :
        /\ ref[2] \in Trunk /\ t \notin Trunk0 \cup Unowned
        /\ t \in Trunk  => ref[2] \in Trunk5
        /\ t \in Trunk5 => ref[2] \in Trunk4
        /\ t \in Trunk4 => ref[2] \in Trunk3
        /\ t \in Trunk3 => ref[2] \in Trunk2
        /\ t \in Trunk2 => ref[2] \in Trunk1
        /\ t \in Trunk1 => ref[2] \in Trunk0

\* ... and outward.
Outward(t, row) ==
    \A ref \in Refs(row) :
        /\ t \in UpToUser    => ref[2] \in UpToUser
        /\ t \in UpToOrg     => ref[2] \in UpToOrg
        /\ t \in UpToProject => ref[2] \in UpToProject
        /\ t \in UpToDataset => ref[2] \in UpToDataset
        /\ ref[1] \in SiblingColumns => t \in Comparing /\ ref[2] = "dataset_versions"
        /\ ref[2] \in Personal => t \in Personal /\ ref[2] = "users"

\* The references that tie a row to its version.
VersionColumns ==
    {<<"dataset_version_id", "dataset_versions">>, <<"from_version_id", "dataset_versions">>,
     <<"source_version_id", "dataset_versions">>, <<"audit_run_id", "audit_runs">>,
     <<"case_id", "court_cases">>, <<"family_id", "duplicate_families">>,
     <<"failure_event_id", "failure_events">>, <<"run_id", "what_if_runs">>}

\* Every row is tied to the level it belongs to.
Anchored(t, row) ==
    /\ t \notin UpToDataset \cup {"dataset_versions"} => \E ref \in VersionColumns : ref \in Refs(row)
    /\ t \in {"dataset_versions", "collection_tasks"} => <<"dataset_id", "datasets">> \in Refs(row)
    /\ t \in {"datasets", "audit_configs", "data_contracts"} =>
            <<"project_id", "projects">> \in Refs(row)
    /\ t \in {"projects", "organization_members", "api_tokens", "evidence_ledger", "jobs"} =>
            <<"org_id", "organizations">> \in Refs(row)
    /\ t = "job_events" => <<"job_id", "jobs">> \in Refs(row)
    /\ t = "audit_reports" => <<"audit_run_id", "audit_runs">> \in Refs(row)
    /\ t = "auth_sessions" => <<"user_id", "users">> \in Refs(row)

Shape(t, row) == Ordered(t, row) /\ Outward(t, row) /\ Anchored(t, row)

\* The tables of each group have the shape.
LEMMA GroupsShaped ==
    /\ \A t \in DOMAIN IdentityTables : Shape(t, IdentityTables[t])
    /\ \A t \in DOMAIN DatasetTables : Shape(t, DatasetTables[t])
    /\ \A t \in DOMAIN AuditTables : Shape(t, AuditTables[t])
    /\ \A t \in DOMAIN ModelTables : Shape(t, ModelTables[t])
    /\ \A t \in DOMAIN FindingTables : Shape(t, FindingTables[t])
    /\ \A t \in DOMAIN CourtTables : Shape(t, CourtTables[t])
    /\ \A t \in DOMAIN ReviewTables : Shape(t, ReviewTables[t])
    /\ \A t \in DOMAIN WhatIfTables : Shape(t, WhatIfTables[t])
    /\ \A t \in DOMAIN GovernanceTables : Shape(t, GovernanceTables[t])
    /\ \A t \in DOMAIN JobTables : Shape(t, JobTables[t])
<1> USE DEF Refs, Table, Trunk0, Trunk1, Trunk2, Trunk3, Trunk4, Trunk5, Trunk, Unowned, UpToUser,
            UpToOrg, UpToProject, UpToDataset, SiblingColumns, Comparing, Reviewed, Personal,
            VersionColumns
<1>1. ASSUME NEW t \in DOMAIN IdentityTables PROVE Shape(t, IdentityTables[t])
  <2>1. Ordered(t, IdentityTables[t]) BY DEF IdentityTables, Ordered
  <2>2. Outward(t, IdentityTables[t]) BY DEF IdentityTables, Outward
  <2>3. Anchored(t, IdentityTables[t]) BY DEF IdentityTables, Anchored
  <2> QED BY <2>1, <2>2, <2>3 DEF Shape
<1>2. ASSUME NEW t \in DOMAIN DatasetTables PROVE Shape(t, DatasetTables[t])
  <2>1. Ordered(t, DatasetTables[t]) BY DEF DatasetTables, Ordered
  <2>2. Outward(t, DatasetTables[t]) BY DEF DatasetTables, Outward
  <2>3. Anchored(t, DatasetTables[t]) BY DEF DatasetTables, Anchored
  <2> QED BY <2>1, <2>2, <2>3 DEF Shape
<1>3. ASSUME NEW t \in DOMAIN AuditTables PROVE Shape(t, AuditTables[t])
  <2>1. Ordered(t, AuditTables[t]) BY DEF AuditTables, Ordered
  <2>2. Outward(t, AuditTables[t]) BY DEF AuditTables, Outward
  <2>3. Anchored(t, AuditTables[t]) BY DEF AuditTables, Anchored
  <2> QED BY <2>1, <2>2, <2>3 DEF Shape
<1>4. ASSUME NEW t \in DOMAIN ModelTables PROVE Shape(t, ModelTables[t])
  <2>1. Ordered(t, ModelTables[t]) BY DEF ModelTables, Ordered
  <2>2. Outward(t, ModelTables[t]) BY DEF ModelTables, Outward
  <2>3. Anchored(t, ModelTables[t]) BY DEF ModelTables, Anchored
  <2> QED BY <2>1, <2>2, <2>3 DEF Shape
<1>5. ASSUME NEW t \in DOMAIN FindingTables PROVE Shape(t, FindingTables[t])
  <2>1. Ordered(t, FindingTables[t]) BY DEF FindingTables, Ordered
  <2>2. Outward(t, FindingTables[t]) BY DEF FindingTables, Outward
  <2>3. Anchored(t, FindingTables[t]) BY DEF FindingTables, Anchored
  <2> QED BY <2>1, <2>2, <2>3 DEF Shape
<1>6. ASSUME NEW t \in DOMAIN CourtTables PROVE Shape(t, CourtTables[t])
  <2>1. Ordered(t, CourtTables[t]) BY DEF CourtTables, Ordered
  <2>2. Outward(t, CourtTables[t]) BY DEF CourtTables, Outward
  <2>3. Anchored(t, CourtTables[t]) BY DEF CourtTables, Anchored
  <2> QED BY <2>1, <2>2, <2>3 DEF Shape
<1>7. ASSUME NEW t \in DOMAIN ReviewTables PROVE Shape(t, ReviewTables[t])
  <2>1. Ordered(t, ReviewTables[t]) BY DEF ReviewTables, Ordered
  <2>2. Outward(t, ReviewTables[t]) BY DEF ReviewTables, Outward
  <2>3. Anchored(t, ReviewTables[t]) BY DEF ReviewTables, Anchored
  <2> QED BY <2>1, <2>2, <2>3 DEF Shape
<1>8. ASSUME NEW t \in DOMAIN WhatIfTables PROVE Shape(t, WhatIfTables[t])
  <2>1. Ordered(t, WhatIfTables[t]) BY DEF WhatIfTables, Ordered
  <2>2. Outward(t, WhatIfTables[t]) BY DEF WhatIfTables, Outward
  <2>3. Anchored(t, WhatIfTables[t]) BY DEF WhatIfTables, Anchored
  <2> QED BY <2>1, <2>2, <2>3 DEF Shape
<1>9. ASSUME NEW t \in DOMAIN GovernanceTables PROVE Shape(t, GovernanceTables[t])
  <2>1. Ordered(t, GovernanceTables[t]) BY DEF GovernanceTables, Ordered
  <2>2. Outward(t, GovernanceTables[t]) BY DEF GovernanceTables, Outward
  <2>3. Anchored(t, GovernanceTables[t]) BY DEF GovernanceTables, Anchored
  <2> QED BY <2>1, <2>2, <2>3 DEF Shape
<1>10. ASSUME NEW t \in DOMAIN JobTables PROVE Shape(t, JobTables[t])
  <2>1. Ordered(t, JobTables[t]) BY DEF JobTables, Ordered
  <2>2. Outward(t, JobTables[t]) BY DEF JobTables, Outward
  <2>3. Anchored(t, JobTables[t]) BY DEF JobTables, Anchored
  <2> QED BY <2>1, <2>2, <2>3 DEF Shape
<1> QED BY <1>1, <1>2, <1>3, <1>4, <1>5, <1>6, <1>7, <1>8, <1>9, <1>10

Shaped(group) == \A t \in DOMAIN group : Shape(t, group[t])

LEMMA MergedShaped ==
    ASSUME NEW some, NEW others, Shaped(some), Shaped(others)
    PROVE  Shaped(Merged(some, others))
<1> SUFFICES ASSUME NEW t \in DOMAIN Merged(some, others)
             PROVE  Shape(t, Merged(some, others)[t])
  BY DEF Shaped
<1>1. CASE t \in DOMAIN some
  <2>1. Merged(some, others)[t] = some[t] BY <1>1 DEF Merged
  <2> QED BY <1>1, <2>1 DEF Shaped
<1>2. CASE t \notin DOMAIN some
  <2>1. t \in DOMAIN others /\ Merged(some, others)[t] = others[t] BY <1>2 DEF Merged
  <2> QED BY <2>1 DEF Shaped
<1> QED BY <1>1, <1>2

LEMMA DeclaredShaped == \A t \in Tables : Shape(t, Declared[t])
<1>1. /\ Shaped(IdentityTables) /\ Shaped(DatasetTables) /\ Shaped(AuditTables)
      /\ Shaped(ModelTables) /\ Shaped(FindingTables) /\ Shaped(CourtTables)
      /\ Shaped(ReviewTables) /\ Shaped(WhatIfTables) /\ Shaped(GovernanceTables)
      /\ Shaped(JobTables)
  BY GroupsShaped DEF Shaped
<1> DEFINE early == Merged(Merged(IdentityTables, DatasetTables), Merged(AuditTables, ModelTables))
           later == Merged(Merged(FindingTables, CourtTables), Merged(ReviewTables, WhatIfTables))
<1>2. Shaped(early)
  BY <1>1, MergedShaped
<1>3. Shaped(later)
  BY <1>1, MergedShaped
<1>4. Shaped(Merged(GovernanceTables, JobTables))
  BY <1>1, MergedShaped
<1> HIDE DEF early, later
<1>5. Shaped(Merged(early, later))
  BY <1>2, <1>3, MergedShaped
<1>6. Shaped(Merged(Merged(early, later), Merged(GovernanceTables, JobTables)))
  BY <1>4, <1>5, MergedShaped
<1>7. Shaped(Declared)
  BY <1>6 DEF Declared, early, later
<1> QED BY <1>7 DEF Shaped, Tables

LEMMA InMerged ==
    ASSUME NEW some, NEW others
    PROVE  DOMAIN Merged(some, others) = DOMAIN some \cup DOMAIN others
BY DEF Merged

\* The tables of the schema are those of its groups.
LEMMA DeclaredTables ==
    Tables = DOMAIN IdentityTables \cup DOMAIN DatasetTables \cup DOMAIN AuditTables
              \cup DOMAIN ModelTables \cup DOMAIN FindingTables \cup DOMAIN CourtTables
              \cup DOMAIN ReviewTables \cup DOMAIN WhatIfTables \cup DOMAIN GovernanceTables
              \cup DOMAIN JobTables
<1> DEFINE a == Merged(IdentityTables, DatasetTables)  b == Merged(AuditTables, ModelTables)
           c == Merged(FindingTables, CourtTables)     d == Merged(ReviewTables, WhatIfTables)
           e == Merged(GovernanceTables, JobTables)
<1>1. /\ DOMAIN a = DOMAIN IdentityTables \cup DOMAIN DatasetTables
      /\ DOMAIN b = DOMAIN AuditTables \cup DOMAIN ModelTables
      /\ DOMAIN c = DOMAIN FindingTables \cup DOMAIN CourtTables
      /\ DOMAIN d = DOMAIN ReviewTables \cup DOMAIN WhatIfTables
      /\ DOMAIN e = DOMAIN GovernanceTables \cup DOMAIN JobTables
  BY InMerged
<1>2. Declared = Merged(Merged(Merged(a, b), Merged(c, d)), e)
  BY DEF Declared
<1> HIDE DEF a, b, c, d, e
<1>3. DOMAIN Merged(a, b) = DOMAIN a \cup DOMAIN b /\ DOMAIN Merged(c, d) = DOMAIN c \cup DOMAIN d
  BY InMerged
<1>4. DOMAIN Merged(Merged(a, b), Merged(c, d)) = DOMAIN Merged(a, b) \cup DOMAIN Merged(c, d)
  BY InMerged
<1>5. Tables = DOMAIN Merged(Merged(a, b), Merged(c, d)) \cup DOMAIN e
  BY <1>2, InMerged DEF Tables
<1> QED BY <1>1, <1>3, <1>4, <1>5

LEMMA TrunkDeclared ==
    Trunk \cup Reviewed \cup {"exports", "audit_reports", "evidence_ledger", "security_audit_log"}
        \subseteq Tables
<1>1. {"users", "organizations", "projects", "data_contracts"} \subseteq DOMAIN IdentityTables
  BY DEF IdentityTables
<1>2. {"datasets", "dataset_versions", "classes", "samples"} \subseteq DOMAIN DatasetTables
  BY DEF DatasetTables
<1>3. {"audit_runs", "duplicate_families"} \subseteq DOMAIN AuditTables /\ "jobs" \in DOMAIN JobTables
  BY DEF AuditTables, JobTables
<1>4. "baseline_model_runs" \in DOMAIN ModelTables /\ "failure_events" \in DOMAIN FindingTables
  BY DEF ModelTables, FindingTables
<1>5. /\ "court_cases" \in DOMAIN CourtTables /\ Reviewed \cup {"review_sessions"} \subseteq DOMAIN ReviewTables
      /\ "what_if_runs" \in DOMAIN WhatIfTables
  BY DEF CourtTables, ReviewTables, WhatIfTables, Reviewed
<1>6. {"exports", "audit_reports", "evidence_ledger", "security_audit_log"}
          \subseteq DOMAIN GovernanceTables
  BY DEF GovernanceTables
<1> QED BY DeclaredTables, <1>1, <1>2, <1>3, <1>4, <1>5, <1>6
        DEF Trunk, Trunk5, Trunk4, Trunk3, Trunk2, Trunk1, Trunk0

\* What a table has if the tables it refers to have it, every table has.
LEMMA TableInduction ==
    ASSUME NEW P, \A t \in Tables : Targets(Refs(Declared[t])) \subseteq P => t \in P
    PROVE  Tables \subseteq P
<1> DEFINE To(t) == Targets(Refs(Declared[t]))
<1>1. \A t \in Tables :
        /\ To(t) \subseteq Trunk
        /\ t \in Trunk0 => To(t) = {}
        /\ t \in Trunk  => To(t) \subseteq Trunk5
        /\ t \in Trunk5 => To(t) \subseteq Trunk4
        /\ t \in Trunk4 => To(t) \subseteq Trunk3
        /\ t \in Trunk3 => To(t) \subseteq Trunk2
        /\ t \in Trunk2 => To(t) \subseteq Trunk1
        /\ t \in Trunk1 => To(t) \subseteq Trunk0
  BY DeclaredShaped DEF Shape, Ordered, Targets
<1>2. Trunk0 \subseteq Trunk1 /\ Trunk1 \subseteq Trunk2 /\ Trunk2 \subseteq Trunk3
      /\ Trunk3 \subseteq Trunk4 /\ Trunk4 \subseteq Trunk5 /\ Trunk5 \subseteq Trunk
  BY DEF Trunk, Trunk5, Trunk4, Trunk3, Trunk2, Trunk1
<1> HIDE DEF To
<1>3. \A t \in Tables : To(t) \subseteq P => t \in P
  BY DEF To
<1>4. Trunk0 \subseteq P
  BY <1>1, <1>2, <1>3, TrunkDeclared
<1>5. Trunk1 \subseteq P
  BY <1>1, <1>2, <1>3, <1>4, TrunkDeclared
<1>6. Trunk2 \subseteq P
  BY <1>1, <1>2, <1>3, <1>5, TrunkDeclared
<1>7. Trunk3 \subseteq P
  BY <1>1, <1>2, <1>3, <1>6, TrunkDeclared
<1>8. Trunk4 \subseteq P
  BY <1>1, <1>2, <1>3, <1>7, TrunkDeclared
<1>9. Trunk5 \subseteq P
  BY <1>1, <1>2, <1>3, <1>8, TrunkDeclared
<1>10. Trunk \subseteq P
  BY <1>1, <1>3, <1>9, TrunkDeclared
<1> QED BY <1>1, <1>3, <1>10

\* Following arrows: a function that collects what can be reached exists, with cycles or without.
LEMMA CollectionExists ==
    ASSUME NEW S, NEW D \in [S -> SUBSET S]
    PROVE  \E f : f = [x \in S |-> {x} \cup UNION {f[y] : y \in D[x]}]
<1> DEFINE Closed(C) == C \subseteq S /\ \A y \in C : D[y] \subseteq C
           R == [x \in S |-> {z \in S : \A C \in SUBSET S : Closed(C) /\ x \in C => z \in C}]
           All(x) == {x} \cup UNION {R[y] : y \in D[x]}
<1>1. ASSUME NEW x \in S PROVE R[x] = All(x)
  <2>1. ASSUME NEW z \in All(x) PROVE z \in R[x]
    <3>1. CASE z = x
      BY <3>1
    <3>2. CASE z # x
      <4>1. PICK y \in D[x] : z \in R[y]
        BY <2>1, <3>2
      <4>2. y \in S /\ z \in S
        BY <4>1
      <4>3. ASSUME NEW C \in SUBSET S, Closed(C), x \in C PROVE z \in C
        BY <4>1, <4>2, <4>3
      <4> QED BY <4>2, <4>3
    <3> QED BY <3>1, <3>2
  <2>2. Closed(All(x))
    <3>1. \A y \in S : R[y] \subseteq S /\ y \in R[y]
      OBVIOUS
    <3>2. All(x) \subseteq S
      <4>1. \A y \in D[x] : y \in S
        OBVIOUS
      <4> HIDE DEF R
      <4> QED BY <3>1, <4>1
    <3>3. ASSUME NEW z \in All(x), NEW w \in D[z] PROVE w \in All(x)
      <4>1. CASE z = x
        <5>1. w \in D[x] /\ w \in S BY <3>3, <4>1
        <5>2. w \in R[w] BY <5>1, <3>1
        <5> QED BY <5>1, <5>2
      <4>2. CASE z # x
        <5>1. PICK y \in D[x] : z \in R[y]
          BY <3>3, <4>2
        <5>2. y \in S /\ z \in S /\ w \in S
          BY <5>1, <3>1, <3>3
        <5>3. ASSUME NEW C \in SUBSET S, Closed(C), y \in C PROVE w \in C
          BY <5>1, <5>2, <5>3, <3>3
        <5>4. w \in R[y]
          BY <5>2, <5>3
        <5> QED BY <5>1, <5>4
      <4> QED BY <4>1, <4>2
    <3> HIDE DEF All
    <3> QED BY <3>2, <3>3
  <2>3. R[x] \subseteq All(x)
    <3>1. x \in All(x) /\ All(x) \in SUBSET S
      BY <2>2
    <3> HIDE DEF All
    <3> QED BY <2>2, <3>1
  <2> QED BY <2>1, <2>3
<1>2. R = [x \in S |-> {x} \cup UNION {R[y] : y \in D[x]}]
  <2> HIDE DEF R
  <2> QED BY <1>1 DEF R
<1> QED BY <1>2

-----------------------------------------------------------------------------
(* Deletion: the level of a table.                                         *)

\* The recursion that defines Above has a solution, so Above is one.
LEMMA AboveIs ==
    ASSUME NEW t \in Tables
    PROVE  Above[t] = {t} \cup UNION {Above[u] : u \in Targets(Refs(Declared[t]))}
<1> DEFINE D == [x \in Tables |-> Targets(Refs(Declared[x]))]
<1>1. D \in [Tables -> SUBSET Tables]
  BY DeclaredShaped, TrunkDeclared DEF Shape, Ordered, Targets
<1>2. \E f : f = [x \in Tables |-> {x} \cup UNION {f[y] : y \in D[x]}]
  <2> HIDE DEF D
  <2> QED BY <1>1, CollectionExists, Zenon
<1>3. \E f : f = [x \in Tables |-> {x} \cup UNION {f[y] : y \in Targets(Refs(Declared[x]))}]
  BY <1>2
<1>4. Above = [x \in Tables |-> {x} \cup UNION {Above[y] : y \in Targets(Refs(Declared[x]))}]
  BY <1>3 DEF Above, Tables, Cascading, Refs
<1> QED BY <1>4

\* If the tables of G except g are those that refer to a table of G, they are those below g.
LEMMA Below ==
    ASSUME NEW G, NEW g \in G,
           \A t \in Tables : t = g \/ (t \in G <=> \E ref \in Refs(Declared[t]) : ref[2] \in G)
    PROVE  \A t \in Tables : t \in G <=> g \in Above[t]
<1> DEFINE P == {t \in Tables : t \in G <=> g \in Above[t]}
<1>1. ASSUME NEW t \in Tables, Targets(Refs(Declared[t])) \subseteq P PROVE t \in P
  <2>1. CASE t = g
    BY <2>1, AboveIs
  <2>2. CASE t # g
    <3>1. g \in Above[t] <=> \E u \in Targets(Refs(Declared[t])) : g \in Above[u]
      BY <2>2, AboveIs
    <3>2. \A u \in Targets(Refs(Declared[t])) : u \in G <=> g \in Above[u]
      BY <1>1
    <3>3. t \in G <=> \E u \in Targets(Refs(Declared[t])) : u \in G
      BY <2>2 DEF Targets
    <3> QED BY <3>1, <3>2, <3>3
  <2> QED BY <2>1, <2>2
<1>2. Tables \subseteq P
  <2> HIDE DEF P
  <2> QED BY <1>1, TableInduction
<1> QED BY <1>2

Levels == {Versions, Datasets, Projects, Orgs, Users}

\* The homes of the tables.
LEMMA HomesAre ==
    ASSUME NEW t \in Tables
    PROVE  /\ t \notin UpToDataset => TableHomes[t] = Versions
           /\ t \in UpToDataset \ UpToProject => TableHomes[t] = Datasets
           /\ t \in UpToProject \ UpToOrg => TableHomes[t] = Projects
           /\ t \in UpToOrg \ UpToUser \/ t = "security_audit_log" => TableHomes[t] = Orgs
           /\ t \in UpToUser \ Unowned => TableHomes[t] = Users
           /\ t \in Unowned /\ t # "security_audit_log" => TableHomes[t] = {}
<1>1. \A u \in Tables : Outward(u, Declared[u]) /\ Anchored(u, Declared[u]) /\ Ordered(u, Declared[u])
  BY DeclaredShaped DEF Shape
<1>2. /\ UpToUser \subseteq UpToOrg /\ UpToOrg \subseteq UpToProject /\ UpToProject \subseteq UpToDataset
      /\ Unowned \subseteq UpToUser
  BY DEF UpToDataset, UpToProject, UpToOrg, UpToUser
<1>3. t \notin UpToDataset <=> "dataset_versions" \in Above[t]
  <2> DEFINE G == Tables \ UpToDataset
  <2>1. "dataset_versions" \in G
    BY TrunkDeclared DEF Trunk, Trunk5, Trunk4, Trunk3, UpToDataset, UpToProject, UpToOrg,
           UpToUser, Unowned
  <2>2. ASSUME NEW u \in Tables, u # "dataset_versions"
        PROVE  u \in G <=> \E ref \in Refs(Declared[u]) : ref[2] \in G
    <3>1. \A ref \in VersionColumns : ref[2] \in Trunk /\ ref[2] \notin UpToDataset
      BY DEF VersionColumns, Trunk, Trunk5, Trunk4, Trunk3, UpToDataset, UpToProject, UpToOrg,
             UpToUser, Unowned
    <3>2. u \notin UpToDataset => \E ref \in VersionColumns : ref \in Refs(Declared[u])
      BY <1>1, <2>2 DEF Anchored
    <3>3. \A ref \in Refs(Declared[u]) : u \in UpToDataset => ref[2] \in UpToDataset
      BY <1>1 DEF Outward
    <3> QED BY <3>1, <3>2, <3>3, TrunkDeclared
  <2> HIDE DEF G
  <2>3. t \in G <=> "dataset_versions" \in Above[t]
    BY <2>1, <2>2, Below
  <2> QED BY <2>3 DEF G
<1>4. t \notin UpToProject <=> "datasets" \in Above[t]
  <2> DEFINE G == Tables \ UpToProject
  <2>1. "datasets" \in G
    BY TrunkDeclared DEF Trunk, Trunk5, Trunk4, Trunk3, Trunk2, UpToProject, UpToOrg, UpToUser,
           Unowned
  <2>2. ASSUME NEW u \in Tables, u # "datasets"
        PROVE  u \in G <=> \E ref \in Refs(Declared[u]) : ref[2] \in G
    <3>1. \A ref \in VersionColumns \cup {<<"dataset_id", "datasets">>} :
              ref[2] \in Trunk /\ ref[2] \notin UpToProject
      BY DEF VersionColumns, Trunk, Trunk5, Trunk4, Trunk3, Trunk2, UpToProject, UpToOrg,
             UpToUser, Unowned
    <3>2. u \notin UpToProject => \E ref \in VersionColumns \cup {<<"dataset_id", "datasets">>} :
                                      ref \in Refs(Declared[u])
      BY <1>1, <2>2 DEF Anchored, UpToDataset
    <3>3. \A ref \in Refs(Declared[u]) : u \in UpToProject => ref[2] \in UpToProject
      BY <1>1 DEF Outward
    <3> QED BY <3>1, <3>2, <3>3, TrunkDeclared
  <2> HIDE DEF G
  <2>3. t \in G <=> "datasets" \in Above[t]
    BY <2>1, <2>2, Below
  <2> QED BY <2>3 DEF G
<1>5. t \notin UpToOrg <=> "projects" \in Above[t]
  <2> DEFINE G == Tables \ UpToOrg
             To == VersionColumns \cup {<<"dataset_id", "datasets">>, <<"project_id", "projects">>}
  <2>1. "projects" \in G
    BY TrunkDeclared DEF Trunk, Trunk5, Trunk4, Trunk3, Trunk2, Trunk1, UpToOrg, UpToUser, Unowned
  <2>2. ASSUME NEW u \in Tables, u # "projects"
        PROVE  u \in G <=> \E ref \in Refs(Declared[u]) : ref[2] \in G
    <3>1. \A ref \in To : ref[2] \in Trunk /\ ref[2] \notin UpToOrg
      BY DEF VersionColumns, Trunk, Trunk5, Trunk4, Trunk3, Trunk2, Trunk1, UpToOrg, UpToUser,
             Unowned
    <3>2. u \notin UpToOrg => \E ref \in To : ref \in Refs(Declared[u])
      BY <1>1, <2>2 DEF Anchored, UpToDataset, UpToProject
    <3>3. \A ref \in Refs(Declared[u]) : u \in UpToOrg => ref[2] \in UpToOrg
      BY <1>1 DEF Outward
    <3> QED BY <3>1, <3>2, <3>3, TrunkDeclared
  <2> HIDE DEF G, To
  <2>3. t \in G <=> "projects" \in Above[t]
    BY <2>1, <2>2, Below
  <2> QED BY <2>3 DEF G
<1>6. t \notin UpToUser <=> "organizations" \in Above[t]
  <2> DEFINE G == Tables \ UpToUser
             To == VersionColumns \cup {<<"dataset_id", "datasets">>, <<"project_id", "projects">>,
                                        <<"org_id", "organizations">>, <<"job_id", "jobs">>}
  <2>1. "organizations" \in G
    BY TrunkDeclared
    DEF Trunk, Trunk5, Trunk4, Trunk3, Trunk2, Trunk1, Trunk0, UpToUser, Unowned
  <2>2. ASSUME NEW u \in Tables, u # "organizations"
        PROVE  u \in G <=> \E ref \in Refs(Declared[u]) : ref[2] \in G
    <3>1. \A ref \in To : ref[2] \in Trunk /\ ref[2] \notin UpToUser
      BY DEF VersionColumns, Trunk, Trunk5, Trunk4, Trunk3, Trunk2, Trunk1, Trunk0, UpToUser,
             Unowned
    <3>2. u \notin UpToUser => \E ref \in To : ref \in Refs(Declared[u])
      BY <1>1, <2>2 DEF Anchored, UpToDataset, UpToProject, UpToOrg
    <3>3. \A ref \in Refs(Declared[u]) : u \in UpToUser => ref[2] \in UpToUser
      BY <1>1 DEF Outward
    <3> QED BY <3>1, <3>2, <3>3, TrunkDeclared
  <2> HIDE DEF G, To
  <2>3. t \in G <=> "organizations" \in Above[t]
    BY <2>1, <2>2, Below
  <2> QED BY <2>3 DEF G
<1>7. t \in UpToUser \ Unowned => "users" \in Above[t]
  <2>1. "users" \in Tables /\ "users" \in Above["users"]
    BY TrunkDeclared, AboveIs DEF Trunk, Trunk5, Trunk4, Trunk3, Trunk2, Trunk1, Trunk0
  <2>2. t = "auth_sessions" => "users" \in Targets(Refs(Declared[t]))
    BY <1>1 DEF Anchored, Targets
  <2>3. t = "auth_sessions" => Above["users"] \subseteq Above[t]
    BY <2>2, AboveIs
  <2> QED BY <2>1, <2>3 DEF UpToUser
<1>8. t \in Unowned => Above[t] = {t}
  <2>1. t \in Unowned => Targets(Refs(Declared[t])) = {}
    BY <1>1 DEF Ordered, Targets
  <2> QED BY <2>1, AboveIs
<1>9. "users" \notin Unowned
  BY DEF Unowned
<1>10. TableHomes[t] = HomesOf(t)
  BY DEF TableHomes, Tables
<1>11. "security_audit_log" \in Unowned
  BY DEF Unowned
<1> QED
  BY <1>2, <1>3, <1>4, <1>5, <1>6, <1>7, <1>8, <1>9, <1>10, <1>11 DEF HomesOf

-----------------------------------------------------------------------------
(* Deletion: homes and rows.                                               *)

\* The homes of a level lie within one home of each level further out.
LEMMA HomeFacts ==
    /\ \A h \in Versions :
          /\ Ancestors(h) = {h, ParentOf[h], ParentOf[ParentOf[h]], OrgOf(h)}
          /\ ParentOf[h] \in Datasets /\ ParentOf[ParentOf[h]] \in Projects
          /\ OrgOf(h) = ParentOf[ParentOf[ParentOf[h]]] /\ OrgOf(h) \in Orgs
    /\ \A h \in Datasets :
          /\ Ancestors(h) = {h, ParentOf[h], OrgOf(h)}
          /\ ParentOf[h] \in Projects /\ OrgOf(h) = ParentOf[ParentOf[h]] /\ OrgOf(h) \in Orgs
    /\ \A h \in Projects :
          /\ Ancestors(h) = {h, OrgOf(h)} /\ OrgOf(h) = ParentOf[h] /\ OrgOf(h) \in Orgs
    /\ \A h \in Orgs \cup Users : Ancestors(h) = {h} /\ OrgOf(h) = h
<1> USE DeletionAssumption
<1>1. ASSUME NEW h \in Versions
      PROVE  /\ Ancestors(h) = {h, ParentOf[h], ParentOf[ParentOf[h]], OrgOf(h)}
             /\ ParentOf[h] \in Datasets /\ ParentOf[ParentOf[h]] \in Projects
             /\ OrgOf(h) = ParentOf[ParentOf[ParentOf[h]]] /\ OrgOf(h) \in Orgs
  BY DEF Ancestors, OrgOf
<1>2. ASSUME NEW h \in Datasets
      PROVE  /\ Ancestors(h) = {h, ParentOf[h], OrgOf(h)}
             /\ ParentOf[h] \in Projects /\ OrgOf(h) = ParentOf[ParentOf[h]] /\ OrgOf(h) \in Orgs
  <2>1. h \notin Versions OBVIOUS
  <2> QED BY <2>1 DEF Ancestors, OrgOf
<1>3. ASSUME NEW h \in Projects
      PROVE  Ancestors(h) = {h, OrgOf(h)} /\ OrgOf(h) = ParentOf[h] /\ OrgOf(h) \in Orgs
  <2>1. h \notin Versions \cup Datasets OBVIOUS
  <2> QED BY <2>1 DEF Ancestors, OrgOf
<1>4. ASSUME NEW h \in Orgs \cup Users PROVE Ancestors(h) = {h} /\ OrgOf(h) = h
  <2>1. h \notin Versions \cup Datasets \cup Projects OBVIOUS
  <2> QED BY <2>1 DEF Ancestors, OrgOf
<1> QED BY <1>1, <1>2, <1>3, <1>4

LEMMA Lineage ==
    ASSUME NEW h \in Homes, NEW a \in Ancestors(h)
    PROVE  /\ a \in Homes /\ Ancestors(a) \subseteq Ancestors(h) /\ OrgOf(a) = OrgOf(h)
           /\ a \in Users <=> h \in Users
           /\ a \in Versions => a = h
<1> USE DeletionAssumption, HomeFacts
<1>1. CASE h \in Versions
  <2>1. a \in {h, ParentOf[h], ParentOf[ParentOf[h]], OrgOf(h)} BY <1>1
  <2> QED BY <1>1, <2>1 DEF Homes
<1>2. CASE h \in Datasets
  <2>1. a \in {h, ParentOf[h], OrgOf(h)} BY <1>2
  <2> QED BY <1>2, <2>1 DEF Homes
<1>3. CASE h \in Projects
  <2>1. a \in {h, OrgOf(h)} BY <1>3
  <2> QED BY <1>3, <2>1 DEF Homes
<1>4. CASE h \in Orgs \cup Users
  BY <1>4
<1> QED BY <1>1, <1>2, <1>3, <1>4 DEF Homes

LEMMA RowsAre ==
    /\ \A r \in AllRows : r = <<r[1], r[2]>> /\ r[1] \in Tables /\ r[2] \in TableHomes[r[1]]
    /\ \A t \in Tables : \A h \in TableHomes[t] : <<t, h>> \in AllRows
BY DEF AllRows, Tables

LEMMA HomesTyped ==
    ASSUME NEW t \in Tables, NEW h \in TableHomes[t]
    PROVE  h \in Homes
BY HomesAre DEF Homes

\* Where a reference leads: to the user the row names, to a version of its own or another, or to
\* a row of its home or one further out.
LEMMA ReferredIs ==
    ASSUME NEW t \in Tables, NEW h \in TableHomes[t], NEW ref \in Refs(Declared[t])
    PROVE  /\ ref[2] \in Trunk
           /\ Referred(<<t, h>>, ref[1], ref[2]) \in AllRows
           /\ Referred(<<t, h>>, ref[1], ref[2])[1] = ref[2]
           /\ ref[2] = "users" =>
                 Referred(<<t, h>>, ref[1], ref[2]) = <<"users", NamedUser(<<t, h>>)>>
           /\ ref[2] # "users" /\ t \notin Comparing =>
                 Referred(<<t, h>>, ref[1], ref[2])[2] \in Ancestors(h)
           /\ ref[2] # "users" /\ ref[1] \notin SiblingColumns =>
                 Referred(<<t, h>>, ref[1], ref[2])[2] \in Ancestors(h)
           /\ ref[2] # "users" => h \notin Users
<1> DEFINE c == ref[1]
           u == ref[2]
           q == Referred(<<t, h>>, c, u)
<1>1. /\ u \in Trunk /\ u \in Tables /\ t \notin Unowned
      /\ t \in UpToUser => u \in UpToUser
      /\ t \in UpToOrg => u \in UpToOrg
      /\ t \in UpToProject => u \in UpToProject
      /\ t \in UpToDataset => u \in UpToDataset
      /\ c \in SiblingColumns => t \in Comparing /\ u = "dataset_versions"
  BY DeclaredShaped, TrunkDeclared DEF Shape, Ordered, Outward
<1>2. u \notin Unowned /\ (u \in UpToUser => u = "users")
  BY <1>1 DEF Unowned, UpToUser, Trunk, Trunk5, Trunk4, Trunk3, Trunk2, Trunk1, Trunk0
<1>3. UpToUser \subseteq UpToOrg /\ UpToOrg \subseteq UpToProject /\ UpToProject \subseteq UpToDataset
  BY DEF UpToDataset, UpToProject, UpToOrg
<1>4. h \in Homes
  BY HomesTyped
<1>5. q = <<u, IF TableHomes[u] = Users THEN NamedUser(<<t, h>>)
               ELSE IF c \in SiblingColumns THEN Sibling[h]
               ELSE IF Ancestors(h) \cap TableHomes[u] # {}
                    THEN CHOOSE a \in Ancestors(h) \cap TableHomes[u] : TRUE
               ELSE CHOOSE a \in TableHomes[u] : h \in Ancestors(a)>>
  BY DEF Referred, SiblingColumns
<1> HIDE DEF c, u, q
<1>6. CASE u = "users"
  <2>1. TableHomes[u] = Users
    BY <1>1, <1>6, HomesAre DEF UpToUser, Unowned
  <2>2. t = "reviewer_notes" => h \in Versions
    BY HomesAre DEF UpToDataset, UpToProject, UpToOrg, UpToUser, Unowned
  <2>3. NamedUser(<<t, h>>) \in Users
    BY <1>4, <2>2, DeletionAssumption DEF NamedUser
  <2>4. q = <<"users", NamedUser(<<t, h>>)>>
    BY <1>5, <1>6, <2>1
  <2>5. q \in AllRows
    BY <1>1, <1>6, <2>1, <2>3, <2>4, RowsAre
  <2> QED BY <1>1, <1>6, <2>4, <2>5 DEF c, u, q
<1>7. CASE u # "users" /\ c \in SiblingColumns
  <2>1. t \in Comparing /\ u = "dataset_versions"
    BY <1>1, <1>7
  <2>2. TableHomes[t] = Versions /\ TableHomes[u] = Versions
    BY <1>1, <2>1, HomesAre DEF Comparing, UpToDataset, UpToProject, UpToOrg, UpToUser, Unowned
  <2>3. h \in Versions /\ h \notin Users /\ Versions # Users /\ Sibling[h] \in Versions
    BY <2>2, DeletionAssumption
  <2>4. q = <<u, Sibling[h]>>
    BY <1>5, <1>7, <2>2, <2>3
  <2>5. q \in AllRows
    BY <1>1, <2>2, <2>3, <2>4, RowsAre
  <2> QED BY <1>1, <1>7, <2>1, <2>3, <2>4, <2>5 DEF c, u, q
<1>8. CASE u # "users" /\ c \notin SiblingColumns
  <2>1. u \notin UpToUser /\ t \notin UpToUser
    BY <1>1, <1>2, <1>8
  <2>2. h \notin Users /\ Ancestors(h) \cap TableHomes[u] # {}
    <3> USE DeletionAssumption, HomeFacts, HomesAre
    <3>1. CASE t \notin UpToDataset
      <4>1. h \in Versions BY <3>1
      <4>2. TableHomes[u] \in {Versions, Datasets, Projects, Orgs} BY <1>1, <1>3, <2>1
      <4> QED BY <4>1, <4>2
    <3>2. CASE t \in UpToDataset \ UpToProject
      <4>1. h \in Datasets BY <3>2
      <4>2. TableHomes[u] \in {Datasets, Projects, Orgs} BY <1>1, <1>3, <2>1, <3>2
      <4> QED BY <4>1, <4>2
    <3>3. CASE t \in UpToProject \ UpToOrg
      <4>1. h \in Projects BY <3>3
      <4>2. TableHomes[u] \in {Projects, Orgs} BY <1>1, <1>3, <2>1, <3>3
      <4> QED BY <4>1, <4>2
    <3>4. CASE t \in UpToOrg
      <4>1. h \in Orgs BY <2>1, <3>4
      <4>2. TableHomes[u] = Orgs BY <1>1, <2>1, <3>4
      <4> QED BY <4>1, <4>2
    <3> QED BY <1>3, <3>1, <3>2, <3>3, <3>4
  <2>3. TableHomes[u] # Users
    BY <1>4, <2>2, Lineage
  <2>4. PICK a \in Ancestors(h) \cap TableHomes[u] : q = <<u, a>>
    BY <1>5, <1>8, <2>2, <2>3
  <2>5. q \in AllRows
    BY <1>1, <2>4, RowsAre
  <2> QED BY <1>1, <1>8, <2>2, <2>4, <2>5 DEF c, u, q
<1> QED BY <1>1, <1>6, <1>7, <1>8 DEF c, u, q

-----------------------------------------------------------------------------
(* Deletion: what a row stands on.                                         *)

LEMMA DependsTyped ==
    ASSUME NEW r \in AllRows
    PROVE  /\ DependsOn(r) \subseteq AllRows
           /\ \A q \in DependsOn(r) : \E ref \in Refs(Declared[r[1]]) :
                  q = Referred(r, ref[1], ref[2]) /\ q[1] = ref[2]
           /\ \A ref \in Refs(Declared[r[1]]) : Referred(r, ref[1], ref[2]) \in DependsOn(r)
<1>1. r = <<r[1], r[2]>> /\ r[1] \in Tables /\ r[2] \in TableHomes[r[1]]
  BY RowsAre
<1>2. DependsOn(r) = {Referred(r, ref[1], ref[2]) : ref \in Refs(Declared[r[1]])}
  BY DEF DependsOn, Cascading, Refs
<1>3. \A ref \in Refs(Declared[r[1]]) : /\ Referred(r, ref[1], ref[2]) \in AllRows
                                        /\ Referred(r, ref[1], ref[2])[1] = ref[2]
  BY <1>1, ReferredIs
<1> QED BY <1>2, <1>3

LEMMA SupportIs ==
    ASSUME NEW r \in AllRows
    PROVE  /\ Support[r] = {r} \cup UNION {Support[q] : q \in DependsOn(r)}
           /\ Supports[r] = Support[r]
<1> DEFINE D == [x \in AllRows |-> DependsOn(x)]
<1>1. D \in [AllRows -> SUBSET AllRows]
  BY DependsTyped
<1>2. \E f : f = [x \in AllRows |-> {x} \cup UNION {f[y] : y \in D[x]}]
  <2> HIDE DEF D
  <2> QED BY <1>1, CollectionExists, Zenon
<1>3. \E f : f = [x \in AllRows |-> {x} \cup UNION {f[y] : y \in DependsOn(x)}]
  BY <1>2
<1>4. Support = [x \in AllRows |-> {x} \cup UNION {Support[y] : y \in DependsOn(x)}]
  BY <1>3 DEF Support
<1> QED BY <1>4 DEF Supports

\* What a row has if the rows it refers to have it, every row has.
LEMMA RowInduction ==
    ASSUME NEW P, \A r \in AllRows : DependsOn(r) \subseteq P => r \in P
    PROVE  AllRows \subseteq P
<1> DEFINE T == {t \in Tables : \A h \in TableHomes[t] : <<t, h>> \in P}
<1>1. ASSUME NEW t \in Tables, Targets(Refs(Declared[t])) \subseteq T PROVE t \in T
  <2> SUFFICES ASSUME NEW h \in TableHomes[t] PROVE <<t, h>> \in P
    OBVIOUS
  <2>1. <<t, h>> \in AllRows
    BY RowsAre
  <2>2. ASSUME NEW q \in DependsOn(<<t, h>>) PROVE q \in P
    <3>1. q \in AllRows /\ \E ref \in Refs(Declared[t]) : q[1] = ref[2]
      BY <2>1, DependsTyped
    <3>2. q[1] \in T
      BY <1>1, <3>1 DEF Targets
    <3>3. q = <<q[1], q[2]>> /\ q[2] \in TableHomes[q[1]]
      BY <3>1, RowsAre
    <3> QED BY <3>2, <3>3
  <2> QED BY <2>1, <2>2
<1>2. Tables \subseteq T
  <2> HIDE DEF T
  <2> QED BY <1>1, TableInduction
<1>3. ASSUME NEW r \in AllRows PROVE r \in P
  BY <1>2, RowsAre
<1> QED BY <1>3

\* A row stands on itself, on rows that exist, and on whatever those stand on; apart from
\* itself only on rows of the trunk.
LEMMA SupportGrows ==
    ASSUME NEW r \in AllRows
    PROVE  /\ r \in Support[r] /\ Support[r] \subseteq AllRows
           /\ \A x \in Support[r] : /\ Support[x] \subseteq Support[r]
                                    /\ x = r \/ x[1] \in Trunk
<1> DEFINE Good(x) == /\ x \in Support[x] /\ Support[x] \subseteq AllRows
                      /\ \A y \in Support[x] : /\ Support[y] \subseteq Support[x]
                                               /\ y = x \/ y[1] \in Trunk
           P == {x \in AllRows : Good(x)}
<1>1. ASSUME NEW x \in AllRows, DependsOn(x) \subseteq P PROVE x \in P
  <2>1. Support[x] = {x} \cup UNION {Support[q] : q \in DependsOn(x)}
    BY SupportIs
  <2>2. \A q \in DependsOn(x) : Good(q) /\ q[1] \in Trunk
    <3>1. \A q \in DependsOn(x) : \E ref \in Refs(Declared[x[1]]) : q[1] = ref[2]
      BY DependsTyped
    <3>2. \A ref \in Refs(Declared[x[1]]) : ref[2] \in Trunk
      BY RowsAre, DeclaredShaped DEF Shape, Ordered
    <3> QED BY <1>1, <3>1, <3>2
  <2>3. x \in Support[x] /\ Support[x] \subseteq AllRows
    BY <2>1, <2>2
  <2>4. ASSUME NEW y \in Support[x]
        PROVE  Support[y] \subseteq Support[x] /\ (y = x \/ y[1] \in Trunk)
    <3>1. CASE y = x
      BY <3>1
    <3>2. CASE y # x
      <4>1. PICK q \in DependsOn(x) : y \in Support[q]
        BY <2>1, <2>4, <3>2
      <4>2. Support[y] \subseteq Support[q] /\ (y = q \/ y[1] \in Trunk)
        BY <2>2, <4>1
      <4>3. Support[q] \subseteq Support[x]
        BY <2>1, <4>1
      <4> QED BY <2>2, <4>1, <4>2, <4>3
    <3> QED BY <3>1, <3>2
  <2> QED BY <2>3, <2>4
<1>2. AllRows \subseteq P
  <2> HIDE DEF P
  <2> QED BY <1>1, RowInduction
<1> QED BY <1>2

\* A row stands on nothing of a version, dataset, project or workspace that its home does not
\* lie in, unless it compares two versions.
LEMMA SupportStaysHome ==
    ASSUME NEW r \in AllRows, r[1] \notin Comparing, NEW x \in Support[r], x[2] \notin Users
    PROVE  x[2] \in Ancestors(r[2])
<1> DEFINE P == {y \in AllRows : y[1] \notin Comparing =>
                    \A z \in Support[y] : z[2] \notin Users => z[2] \in Ancestors(y[2])}
<1>1. ASSUME NEW y \in AllRows, DependsOn(y) \subseteq P PROVE y \in P
  <2> SUFFICES ASSUME y[1] \notin Comparing, NEW z \in Support[y], z[2] \notin Users
               PROVE  z[2] \in Ancestors(y[2])
    OBVIOUS
  <2>1. y = <<y[1], y[2]>> /\ y[1] \in Tables /\ y[2] \in TableHomes[y[1]] /\ y[2] \in Homes
    BY RowsAre, HomesTyped
  <2>2. CASE z = y
    BY <2>1, <2>2, HomeFacts DEF Homes
  <2>3. CASE z # y
    <3>1. PICK q \in DependsOn(y) : z \in Support[q]
      BY <2>3, SupportIs
    <3>2. PICK ref \in Refs(Declared[y[1]]) : q = Referred(y, ref[1], ref[2]) /\ q[1] = ref[2]
      BY DependsTyped
    <3>3. /\ q \in AllRows /\ q[1] \in Trunk
          /\ ref[2] = "users" => q = <<"users", NamedUser(y)>>
          /\ ref[2] # "users" => q[2] \in Ancestors(y[2])
      BY <2>1, <3>2, ReferredIs
    <3>4. q[1] \notin Comparing
      BY <3>3 DEF Comparing, Trunk, Trunk5, Trunk4, Trunk3, Trunk2, Trunk1, Trunk0
    <3>5. z[2] \in Ancestors(q[2])
      BY <1>1, <3>1, <3>4
    <3>6. CASE ref[2] = "users"
      <4>1. q[2] \in Users
        BY <3>2, <3>3, <3>6, RowsAre, HomesAre DEF UpToUser, Unowned
      <4>2. z[2] \in Users
        BY <3>5, <4>1, HomeFacts
      <4> QED BY <4>2
    <3>7. CASE ref[2] # "users"
      BY <2>1, <3>3, <3>5, <3>7, Lineage
    <3> QED BY <3>6, <3>7
  <2> QED BY <2>2, <2>3
<1>2. AllRows \subseteq P
  <2> HIDE DEF P
  <2> QED BY <1>1, RowInduction
<1> QED BY <1>2

\* Only rows that name an account stand on one, and on no other.
LEMMA SupportNames ==
    ASSUME NEW r \in AllRows, NEW x \in Support[r], x[1] = "users"
    PROVE  r[1] \in Personal /\ x = <<"users", NamedUser(r)>>
<1> DEFINE P == {y \in AllRows : \A z \in Support[y] : z[1] = "users" =>
                    y[1] \in Personal /\ z = <<"users", NamedUser(y)>>}
<1>1. ASSUME NEW y \in AllRows, DependsOn(y) \subseteq P PROVE y \in P
  <2> SUFFICES ASSUME NEW z \in Support[y], z[1] = "users"
               PROVE  y[1] \in Personal /\ z = <<"users", NamedUser(y)>>
    OBVIOUS
  <2>1. \A u \in AllRows : u[1] = "users" => u[2] \in Users /\ u = <<"users", u[2]>>
    BY RowsAre, HomesAre DEF UpToUser, Unowned
  <2>2. CASE z = y
    BY <2>1, <2>2 DEF NamedUser, Personal
  <2>3. CASE z # y
    <3>1. PICK q \in DependsOn(y) : z \in Support[q]
      BY <2>3, SupportIs
    <3>2. PICK ref \in Refs(Declared[y[1]]) : q = Referred(y, ref[1], ref[2]) /\ q[1] = ref[2]
      BY DependsTyped
    <3>3. y = <<y[1], y[2]>> /\ y[1] \in Tables /\ y[2] \in TableHomes[y[1]] /\ q \in AllRows
      BY RowsAre, DependsTyped
    <3>4. q[1] \in Personal /\ z = <<"users", NamedUser(q)>>
      BY <1>1, <3>1
    <3>5. y[1] \in Personal /\ ref[2] = "users"
      BY <3>2, <3>3, <3>4, DeclaredShaped DEF Shape, Outward
    <3>6. q = <<"users", NamedUser(y)>>
      BY <3>2, <3>3, <3>5, ReferredIs
    <3>7. NamedUser(q) = q[2] /\ q = <<"users", q[2]>>
      BY <2>1, <3>2, <3>3, <3>5 DEF NamedUser
    <3> QED BY <3>4, <3>5, <3>6, <3>7
  <2> QED BY <2>2, <2>3
<1>2. AllRows \subseteq P
  <2> HIDE DEF P
  <2> QED BY <1>1, RowInduction
<1> QED BY <1>2

\* A row stands on its version, on the dataset of that, and on its workspace; a report on its audit.
LEMMA SupportReaches ==
    ASSUME NEW r \in AllRows
    PROVE  /\ r[2] \in Versions => <<"dataset_versions", r[2]>> \in Support[r]
           /\ r[2] \notin Users /\ r[1] # "security_audit_log" =>
                 <<"organizations", OrgOf(r[2])>> \in Support[r]
<1> DEFINE Home(y) == y[2] \in Versions => <<"dataset_versions", y[2]>> \in Support[y]
           Org(y) == y[2] \notin Users /\ y[1] # "security_audit_log" =>
                         <<"organizations", OrgOf(y[2])>> \in Support[y]
           P == {y \in AllRows : Home(y) /\ Org(y)}
           Up == VersionColumns \cup {<<"dataset_id", "datasets">>, <<"project_id", "projects">>,
                                      <<"org_id", "organizations">>, <<"job_id", "jobs">>}
<1>1. ASSUME NEW y \in AllRows, DependsOn(y) \subseteq P PROVE y \in P
  <2>1. y = <<y[1], y[2]>> /\ y[1] \in Tables /\ y[2] \in TableHomes[y[1]] /\ y[2] \in Homes
    BY RowsAre, HomesTyped
  <2>2. /\ Anchored(y[1], Declared[y[1]])
        /\ y[2] \in Versions => y[1] \notin UpToDataset
        /\ y[2] \notin Users /\ y[1] # "security_audit_log" => y[1] \notin UpToUser
    <3>1. UpToUser \subseteq UpToOrg /\ UpToOrg \subseteq UpToProject /\ UpToProject \subseteq UpToDataset
      BY DEF UpToDataset, UpToProject, UpToOrg
    <3> QED BY <2>1, <3>1, HomesAre, DeletionAssumption, DeclaredShaped DEF Shape
  <2>3. y \in Support[y]
    BY SupportGrows
  <2>4. ASSUME NEW ref \in Up, ref \in Refs(Declared[y[1]])
        PROVE  LET q == Referred(y, ref[1], ref[2]) IN
               /\ q \in P /\ Support[q] \subseteq Support[y]
               /\ q[1] = ref[2] /\ q[2] \in Ancestors(y[2])
    <3> DEFINE q == Referred(y, ref[1], ref[2])
    <3>1. ref[2] # "users" /\ ref[1] \notin SiblingColumns
      BY <2>4 DEF VersionColumns, SiblingColumns
    <3>2. q \in DependsOn(y)
      BY <2>4, DependsTyped
    <3>3. Support[q] \subseteq Support[y]
      BY <3>2, SupportIs
    <3>4. q[1] = ref[2] /\ q[2] \in Ancestors(y[2])
      BY <2>1, <2>4, <3>1, ReferredIs
    <3> QED BY <1>1, <3>2, <3>3, <3>4
  <2>5. Home(y)
    <3> SUFFICES ASSUME y[2] \in Versions, y[1] # "dataset_versions"
                 PROVE  <<"dataset_versions", y[2]>> \in Support[y]
      BY <2>1, <2>3
    <3>1. PICK ref \in VersionColumns : ref \in Refs(Declared[y[1]])
      BY <2>2 DEF Anchored
    <3> DEFINE q == Referred(y, ref[1], ref[2])
    <3>2. /\ q \in P /\ Support[q] \subseteq Support[y]
          /\ q[1] = ref[2] /\ q[2] \in Ancestors(y[2])
      BY <2>4, <3>1
    <3>3. q[1] \notin UpToDataset
      BY <3>2 DEF VersionColumns, UpToDataset, UpToProject, UpToOrg, UpToUser, Unowned
    <3> HIDE DEF q
    <3>4. q[2] \in Versions
      BY <3>2, <3>3, RowsAre, HomesAre
    <3>5. q[2] = y[2]
      BY <2>1, <3>2, <3>4, Lineage
    <3> QED BY <3>2, <3>4, <3>5
  <2>6. Org(y)
    <3> SUFFICES ASSUME y[2] \notin Users, y[1] # "security_audit_log", y[1] # "organizations"
                 PROVE  <<"organizations", OrgOf(y[2])>> \in Support[y]
      <4>1. y[1] = "organizations" => y[2] \in Orgs
        BY <2>1, HomesAre DEF UpToOrg, UpToUser, Unowned
      <4> QED BY <2>1, <2>3, <4>1, HomeFacts
    <3>1. PICK ref \in Up : ref \in Refs(Declared[y[1]])
      BY <2>2 DEF Anchored, UpToDataset, UpToProject, UpToOrg
    <3> DEFINE q == Referred(y, ref[1], ref[2])
    <3>2. /\ q \in P /\ Support[q] \subseteq Support[y]
          /\ q[1] = ref[2] /\ q[2] \in Ancestors(y[2])
      BY <2>4, <3>1
    <3>3. q[1] # "security_audit_log"
      BY <3>2 DEF VersionColumns
    <3> HIDE DEF q
    <3>4. OrgOf(q[2]) = OrgOf(y[2]) /\ q[2] \notin Users
      BY <2>1, <3>2, Lineage
    <3> QED BY <3>2, <3>3, <3>4
  <2> QED BY <2>5, <2>6
<1>2. AllRows \subseteq P
  <2> HIDE DEF P
  <2> QED BY <1>1, RowInduction
<1> QED BY <1>2
-----------------------------------------------------------------------------
(* Deletion: what goes with what.                                          *)

Stored == {"dataset_versions", "audit_runs", "exports", "audit_reports"}
Places == {"version", "audit", "export", "report"} \X Versions

\* A stored or reviewed row of a version stands on the version, its dataset and its workspace
\* and on no other, on an account only if a reviewer wrote it, and on no membership or session.
LEMMA VersionRow ==
    ASSUME NEW v \in Versions, NEW t \in Stored \cup Reviewed
    PROVE  /\ <<t, v>> \in AllRows
           /\ {<<"dataset_versions", v>>, <<"datasets", ParentOf[v]>>,
               <<"organizations", OrgOf(v)>>} \subseteq Support[<<t, v>>]
           /\ t = "audit_reports" => <<"audit_runs", v>> \in Support[<<t, v>>]
           /\ \A x \in Support[<<t, v>>] :
                 /\ x \in AllRows
                 /\ x[1] = "dataset_versions" => x = <<"dataset_versions", v>>
                 /\ x[1] = "datasets" => x = <<"datasets", ParentOf[v]>>
                 /\ x[1] = "organizations" => x = <<"organizations", OrgOf(v)>>
                 /\ x[1] = "users" => t \in Reviewed /\ x = <<"users", NamedUser(<<t, v>>)>>
                 /\ x[1] \notin {"organization_members", "auth_sessions"}
<1> DEFINE r == <<t, v>>
<1>1. /\ t \in Tables /\ t \notin UpToDataset /\ t \notin Comparing
      /\ "dataset_versions" \in Tables /\ "dataset_versions" \notin UpToDataset
      /\ "dataset_versions" \notin Comparing /\ "datasets" \in Tables /\ "audit_runs" \in Tables
      /\ "organizations" \in Tables
  <2>1. t \notin UpToDataset /\ t \notin Comparing /\ "dataset_versions" \notin UpToDataset
        /\ "dataset_versions" \notin Comparing
    BY DEF Stored, Reviewed, UpToDataset, UpToProject, UpToOrg, UpToUser, Unowned, Comparing
  <2> QED BY <2>1, TrunkDeclared
          DEF Stored, Trunk, Trunk5, Trunk4, Trunk3, Trunk2, Trunk1, Trunk0
<1>2. TableHomes[t] = Versions /\ TableHomes["dataset_versions"] = Versions
  BY <1>1, HomesAre
<1>3. TableHomes["datasets"] = Datasets /\ TableHomes["organizations"] = Orgs
  BY <1>1, HomesAre DEF UpToDataset, UpToProject, UpToOrg, UpToUser, Unowned
<1>4. r \in AllRows /\ <<"dataset_versions", v>> \in AllRows /\ v \in Homes /\ v \notin Users
  BY <1>1, <1>2, RowsAre, DeletionAssumption DEF Homes
<1>5. /\ <<"dataset_versions", v>> \in Support[r]
      /\ <<"organizations", OrgOf(v)>> \in Support[r]
  <2>1. t # "security_audit_log"
    BY DEF Stored, Reviewed
  <2>2. r[1] = t /\ r[2] = v
    OBVIOUS
  <2> HIDE DEF r
  <2> QED BY <1>4, <2>1, <2>2, SupportReaches
<1>6. <<"datasets", ParentOf[v]>> \in Support[<<"dataset_versions", v>>]
  <2> DEFINE d == <<"dataset_versions", v>>
             q == Referred(d, "dataset_id", "datasets")
  <2>1. <<"dataset_id", "datasets">> \in Refs(Declared["dataset_versions"])
    BY <1>1, DeclaredShaped DEF Shape, Anchored
  <2>2. q \in DependsOn(d) /\ q \in AllRows
    BY <1>4, <2>1, DependsTyped
  <2>3. q[1] = "datasets" /\ q[2] \in Ancestors(v)
    BY <1>1, <1>2, <2>1, ReferredIs
  <2> HIDE DEF q
  <2>4. q = <<"datasets", q[2]>> /\ q[2] \in Datasets
    BY <1>3, <2>2, <2>3, RowsAre
  <2>5. q[2] = ParentOf[v]
    BY <2>3, <2>4, HomeFacts, DeletionAssumption
  <2>6. q \in Support[d]
    BY <1>4, <2>2, SupportIs, SupportGrows
  <2> QED BY <2>4, <2>5, <2>6
<1>7. <<"datasets", ParentOf[v]>> \in Support[r]
  BY <1>4, <1>5, <1>6, SupportGrows
<1>8. ASSUME t = "audit_reports" PROVE <<"audit_runs", v>> \in Support[r]
  <2> DEFINE q == Referred(r, "audit_run_id", "audit_runs")
  <2>1. <<"audit_run_id", "audit_runs">> \in Refs(Declared[t])
    BY <1>1, <1>8, DeclaredShaped DEF Shape, Anchored
  <2>2. q \in DependsOn(r) /\ q \in AllRows
    BY <1>4, <2>1, DependsTyped
  <2>3. q[1] = "audit_runs" /\ q[2] \in Ancestors(v)
    BY <1>1, <1>2, <2>1, ReferredIs
  <2>4. TableHomes["audit_runs"] = Versions
    BY <1>1, HomesAre DEF UpToDataset, UpToProject, UpToOrg, UpToUser, Unowned
  <2> HIDE DEF q
  <2>5. q = <<"audit_runs", v>>
    BY <1>4, <2>2, <2>3, <2>4, RowsAre, Lineage
  <2> QED BY <1>4, <2>2, <2>5, SupportIs, SupportGrows
<1>9. ASSUME NEW x \in Support[r]
      PROVE  /\ x \in AllRows
             /\ x[1] = "dataset_versions" => x = <<"dataset_versions", v>>
             /\ x[1] = "datasets" => x = <<"datasets", ParentOf[v]>>
             /\ x[1] = "organizations" => x = <<"organizations", OrgOf(v)>>
             /\ x[1] = "users" => t \in Reviewed /\ x = <<"users", NamedUser(<<t, v>>)>>
             /\ x[1] \notin {"organization_members", "auth_sessions"}
  <2>1. x \in AllRows /\ (x = r \/ x[1] \in Trunk) /\ x = <<x[1], x[2]>> /\ x[2] \in TableHomes[x[1]]
    BY <1>4, SupportGrows, RowsAre
  <2>2. r[1] = t /\ r[2] = v
    OBVIOUS
  <2>3. x[2] \notin Users => x[2] \in Ancestors(v)
    BY <1>1, <1>4, <2>2, SupportStaysHome
  <2>4. Ancestors(v) \cap Versions = {v} /\ Ancestors(v) \cap Datasets = {ParentOf[v]}
        /\ Ancestors(v) \cap Orgs = {OrgOf(v)}
    BY HomeFacts, DeletionAssumption
  <2>5. x[1] = "dataset_versions" => x = <<"dataset_versions", v>>
    BY <1>2, <2>1, <2>3, <2>4, DeletionAssumption
  <2>6. x[1] = "datasets" => x = <<"datasets", ParentOf[v]>>
    BY <1>3, <2>1, <2>3, <2>4, DeletionAssumption
  <2>7. x[1] = "organizations" => x = <<"organizations", OrgOf(v)>>
    BY <1>3, <2>1, <2>3, <2>4, DeletionAssumption
  <2>8. x[1] = "users" => t \in Personal /\ x = <<"users", NamedUser(r)>>
    BY <1>4, <2>2, SupportNames
  <2>9. t \in Personal => t \in Reviewed
    BY DEF Personal, Stored, Reviewed
  <2>10. x[1] \notin {"organization_members", "auth_sessions"}
    BY <2>1, <2>2
       DEF Stored, Reviewed, Trunk, Trunk5, Trunk4, Trunk3, Trunk2, Trunk1, Trunk0
  <2> QED BY <2>1, <2>5, <2>6, <2>7, <2>8, <2>9, <2>10
<1> QED BY <1>4, <1>5, <1>7, <1>8, <1>9

\* The ledger of a workspace stands on its workspace at most, its security log on nothing.
LEMMA OrgRow ==
    ASSUME NEW o \in Orgs
    PROVE  /\ {<<"evidence_ledger", o>>, <<"security_audit_log", o>>, <<"organizations", o>>}
                  \subseteq AllRows
           /\ Support[<<"security_audit_log", o>>] = {<<"security_audit_log", o>>}
           /\ \A x \in Support[<<"evidence_ledger", o>>] :
                 /\ x[1] \notin {"dataset_versions", "datasets", "users", "organization_members",
                                 "auth_sessions"}
                 /\ x[1] = "organizations" => x = <<"organizations", o>>
<1>1. {"evidence_ledger", "security_audit_log", "organizations", "dataset_versions", "datasets"}
          \subseteq Tables
  BY TrunkDeclared DEF Trunk, Trunk5, Trunk4, Trunk3, Trunk2, Trunk1, Trunk0
<1>2. /\ TableHomes["evidence_ledger"] = Orgs /\ TableHomes["security_audit_log"] = Orgs
      /\ TableHomes["organizations"] = Orgs /\ TableHomes["dataset_versions"] = Versions
      /\ TableHomes["datasets"] = Datasets
  BY <1>1, HomesAre DEF UpToDataset, UpToProject, UpToOrg, UpToUser, Unowned
<1>3. {<<"evidence_ledger", o>>, <<"security_audit_log", o>>, <<"organizations", o>>} \subseteq AllRows
  BY <1>1, <1>2, RowsAre
<1>4. Support[<<"security_audit_log", o>>] = {<<"security_audit_log", o>>}
  <2> DEFINE s == <<"security_audit_log", o>>
  <2>1. Refs(Declared["security_audit_log"]) = {}
    BY <1>1, DeclaredShaped DEF Shape, Ordered, Unowned
  <2>2. s \in AllRows /\ s[1] = "security_audit_log"
    BY <1>3
  <2> HIDE DEF s
  <2>3. DependsOn(s) = {}
    BY <2>1, <2>2, DependsTyped
  <2>4. Support[s] = {s}
    BY <2>2, <2>3, SupportIs
  <2> QED BY <2>4 DEF s
<1>5. ASSUME NEW x \in Support[<<"evidence_ledger", o>>]
      PROVE  /\ x[1] \notin {"dataset_versions", "datasets", "users", "organization_members",
                             "auth_sessions"}
             /\ x[1] = "organizations" => x = <<"organizations", o>>
  <2> DEFINE e == <<"evidence_ledger", o>>
  <2>1. e \in AllRows /\ e[1] = "evidence_ledger" /\ e[2] = o
    BY <1>3
  <2>2. e[1] \notin Comparing /\ e[1] \notin Personal /\ e[1] \notin Trunk
    BY DEF Comparing, Personal, Reviewed, Trunk, Trunk5, Trunk4, Trunk3, Trunk2, Trunk1, Trunk0
  <2> HIDE DEF e
  <2>3. x \in AllRows /\ (x = e \/ x[1] \in Trunk) /\ x = <<x[1], x[2]>> /\ x[2] \in TableHomes[x[1]]
    BY <2>1, SupportGrows, RowsAre DEF e
  <2>4. x[2] \notin Users => x[2] \in Ancestors(o)
    BY <2>1, <2>2, SupportStaysHome DEF e
  <2>5. x[1] # "users"
    BY <2>1, <2>2, SupportNames DEF e
  <2>6. Ancestors(o) = {o}
    BY HomeFacts
  <2>7. x[1] \notin {"dataset_versions", "datasets"}
    BY <1>2, <2>3, <2>4, <2>6, DeletionAssumption
  <2>8. x[1] \notin {"organization_members", "auth_sessions"}
    BY <2>1, <2>3 DEF Trunk, Trunk5, Trunk4, Trunk3, Trunk2, Trunk1, Trunk0
  <2>9. x[1] = "organizations" => x = <<"organizations", o>>
    BY <1>2, <2>3, <2>4, <2>6, DeletionAssumption
  <2> QED BY <2>5, <2>7, <2>8, <2>9
<1> QED BY <1>3, <1>4, <1>5
-----------------------------------------------------------------------------
(* Deletion: the steps.                                                    *)

\* The row that names what is stored at a place.
LEMMA RowOfIs ==
    ASSUME NEW x \in Places
    PROVE  /\ x = <<x[1], x[2]>> /\ x[2] \in Versions
           /\ RowOf(x)[1] \in Stored /\ RowOf(x) = <<RowOf(x)[1], x[2]>>
           /\ x[1] = "version" <=> RowOf(x) = <<"dataset_versions", x[2]>>
           /\ x[1] = "audit"   <=> RowOf(x) = <<"audit_runs", x[2]>>
           /\ x[1] = "export"  <=> RowOf(x) = <<"exports", x[2]>>
           /\ x[1] = "report"  <=> RowOf(x) = <<"audit_reports", x[2]>>
BY DEF Places, RowOf, Stored

\* Rows: whatever a row stands on is there, and every version has its decisions and notes, every
\* workspace its ledger; the security log is never deleted.
RowsInv ==
    /\ present \subseteq AllRows
    /\ \A r \in present : Support[r] \subseteq present
    /\ \A v \in Versions, t \in Reviewed : Exists("dataset_versions", v) => Exists(t, v)
    /\ \A o \in Orgs : /\ Exists("organizations", o) => Exists("evidence_ledger", o)
                       /\ Exists("security_audit_log", o)

\* Objects: what a row names is there and no purge job will remove it; what no row names, one will.
ObjectsInv ==
    /\ objects \subseteq Places
    /\ \A prefixes \in scheduled : \A x \in prefixes : x \in Places /\ RowOf(x) \notin present
    /\ \A x \in Places : RowOf(x) \in present => x \in objects
    /\ \A x \in objects : RowOf(x) \in present \/ \E prefixes \in scheduled : x \in prefixes

DeletionInv == RowsInv /\ ObjectsInv

\* The rows a request deletes itself, which of them an account are known by.
LEMMA RowsStep ==
    ASSUME RowsInv, NEW Roots, DeleteRows(Roots),
           \A x \in Roots : x[1] \in {"dataset_versions", "datasets", "organizations", "users",
                                      "organization_members", "auth_sessions"},
           \A v \in Versions, t \in Reviewed :
               Exists(t, v) /\ <<"users", NamedUser(<<t, v>>)>> \in Roots =>
                   \E x \in Roots : x \in Support[<<t, v>>] /\ x[1] # "users"
    PROVE  RowsInv' /\ present' \subseteq present
<1> DEFINE Falls(r) == Support[r] \cap Roots # {}
<1>1. /\ present' \subseteq present
      /\ \A r \in present : r \in present' <=> ~Falls(r)
  <2>1. \A r \in present : Supports[r] = Support[r]
    BY SupportIs DEF RowsInv
  <2> QED BY <2>1 DEF DeleteRows, Falling
<1>2. \A r \in present' : Support[r] \subseteq present'
  <2> SUFFICES ASSUME NEW r \in present', NEW x \in Support[r] PROVE x \in present'
    OBVIOUS
  <2>1. x \in present /\ Support[x] \subseteq Support[r]
    BY <1>1, SupportGrows DEF RowsInv
  <2> QED BY <1>1, <2>1
<1>3. ASSUME NEW v \in Versions, NEW t \in Reviewed, <<"dataset_versions", v>> \in present'
      PROVE  <<t, v>> \in present'
  <2>1. <<t, v>> \in present /\ <<"dataset_versions", v>> \in present
    BY <1>1, <1>3 DEF RowsInv, Exists
  <2> SUFFICES ASSUME NEW y \in Support[<<t, v>>], y \in Roots PROVE FALSE
    BY <1>1, <2>1
  <2>2. /\ {<<"dataset_versions", v>>, <<"datasets", ParentOf[v]>>,
            <<"organizations", OrgOf(v)>>} \subseteq Support[<<"dataset_versions", v>>]
        /\ \A x \in Support[<<t, v>>] :
              /\ x[1] = "dataset_versions" => x = <<"dataset_versions", v>>
              /\ x[1] = "datasets" => x = <<"datasets", ParentOf[v]>>
              /\ x[1] = "organizations" => x = <<"organizations", OrgOf(v)>>
              /\ x[1] = "users" => x = <<"users", NamedUser(<<t, v>>)>>
              /\ x[1] \notin {"organization_members", "auth_sessions"}
    <3>1. t \in Stored \cup Reviewed /\ "dataset_versions" \in Stored \cup Reviewed
      BY DEF Stored
    <3>2. {<<"dataset_versions", v>>, <<"datasets", ParentOf[v]>>,
           <<"organizations", OrgOf(v)>>} \subseteq Support[<<"dataset_versions", v>>]
      BY <3>1, VersionRow
    <3>3. \A x \in Support[<<t, v>>] :
             /\ x[1] = "dataset_versions" => x = <<"dataset_versions", v>>
             /\ x[1] = "datasets" => x = <<"datasets", ParentOf[v]>>
             /\ x[1] = "organizations" => x = <<"organizations", OrgOf(v)>>
             /\ x[1] = "users" => x = <<"users", NamedUser(<<t, v>>)>>
             /\ x[1] \notin {"organization_members", "auth_sessions"}
      <4>1. \A x \in Support[<<t, v>>] :
                /\ x \in AllRows
                /\ x[1] = "dataset_versions" => x = <<"dataset_versions", v>>
                /\ x[1] = "datasets" => x = <<"datasets", ParentOf[v]>>
                /\ x[1] = "organizations" => x = <<"organizations", OrgOf(v)>>
                /\ x[1] = "users" => t \in Reviewed /\ x = <<"users", NamedUser(<<t, v>>)>>
                /\ x[1] \notin {"organization_members", "auth_sessions"}
        BY <3>1, VersionRow, Zenon
      <4> QED BY <4>1, Zenon
    <3> QED BY <3>2, <3>3
  <2>3. PICK x \in Roots : x \in Support[<<t, v>>] /\ x[1] # "users"
    <3>1. CASE y[1] = "users"
      BY <2>1, <2>2, <3>1 DEF Exists
    <3> QED BY <3>1
  <2>4. x \in Support[<<"dataset_versions", v>>]
    <3>1. x[1] \in {"dataset_versions", "datasets", "organizations"}
      BY <2>2, <2>3
    <3> QED BY <2>2, <2>3, <3>1
  <2> QED BY <1>1, <1>3, <2>1, <2>4
<1>4. ASSUME NEW o \in Orgs, <<"organizations", o>> \in present'
      PROVE  <<"evidence_ledger", o>> \in present'
  <2>1. <<"evidence_ledger", o>> \in present /\ <<"organizations", o>> \in present
    BY <1>1, <1>4 DEF RowsInv, Exists
  <2> SUFFICES ASSUME NEW x \in Support[<<"evidence_ledger", o>>], x \in Roots PROVE FALSE
    BY <1>1, <2>1
  <2>2. x = <<"organizations", o>>
    BY OrgRow
  <2>3. <<"organizations", o>> \in Support[<<"organizations", o>>]
    BY OrgRow, SupportGrows
  <2> QED BY <1>1, <1>4, <2>1, <2>2, <2>3
<1>5. ASSUME NEW o \in Orgs PROVE <<"security_audit_log", o>> \in present'
  <2>1. <<"security_audit_log", o>> \in present
    BY DEF RowsInv, Exists
  <2>2. <<"security_audit_log", o>> \notin Roots
    OBVIOUS
  <2>3. Support[<<"security_audit_log", o>>] = {<<"security_audit_log", o>>}
    BY OrgRow
  <2> QED BY <1>1, <2>1, <2>2, <2>3
<1> QED BY <1>1, <1>2, <1>3, <1>4, <1>5 DEF RowsInv, Exists

\* Jobs for exactly the places whose rows go keep objects and rows together.
LEMMA ObjectsStep ==
    ASSUME RowsInv, ObjectsInv, NEW Roots, DeleteRows(Roots), NEW Jobs,
           scheduled' = scheduled \cup Jobs, objects' = objects,
           \A prefixes \in Jobs : prefixes \subseteq Places,
           \A x \in Places : Support[RowOf(x)] \cap Roots # {} /\ RowOf(x) \in present =>
               \E prefixes \in Jobs : x \in prefixes,
           \A prefixes \in Jobs : \A x \in prefixes : Support[RowOf(x)] \cap Roots # {}
    PROVE  ObjectsInv'
<1>1. \A x \in Places : RowOf(x) \in present' <=>
          RowOf(x) \in present /\ Support[RowOf(x)] \cap Roots = {}
  <2>1. \A r \in present : Supports[r] = Support[r]
    BY SupportIs DEF RowsInv
  <2> QED BY <2>1 DEF DeleteRows, Falling
<1>2. objects' \subseteq Places
  BY DEF ObjectsInv
<1>3. \A prefixes \in scheduled' : \A x \in prefixes : x \in Places /\ RowOf(x) \notin present'
  BY <1>1 DEF ObjectsInv
<1>4. \A x \in Places : RowOf(x) \in present' => x \in objects'
  BY <1>1 DEF ObjectsInv
<1>5. \A x \in objects' : RowOf(x) \in present' \/ \E prefixes \in scheduled' : x \in prefixes
  BY <1>1 DEF ObjectsInv
<1>6. \A x : RowOf(x)' = RowOf(x)
  BY DEF RowOf
<1> QED BY <1>2, <1>3, <1>4, <1>5, <1>6 DEF ObjectsInv, Places

\* What a place's row stands on.
LEMMA PlaceStandsOn ==
    ASSUME NEW x \in Places
    PROVE  /\ \A v : <<"dataset_versions", v>> \in Support[RowOf(x)] <=> v = x[2]
           /\ \A d : <<"datasets", d>> \in Support[RowOf(x)] <=> d = ParentOf[x[2]]
           /\ \A o : <<"organizations", o>> \in Support[RowOf(x)] <=> o = OrgOf(x[2])
           /\ \A h : \A t \in {"users", "organization_members", "auth_sessions"} :
                  <<t, h>> \notin Support[RowOf(x)]
           /\ RowOf(x) \in AllRows
           /\ x[1] = "report" => <<"audit_runs", x[2]>> \in Support[RowOf(x)]
<1>1. x[2] \in Versions /\ RowOf(x)[1] \in Stored /\ RowOf(x) = <<RowOf(x)[1], x[2]>>
      /\ (x[1] = "report" => RowOf(x)[1] = "audit_reports")
  BY RowOfIs
<1>2. RowOf(x)[1] \notin Reviewed
  BY <1>1 DEF Stored, Reviewed
<1> DEFINE t == RowOf(x)[1]
           v == x[2]
<1>3. v \in Versions /\ t \in Stored \cup Reviewed /\ RowOf(x) = <<t, v>>
  BY <1>1
<1> HIDE DEF t, v
<1>4. /\ <<t, v>> \in AllRows
      /\ {<<"dataset_versions", v>>, <<"datasets", ParentOf[v]>>,
               <<"organizations", OrgOf(v)>>} \subseteq Support[<<t, v>>]
      /\ t = "audit_reports" => <<"audit_runs", v>> \in Support[<<t, v>>]
      /\ \A y \in Support[<<t, v>>] :
                 /\ y[1] = "dataset_versions" => y = <<"dataset_versions", v>>
                 /\ y[1] = "datasets" => y = <<"datasets", ParentOf[v]>>
                 /\ y[1] = "organizations" => y = <<"organizations", OrgOf(v)>>
                 /\ y[1] = "users" => t \in Reviewed
                 /\ y[1] \notin {"organization_members", "auth_sessions"}
  BY <1>3, VersionRow
<1>5. /\ \A w : <<"dataset_versions", w>> \in Support[<<t, v>>] <=> w = v
      /\ \A d : <<"datasets", d>> \in Support[<<t, v>>] <=> d = ParentOf[v]
      /\ \A o : <<"organizations", o>> \in Support[<<t, v>>] <=> o = OrgOf(v)
      /\ \A h : \A s \in {"users", "organization_members", "auth_sessions"} :
             <<s, h>> \notin Support[<<t, v>>]
  <2>1. \A w : <<"dataset_versions", w>> \in Support[<<t, v>>] <=> w = v
    BY <1>4
  <2>2. \A d : <<"datasets", d>> \in Support[<<t, v>>] <=> d = ParentOf[v]
    BY <1>4
  <2>3. \A o : <<"organizations", o>> \in Support[<<t, v>>] <=> o = OrgOf(v)
    BY <1>4
  <2>4. \A h : \A s \in {"users", "organization_members", "auth_sessions"} :
             <<s, h>> \notin Support[<<t, v>>]
    BY <1>2, <1>4 DEF t
  <2> QED BY <2>1, <2>2, <2>3, <2>4
<1> QED BY <1>1, <1>3, <1>4, <1>5 DEF t, v
-----------------------------------------------------------------------------

\* A request that deletes versions, datasets or workspaces only.
LEMMA PlainStep ==
    ASSUME RowsInv, NEW Roots, DeleteRows(Roots),
           \A x \in Roots : x[1] \in {"dataset_versions", "datasets", "organizations"}
    PROVE  RowsInv' /\ present' \subseteq present
<1>1. \A v \in Versions, t \in Reviewed : <<"users", NamedUser(<<t, v>>)>> \notin Roots
  OBVIOUS
<1> QED BY <1>1, RowsStep

\* The places of a version that have something to purge.
Under(x, v) ==
    \/ x = <<"version", v>>
    \/ x = <<"audit", v>> /\ <<"audit_runs", v>> \in present
    \/ x = <<"export", v>> /\ <<"exports", v>> \in present
    \/ /\ x = <<"report", v>> /\ <<"audit_runs", v>> \in present
       /\ <<"audit_reports", v>> \in present

LEMMA VersionPrefixesAre ==
    ASSUME NEW vs
    PROVE  \A x : x \in VersionPrefixes(vs) <=> \E v \in vs : Under(x, v)
<1> DEFINE audits  == {<<"audit", v>> : v \in {w \in vs : Exists("audit_runs", w)}}
           exported == {<<"export", v>> : v \in {w \in vs : Exists("exports", w)}}
           reports == {<<"report", v>> : v \in {w \in vs : Exists("audit_runs", w)
                                                            /\ Exists("audit_reports", w)}}
<1>1. \A x : x \in {"version"} \X vs <=> \E v \in vs : x = <<"version", v>>
  OBVIOUS
<1>2. \A x : x \in audits <=> \E v \in vs : x = <<"audit", v>> /\ <<"audit_runs", v>> \in present
  BY DEF Exists
<1>3. \A x : x \in exported <=> \E v \in vs : x = <<"export", v>> /\ <<"exports", v>> \in present
  BY DEF Exists
<1>4. \A x : x \in reports <=>
          \E v \in vs : /\ x = <<"report", v>> /\ <<"audit_runs", v>> \in present
                        /\ <<"audit_reports", v>> \in present
  BY DEF Exists
<1>5. VersionPrefixes(vs) = ({"version"} \X vs) \cup audits \cup exported \cup reports
  BY DEF VersionPrefixes
<1> HIDE DEF audits, exported, reports
<1> QED BY <1>1, <1>2, <1>3, <1>4, <1>5, Zenon DEF Under

LEMMA DeleteVersionStep ==
    ASSUME DeletionInv, NEW v \in Versions, DeleteVersion(v)
    PROVE  DeletionInv'
<1> DEFINE Roots == {<<"dataset_versions", v>>}
           Jobs == {VersionPrefixes({v})}
<1> USE DEF DeletionInv
<1>1. RowsInv'
  BY PlainStep DEF DeleteVersion
<1>2. \A x : x \in VersionPrefixes({v}) <=>
          \/ x = <<"version", v>>
          \/ x = <<"audit", v>> /\ <<"audit_runs", v>> \in present
          \/ x = <<"export", v>> /\ <<"exports", v>> \in present
          \/ /\ x = <<"report", v>>
             /\ <<"audit_runs", v>> \in present /\ <<"audit_reports", v>> \in present
  <2>1. \A x : x \in VersionPrefixes({v}) <=> \E w \in {v} : Under(x, w)
    BY VersionPrefixesAre
  <2>2. \A x : x \in VersionPrefixes({v}) <=> Under(x, v)
    BY <2>1
  <2> QED BY <2>2 DEF Under
<1>3. \A prefixes \in Jobs : prefixes \subseteq Places
  BY <1>2 DEF Places
<1>4. ASSUME NEW x \in Places, Support[RowOf(x)] \cap Roots # {}, RowOf(x) \in present
      PROVE  x \in VersionPrefixes({v})
  <2>1. x[2] = v /\ x = <<x[1], v>> /\ x[1] \in {"version", "audit", "export", "report"}
    <3>1. x[2] = v
      <4>1. <<"dataset_versions", v>> \in Support[RowOf(x)]
        BY <1>4
      <4> QED BY <4>1, PlaceStandsOn, Zenon
    <3> QED BY <3>1 DEF Places
  <2>2. x[1] = "report" => <<"audit_runs", v>> \in present
    BY <1>4, <2>1, PlaceStandsOn DEF RowsInv
  <2>3. CASE x[1] = "version"
    BY <1>2, <2>1, <2>3
  <2>4. CASE x[1] = "audit"
    BY <1>2, <1>4, <2>1, <2>4, RowOfIs
  <2>5. CASE x[1] = "export"
    BY <1>2, <1>4, <2>1, <2>5, RowOfIs
  <2>6. CASE x[1] = "report"
    BY <1>2, <1>4, <2>1, <2>2, <2>6, RowOfIs
  <2> QED BY <2>1, <2>3, <2>4, <2>5, <2>6
<1>5. ASSUME NEW x \in VersionPrefixes({v}) PROVE Support[RowOf(x)] \cap Roots # {}
  <2>1. x \in Places /\ x[2] = v
    BY <1>2 DEF Places
  <2> QED BY <2>1, PlaceStandsOn
<1>6. DeleteRows(Roots) /\ scheduled' = scheduled \cup Jobs /\ objects' = objects
  BY DEF DeleteVersion
<1>7. /\ \A x \in Places : Support[RowOf(x)] \cap Roots # {} /\ RowOf(x) \in present =>
            \E prefixes \in Jobs : x \in prefixes
      /\ \A prefixes \in Jobs : \A x \in prefixes : Support[RowOf(x)] \cap Roots # {}
  <2> HIDE DEF Roots
  <2> QED BY <1>4, <1>5
<1> HIDE DEF Roots, Jobs
<1>8. ObjectsInv'
  BY <1>3, <1>6, <1>7, ObjectsStep
<1> QED BY <1>1, <1>8

LEMMA DeleteDatasetStep ==
    ASSUME DeletionInv, NEW d \in Datasets, DeleteDataset(d)
    PROVE  DeletionInv'
<1> DEFINE Roots == {<<"datasets", d>>}
           vs == {v \in Versions : ParentOf[v] = d /\ Exists("dataset_versions", v)}
           prefs == DatasetPrefix(d) \cup {x \in VersionPrefixes(vs) : x[1] # "version"}
           Jobs == {prefs}
<1> USE DEF DeletionInv
<1>1. RowsInv'
  BY PlainStep DEF DeleteDataset
<1>2. \A x : x \in prefs <=> \/ x[1] = "version" /\ x \in Places /\ ParentOf[x[2]] = d
                             \/ x[1] # "version" /\ \E v \in vs : Under(x, v)
  <2> HIDE DEF vs
  <2>1. \A x : x \in DatasetPrefix(d) <=> x[1] = "version" /\ x \in Places /\ ParentOf[x[2]] = d
    BY DEF DatasetPrefix, Places
  <2>2. \A x : x \in VersionPrefixes(vs) <=> \E v \in vs : Under(x, v)
    BY VersionPrefixesAre
  <2>3. \A x : x \in prefs <=> x \in DatasetPrefix(d) \/ (x \in VersionPrefixes(vs) /\ x[1] # "version")
    OBVIOUS
  <2> HIDE DEF prefs
  <2> QED BY <2>1, <2>2, <2>3
<1>3. \A prefixes \in Jobs : prefixes \subseteq Places
  <2>1. vs \subseteq Versions OBVIOUS
  <2> HIDE DEF vs, prefs
  <2>2. ASSUME NEW x \in prefs PROVE x \in Places
    <3>1. CASE x \in Places
      BY <3>1
    <3>2. CASE \E v \in vs : x \in {<<"audit", v>>, <<"export", v>>, <<"report", v>>}
      BY <2>1, <3>2 DEF Places
    <3> QED BY <1>2, <2>2, <3>1, <3>2 DEF Under
  <2> QED BY <2>2
<1>4. ASSUME NEW x \in Places, Support[RowOf(x)] \cap Roots # {}, RowOf(x) \in present
      PROVE  x \in prefs
  <2>1. x = <<x[1], x[2]>> /\ x[1] \in {"version", "audit", "export", "report"}
    <3>1. x[1] \in {"version", "audit", "export", "report"} BY DEF Places
    <3>2. x = <<x[1], x[2]>> BY DEF Places
    <3> QED BY <3>1, <3>2
  <2>2. x[2] \in Versions /\ ParentOf[x[2]] = d
    <3>1. <<"datasets", d>> \in Support[RowOf(x)] BY <1>4
    <3>2. ParentOf[x[2]] = d BY <3>1, PlaceStandsOn, Zenon
    <3> QED BY <3>2, RowOfIs
  <2>3. x[2] \in vs
    BY <1>4, <2>2, PlaceStandsOn DEF RowsInv, Exists
  <2>4. x[1] = "report" => <<"audit_runs", x[2]>> \in present
    BY <1>4, PlaceStandsOn DEF RowsInv
  <2> HIDE DEF vs, prefs
  <2>5. CASE x[1] = "version"
    BY <1>2, <2>2, <2>5
  <2>6. CASE x[1] = "audit"
    <3>1. <<"audit_runs", x[2]>> \in present BY <1>4, <2>6, RowOfIs
    <3> QED BY <1>2, <2>1, <2>3, <2>6, <3>1 DEF Under
  <2>7. CASE x[1] = "export"
    <3>1. <<"exports", x[2]>> \in present BY <1>4, <2>7, RowOfIs
    <3> QED BY <1>2, <2>1, <2>3, <2>7, <3>1 DEF Under
  <2>8. CASE x[1] = "report"
    <3>1. <<"audit_reports", x[2]>> \in present BY <1>4, <2>8, RowOfIs
    <3> QED BY <1>2, <2>1, <2>3, <2>4, <2>8, <3>1 DEF Under
  <2> QED BY <2>1, <2>5, <2>6, <2>7, <2>8
<1>5. ASSUME NEW x \in prefs PROVE Support[RowOf(x)] \cap Roots # {}
  <2>1. x \in Places
    BY <1>3
  <2>2. ParentOf[x[2]] = d
    <3>1. \A v \in vs : ParentOf[v] = d OBVIOUS
    <3> HIDE DEF vs, prefs
    <3>2. ParentOf[x[2]] = d \/ \E v \in vs : x \in {<<"audit", v>>, <<"export", v>>, <<"report", v>>}
      BY <1>2, <1>5 DEF Under
    <3> QED BY <3>1, <3>2
  <2> QED BY <2>1, <2>2, PlaceStandsOn
<1>6. DeleteRows(Roots) /\ scheduled' = scheduled \cup Jobs /\ objects' = objects
  BY DEF DeleteDataset
<1>7. /\ \A x \in Places : Support[RowOf(x)] \cap Roots # {} /\ RowOf(x) \in present =>
            \E prefixes \in Jobs : x \in prefixes
      /\ \A prefixes \in Jobs : \A x \in prefixes : Support[RowOf(x)] \cap Roots # {}
  <2> HIDE DEF Roots, prefs
  <2> QED BY <1>4, <1>5
<1> HIDE DEF Roots, Jobs
<1>8. ObjectsInv'
  BY <1>3, <1>6, <1>7, ObjectsStep
<1> QED BY <1>1, <1>8

\* The directory of a workspace covers what its rows name.
LEMMA OrgPrefixIs ==
    ASSUME NEW o
    PROVE  /\ OrgPrefix(o) \subseteq Places
           /\ \A x \in Places : x \in OrgPrefix(o) <=> <<"organizations", o>> \in Support[RowOf(x)]
<1>1. \A x : x \in OrgPrefix(o) <=> x \in Places /\ OrgOf(x[2]) = o
  BY DEF OrgPrefix, Places
<1> QED BY <1>1, PlaceStandsOn

LEMMA DeleteOrgStep ==
    ASSUME DeletionInv, NEW o \in Orgs, DeleteOrg(o)
    PROVE  DeletionInv'
<1> DEFINE Roots == {<<"organizations", o>>}
           Jobs == {OrgPrefix(o)}
<1> USE DEF DeletionInv
<1>1. RowsInv'
  BY PlainStep DEF DeleteOrg
<1>2. DeleteRows(Roots) /\ scheduled' = scheduled \cup Jobs /\ objects' = objects
  BY DEF DeleteOrg
<1>3. \A x \in Places : Support[RowOf(x)] \cap Roots # {} => \E prefixes \in Jobs : x \in prefixes
  BY OrgPrefixIs
<1>4. \A prefixes \in Jobs : /\ prefixes \subseteq Places
                             /\ \A x \in prefixes : Support[RowOf(x)] \cap Roots # {}
  BY OrgPrefixIs
<1> HIDE DEF Roots, Jobs
<1>5. ObjectsInv'
  BY <1>2, <1>3, <1>4, ObjectsStep
<1> QED BY <1>1, <1>5

\* What an account takes along: its own workspaces, its memberships and sessions, or itself.
LEMMA DeleteAccountStep ==
    ASSUME DeletionInv, NEW u \in Users, DeleteAccount(u)
    PROVE  DeletionInv'
<1> DEFINE owned == {<<"organizations", o>> : o \in SoleOwned(u)}
           Jobs == {OrgPrefix(o) : o \in SoleOwned(u)}
<1> USE DEF DeletionInv
<1>1. scheduled' = scheduled \cup Jobs /\ objects' = objects
  BY DEF DeleteAccount
<1>2. PICK more : /\ DeleteRows(owned \cup more)
                  /\ \/ more = AccountRows(u)
                     \/ more = {<<"users", u>>} /\ ~Authored(u, present \ Falling(owned))
  BY DEF DeleteAccount
<1>3. \A x \in more : /\ x[1] \in {"users", "organization_members", "auth_sessions"}
                      /\ x = <<x[1], x[2]>>
  BY <1>2 DEF AccountRows
<1> DEFINE Roots == owned \cup more
<1>4. RowsInv'
  <2>1. \A x \in Roots : x[1] \in {"dataset_versions", "datasets", "organizations", "users",
                                   "organization_members", "auth_sessions"}
    BY <1>3
  <2>2. ASSUME NEW v \in Versions, NEW t \in Reviewed, Exists(t, v),
               <<"users", NamedUser(<<t, v>>)>> \in Roots
        PROVE  \E x \in Roots : x \in Support[<<t, v>>] /\ x[1] # "users"
    <3>1. NamedUser(<<t, v>>) = u /\ more = {<<"users", u>>}
      BY <1>2, <2>2 DEF AccountRows
    <3>2. ~Authored(u, present \ Falling(owned))
      <4>1. <<"auth_sessions", u>> \notin more
        BY <3>1
      <4> QED BY <1>2, <4>1 DEF AccountRows
    <3>3. <<t, v>> \in present /\ Supports[<<t, v>>] = Support[<<t, v>>]
      BY <2>2, SupportIs DEF RowsInv, Exists
    <3>4. <<t, v>> \in Falling(owned)
      BY <3>1, <3>2, <3>3 DEF Authored, Reviewed
    <3>5. PICK x \in owned : x \in Support[<<t, v>>]
      BY <3>3, <3>4 DEF Falling
    <3> QED BY <3>5
  <2>3. DeleteRows(Roots)
    BY <1>2
  <2> HIDE DEF Roots
  <2> QED BY <2>1, <2>2, <2>3, RowsStep
<1>5. ASSUME NEW x \in Places, NEW y \in Roots, y \in Support[RowOf(x)]
      PROVE  \E prefixes \in Jobs : x \in prefixes
  <2>1. y \notin more
    <3>1. \A h : \A t \in {"users", "organization_members", "auth_sessions"} :
              <<t, h>> \notin Support[RowOf(x)]
      BY PlaceStandsOn
    <3> HIDE DEF owned, Jobs
    <3>2. SUFFICES ASSUME y \in more PROVE FALSE
      OBVIOUS
    <3>3. y[1] \in {"users", "organization_members", "auth_sessions"} /\ y = <<y[1], y[2]>>
      BY <1>3, <3>2
    <3> QED BY <1>5, <3>1, <3>3
  <2>2. PICK o \in SoleOwned(u) : y = <<"organizations", o>>
    BY <2>1
  <2> QED BY <1>5, <2>2, OrgPrefixIs
<1>6. ASSUME NEW prefixes \in Jobs
      PROVE  /\ prefixes \subseteq Places
             /\ \A x \in prefixes : Support[RowOf(x)] \cap Roots # {}
  <2>1. PICK o \in SoleOwned(u) : prefixes = OrgPrefix(o)
    OBVIOUS
  <2>2. prefixes \subseteq Places
    BY <2>1, OrgPrefixIs
  <2>3. <<"organizations", o>> \in Roots
    OBVIOUS
  <2> QED BY <2>1, <2>2, <2>3, OrgPrefixIs
<1>7. DeleteRows(Roots)
  BY <1>2
<1> HIDE DEF Roots, Jobs
<1>8. ObjectsInv'
  BY <1>1, <1>5, <1>6, <1>7, ObjectsStep
<1> QED BY <1>4, <1>8

LEMMA RunPurgeStep ==
    ASSUME DeletionInv, NEW prefixes \in scheduled, RunPurge(prefixes)
    PROVE  DeletionInv'
<1> USE DEF DeletionInv
<1>1. present' = present /\ objects' = objects \ prefixes /\ scheduled' = scheduled \ {prefixes}
  BY DEF RunPurge
<1>2. RowsInv'
  BY <1>1 DEF RowsInv, Exists
<1>3. ASSUME NEW x \in objects', RowOf(x) \notin present
      PROVE  \E jobs \in scheduled' : x \in jobs
  <2>1. x \in objects /\ x \notin prefixes
    BY <1>1, <1>3
  <2>2. PICK jobs \in scheduled : x \in jobs
    BY <1>3, <2>1 DEF ObjectsInv
  <2> QED BY <1>1, <2>1, <2>2
<1>4. \A x \in Places : RowOf(x) \in present => x \in objects'
  BY <1>1 DEF ObjectsInv
<1>5. \A jobs \in scheduled' : \A x \in jobs : x \in Places /\ RowOf(x) \notin present
  BY <1>1 DEF ObjectsInv
<1>6. objects' \subseteq Places
  BY <1>1 DEF ObjectsInv
<1>7. \A x : RowOf(x)' = RowOf(x)
  BY DEF RowOf
<1> QED BY <1>1, <1>2, <1>3, <1>4, <1>5, <1>6, <1>7 DEF ObjectsInv, Places

LEMMA DeletionInvInit == DeletionInit => DeletionInv
<1> SUFFICES ASSUME DeletionInit PROVE DeletionInv
  OBVIOUS
<1>1. present = AllRows /\ objects = Places /\ scheduled = {}
  BY DEF DeletionInit, Places
<1>2. \A r \in present : Support[r] \subseteq present
  BY <1>1, SupportGrows
<1>3. \A v \in Versions, t \in Reviewed : <<t, v>> \in AllRows
  BY VersionRow
<1>4. \A o \in Orgs : <<"evidence_ledger", o>> \in AllRows /\ <<"security_audit_log", o>> \in AllRows
  BY OrgRow
<1>5. \A x \in Places : RowOf(x) \in AllRows
  BY PlaceStandsOn
<1> QED BY <1>1, <1>2, <1>3, <1>4, <1>5 DEF DeletionInv, RowsInv, ObjectsInv, Exists

LEMMA DeletionAlways == DeletionSpec => []DeletionInv
<1>1. ASSUME DeletionInv, [DeletionNext]_deletionVars PROVE DeletionInv'
  <2>1. CASE \E v \in Versions : DeleteVersion(v)
    BY <1>1, <2>1, DeleteVersionStep
  <2>2. CASE \E d \in Datasets : DeleteDataset(d)
    BY <1>1, <2>2, DeleteDatasetStep
  <2>3. CASE \E o \in Orgs : DeleteOrg(o)
    BY <1>1, <2>3, DeleteOrgStep
  <2>4. CASE \E u \in Users : DeleteAccount(u)
    BY <1>1, <2>4, DeleteAccountStep
  <2>5. CASE \E prefixes \in scheduled : RunPurge(prefixes)
    BY <1>1, <2>5, RunPurgeStep
  <2>6. CASE UNCHANGED deletionVars
    BY <1>1, <2>6 DEF deletionVars, DeletionInv, RowsInv, ObjectsInv, Exists, RowOf, Places
  <2> QED BY <1>1, <2>1, <2>2, <2>3, <2>4, <2>5, <2>6 DEF DeletionNext
<1> QED BY <1>1, DeletionInvInit, PTL DEF DeletionSpec

\* SurvivorsWhole, for every set of versions, datasets, projects, workspaces and users.
THEOREM SurvivorsStayWhole == DeletionSpec => []SurvivorsWhole
<1>1. DeletionInv => SurvivorsWhole
  <2> SUFFICES ASSUME DeletionInv PROVE SurvivorsWhole
    OBVIOUS
  <2>1. \A r \in present, x \in Places : r = RowOf(x) => x \in objects
    BY DEF DeletionInv, ObjectsInv
  <2> QED BY <2>1 DEF DeletionInv, RowsInv, SurvivorsWhole, Places, Reviewed
<1> QED BY <1>1, DeletionAlways, PTL

\* NothingOrphaned, likewise: whatever was deleted, in whatever order, and whichever purge jobs ran.
THEOREM NothingIsOrphaned == DeletionSpec => []NothingOrphaned
<1>1. DeletionInv => NothingOrphaned
  <2> SUFFICES ASSUME DeletionInv PROVE NothingOrphaned
    OBVIOUS
  <2>1. ASSUME NEW r \in present, r[2] \notin Users /\ r[1] # "security_audit_log"
        PROVE  Exists("organizations", OrgOf(r[2]))
    BY <2>1, SupportReaches DEF DeletionInv, RowsInv, Exists
  <2> QED BY <2>1 DEF DeletionInv, ObjectsInv, NothingOrphaned
<1> QED BY <1>1, DeletionAlways, PTL

\* OtherVersionsUntouched: deleting a version takes rows of that version only, and comparisons.
THEOREM OtherVersionsStay == DeletionSpec => OtherVersionsUntouched
<1> DEFINE A == \A v \in Versions : DeleteVersion(v) =>
        \A r \in present \ present' :
            r[2] = v \/ r[1] \in {"dataset_version_diffs", "contamination_checks"}
<1>1. DeletionInv => A
  <2> SUFFICES ASSUME DeletionInv, NEW v \in Versions, DeleteVersion(v), NEW r \in present \ present',
                      r[1] \notin Comparing
               PROVE  r[2] = v
    BY DEF Comparing
  <2>1. r \in AllRows /\ Supports[r] = Support[r]
    BY SupportIs DEF DeletionInv, RowsInv
  <2>2. <<"dataset_versions", v>> \in Support[r]
    BY <2>1 DEF DeleteVersion, DeleteRows, Falling
  <2>3. v \in Ancestors(r[2])
    BY <2>1, <2>2, SupportStaysHome, DeletionAssumption
  <2>4. r[2] \in Homes
    BY <2>1, RowsAre, HomesTyped
  <2> QED BY <2>3, <2>4, Lineage
<1>2. DeletionInv => [A]_deletionVars
  BY <1>1
<1>3. OtherVersionsUntouched <=> [][A]_deletionVars
  BY PTL DEF OtherVersionsUntouched
<1> QED BY <1>2, <1>3, DeletionAlways, PTL

-----------------------------------------------------------------------------
(* The schema of revision 0001 and the order of its tables.                *)

\* Where a table stands in the order of creation.
Rank == [
    algorithm_versions |-> 1, organizations |-> 2, system_model_versions |-> 3, users |-> 4,
    api_tokens |-> 5, auth_sessions |-> 6, jobs |-> 7, organization_members |-> 8, projects |-> 9,
    security_audit_log |-> 10, audit_configs |-> 11, data_contracts |-> 12, datasets |-> 13,
    job_events |-> 14, dataset_versions |-> 15, audit_runs |-> 16, classes |-> 17,
    contamination_checks |-> 18, dataset_files |-> 19, dataset_version_diffs |-> 20,
    evidence_ledger |-> 21, splits |-> 22, audit_pipeline_steps |-> 23, audit_reports |-> 24,
    contract_evaluations |-> 25, coverage_clusters |-> 26, coverage_gaps |-> 27,
    dataset_debt_snapshots |-> 28, dataset_dna_profiles |-> 29, embeddings_metadata |-> 30,
    exports |-> 31, preflight_results |-> 32, review_sessions |-> 33, samples |-> 34,
    shortcut_findings |-> 35, split_integrity_metrics |-> 36, collection_tasks |-> 37,
    duplicate_families |-> 38, failure_events |-> 39, influence_findings |-> 40,
    label_findings |-> 41, privacy_findings |-> 42, quality_findings |-> 43,
    rare_wrong_findings |-> 44, review_budget_runs |-> 45, sample_quality_metrics |-> 46,
    training_dynamics |-> 47, court_cases |-> 48, duplicate_family_members |-> 49,
    failure_data_links |-> 50, leakage_findings |-> 51, similarity_edges |-> 52,
    what_if_runs |-> 53, baseline_model_runs |-> 54, case_evidence |-> 55,
    case_explanations |-> 56, case_verdicts |-> 57, human_decisions |-> 58,
    review_queue_items |-> 59, reviewer_notes |-> 60, what_if_actions |-> 61,
    what_if_results |-> 62, model_predictions |-> 63]

\* The tables of revision 0001: those of the models but for the CHECK of jobs.type.
FirstJobs == Table({}, {<<"org_id", "organizations">>}, {}, {{"idempotency_key"}},
                   {<<"job_type", JobTypesV1>>, <<"job_status", RunStatus>>})
FirstJobTables == [jobs |-> FirstJobs, job_events |-> JobTables.job_events]
First == [t \in DOMAIN Declared |-> IF t = "jobs" THEN FirstJobs ELSE Declared[t]]

\* A schema has the tables of a group, as the group declares them.
Covers(schema, group) == \A t \in DOMAIN group : t \in DOMAIN schema /\ schema[t] = group[t]

LEMMA MergedCovers ==
    ASSUME NEW some, NEW others, NEW group
    PROVE  /\ Covers(some, group) => Covers(Merged(some, others), group)
           /\ Covers(others, group) /\ (\A t \in DOMAIN group : t \notin DOMAIN some)
                => Covers(Merged(some, others), group)
BY DEF Covers, Merged

\* No table is in two groups.
LEMMA GroupsDisjoint ==
    /\ \A t \in DOMAIN DatasetTables :
          /\ t \notin DOMAIN IdentityTables
    /\ \A t \in DOMAIN AuditTables :
          /\ t \notin DOMAIN IdentityTables
          /\ t \notin DOMAIN DatasetTables
    /\ \A t \in DOMAIN ModelTables :
          /\ t \notin DOMAIN IdentityTables
          /\ t \notin DOMAIN DatasetTables
          /\ t \notin DOMAIN AuditTables
    /\ \A t \in DOMAIN FindingTables :
          /\ t \notin DOMAIN IdentityTables
          /\ t \notin DOMAIN DatasetTables
          /\ t \notin DOMAIN AuditTables
          /\ t \notin DOMAIN ModelTables
    /\ \A t \in DOMAIN CourtTables :
          /\ t \notin DOMAIN IdentityTables
          /\ t \notin DOMAIN DatasetTables
          /\ t \notin DOMAIN AuditTables
          /\ t \notin DOMAIN ModelTables
          /\ t \notin DOMAIN FindingTables
    /\ \A t \in DOMAIN ReviewTables :
          /\ t \notin DOMAIN IdentityTables
          /\ t \notin DOMAIN DatasetTables
          /\ t \notin DOMAIN AuditTables
          /\ t \notin DOMAIN ModelTables
          /\ t \notin DOMAIN FindingTables
          /\ t \notin DOMAIN CourtTables
    /\ \A t \in DOMAIN WhatIfTables :
          /\ t \notin DOMAIN IdentityTables
          /\ t \notin DOMAIN DatasetTables
          /\ t \notin DOMAIN AuditTables
          /\ t \notin DOMAIN ModelTables
          /\ t \notin DOMAIN FindingTables
          /\ t \notin DOMAIN CourtTables
          /\ t \notin DOMAIN ReviewTables
    /\ \A t \in DOMAIN GovernanceTables :
          /\ t \notin DOMAIN IdentityTables
          /\ t \notin DOMAIN DatasetTables
          /\ t \notin DOMAIN AuditTables
          /\ t \notin DOMAIN ModelTables
          /\ t \notin DOMAIN FindingTables
          /\ t \notin DOMAIN CourtTables
          /\ t \notin DOMAIN ReviewTables
          /\ t \notin DOMAIN WhatIfTables
    /\ \A t \in DOMAIN JobTables :
          /\ t \notin DOMAIN IdentityTables
          /\ t \notin DOMAIN DatasetTables
          /\ t \notin DOMAIN AuditTables
          /\ t \notin DOMAIN ModelTables
          /\ t \notin DOMAIN FindingTables
          /\ t \notin DOMAIN CourtTables
          /\ t \notin DOMAIN ReviewTables
          /\ t \notin DOMAIN WhatIfTables
          /\ t \notin DOMAIN GovernanceTables
<1>1. ASSUME NEW t \in DOMAIN DatasetTables
      PROVE  t \notin DOMAIN IdentityTables
  BY DEF IdentityTables, DatasetTables
<1>2. ASSUME NEW t \in DOMAIN AuditTables
      PROVE  t \notin DOMAIN IdentityTables /\ t \notin DOMAIN DatasetTables
  BY DEF IdentityTables, DatasetTables, AuditTables
<1>3. ASSUME NEW t \in DOMAIN ModelTables
      PROVE  t \notin DOMAIN IdentityTables /\ t \notin DOMAIN DatasetTables
             /\ t \notin DOMAIN AuditTables
  BY DEF IdentityTables, DatasetTables, AuditTables, ModelTables
<1>4. ASSUME NEW t \in DOMAIN FindingTables
      PROVE  t \notin DOMAIN IdentityTables /\ t \notin DOMAIN DatasetTables
             /\ t \notin DOMAIN AuditTables /\ t \notin DOMAIN ModelTables
  BY DEF IdentityTables, DatasetTables, AuditTables, ModelTables, FindingTables
<1>5. ASSUME NEW t \in DOMAIN CourtTables
      PROVE  t \notin DOMAIN IdentityTables /\ t \notin DOMAIN DatasetTables
             /\ t \notin DOMAIN AuditTables /\ t \notin DOMAIN ModelTables
             /\ t \notin DOMAIN FindingTables
  BY DEF IdentityTables, DatasetTables, AuditTables, ModelTables, FindingTables, CourtTables
<1>6. ASSUME NEW t \in DOMAIN ReviewTables
      PROVE  t \notin DOMAIN IdentityTables /\ t \notin DOMAIN DatasetTables
             /\ t \notin DOMAIN AuditTables /\ t \notin DOMAIN ModelTables
             /\ t \notin DOMAIN FindingTables /\ t \notin DOMAIN CourtTables
  BY DEF IdentityTables, DatasetTables, AuditTables, ModelTables, FindingTables, CourtTables,
         ReviewTables
<1>7. ASSUME NEW t \in DOMAIN WhatIfTables
      PROVE  t \notin DOMAIN IdentityTables /\ t \notin DOMAIN DatasetTables
             /\ t \notin DOMAIN AuditTables /\ t \notin DOMAIN ModelTables
             /\ t \notin DOMAIN FindingTables /\ t \notin DOMAIN CourtTables
             /\ t \notin DOMAIN ReviewTables
  BY DEF IdentityTables, DatasetTables, AuditTables, ModelTables, FindingTables, CourtTables,
         ReviewTables, WhatIfTables
<1>8. ASSUME NEW t \in DOMAIN GovernanceTables
      PROVE  t \notin DOMAIN IdentityTables /\ t \notin DOMAIN DatasetTables
             /\ t \notin DOMAIN AuditTables /\ t \notin DOMAIN ModelTables
             /\ t \notin DOMAIN FindingTables /\ t \notin DOMAIN CourtTables
             /\ t \notin DOMAIN ReviewTables /\ t \notin DOMAIN WhatIfTables
  BY DEF IdentityTables, DatasetTables, AuditTables, ModelTables, FindingTables, CourtTables,
         ReviewTables, WhatIfTables, GovernanceTables
<1>9. ASSUME NEW t \in DOMAIN JobTables
      PROVE  t \notin DOMAIN IdentityTables /\ t \notin DOMAIN DatasetTables
             /\ t \notin DOMAIN AuditTables /\ t \notin DOMAIN ModelTables
             /\ t \notin DOMAIN FindingTables /\ t \notin DOMAIN CourtTables
             /\ t \notin DOMAIN ReviewTables /\ t \notin DOMAIN WhatIfTables
             /\ t \notin DOMAIN GovernanceTables
  BY DEF IdentityTables, DatasetTables, AuditTables, ModelTables, FindingTables, CourtTables,
         ReviewTables, WhatIfTables, GovernanceTables, JobTables
<1> QED BY <1>1, <1>2, <1>3, <1>4, <1>5, <1>6, <1>7, <1>8, <1>9

\* Revision 0001 has the tables of every group as the models declare them, but for jobs.
LEMMA FirstCovers ==
    /\ Covers(First, IdentityTables) /\ Covers(First, DatasetTables) /\ Covers(First, AuditTables)
    /\ Covers(First, ModelTables) /\ Covers(First, FindingTables) /\ Covers(First, CourtTables)
    /\ Covers(First, ReviewTables) /\ Covers(First, WhatIfTables)
    /\ Covers(First, GovernanceTables) /\ Covers(First, FirstJobTables)
<1> DEFINE a == Merged(IdentityTables, DatasetTables)  b == Merged(AuditTables, ModelTables)
           c == Merged(FindingTables, CourtTables)     d == Merged(ReviewTables, WhatIfTables)
           e == Merged(GovernanceTables, JobTables)
           ab == Merged(a, b)  cd == Merged(c, d)  all == Merged(ab, cd)
<1>d. Declared = Merged(all, e)
  BY DEF Declared
<1>m. /\ DOMAIN a = DOMAIN IdentityTables \cup DOMAIN DatasetTables
      /\ DOMAIN b = DOMAIN AuditTables \cup DOMAIN ModelTables
      /\ DOMAIN c = DOMAIN FindingTables \cup DOMAIN CourtTables
      /\ DOMAIN d = DOMAIN ReviewTables \cup DOMAIN WhatIfTables
      /\ DOMAIN ab = DOMAIN a \cup DOMAIN b
      /\ DOMAIN cd = DOMAIN c \cup DOMAIN d
      /\ DOMAIN all = DOMAIN ab \cup DOMAIN cd
  BY DEF Merged
<1>1. Covers(a, IdentityTables) /\ Covers(b, AuditTables) /\ Covers(c, FindingTables)
      /\ Covers(d, ReviewTables) /\ Covers(e, GovernanceTables)
  BY DEF Covers, Merged
<1>2. Covers(a, DatasetTables) /\ Covers(b, ModelTables) /\ Covers(c, CourtTables)
      /\ Covers(d, WhatIfTables) /\ Covers(e, JobTables)
  <2>1. \A g : Covers(g, g)
    BY DEF Covers
  <2> QED BY <2>1, GroupsDisjoint, MergedCovers
<1> HIDE DEF a, b, c, d, e
<1>3. Covers(ab, IdentityTables) /\ Covers(ab, DatasetTables) /\ Covers(cd, FindingTables)
      /\ Covers(cd, CourtTables)
  BY <1>1, <1>2, MergedCovers
<1>4. Covers(ab, AuditTables) /\ Covers(ab, ModelTables) /\ Covers(cd, ReviewTables)
      /\ Covers(cd, WhatIfTables)
  BY <1>1, <1>2, <1>m, GroupsDisjoint, MergedCovers
<1> HIDE DEF ab, cd
<1>5. Covers(all, IdentityTables) /\ Covers(all, DatasetTables) /\ Covers(all, AuditTables)
      /\ Covers(all, ModelTables)
  BY <1>3, <1>4, MergedCovers
<1>6. Covers(all, FindingTables) /\ Covers(all, CourtTables)
  BY <1>3, <1>m, GroupsDisjoint, MergedCovers
<1>7. Covers(all, ReviewTables) /\ Covers(all, WhatIfTables)
  BY <1>4, <1>m, GroupsDisjoint, MergedCovers
<1> HIDE DEF all
<1>8. /\ Covers(Declared, IdentityTables) /\ Covers(Declared, DatasetTables)
      /\ Covers(Declared, AuditTables) /\ Covers(Declared, ModelTables)
      /\ Covers(Declared, FindingTables) /\ Covers(Declared, CourtTables)
      /\ Covers(Declared, ReviewTables) /\ Covers(Declared, WhatIfTables)
  BY <1>d, <1>5, <1>6, <1>7, MergedCovers
<1>9. Covers(Declared, GovernanceTables)
  BY <1>d, <1>1, <1>m, GroupsDisjoint, MergedCovers
<1>10. Covers(Declared, JobTables)
  BY <1>d, <1>2, <1>m, GroupsDisjoint, MergedCovers
<1>11. "jobs" \in DOMAIN JobTables /\ "job_events" \in DOMAIN JobTables
  BY DEF JobTables
<1>12. \A group : Covers(Declared, group) /\ "jobs" \notin DOMAIN group => Covers(First, group)
  BY DEF Covers, First
<1>13. /\ "jobs" \notin DOMAIN IdentityTables /\ "jobs" \notin DOMAIN DatasetTables
       /\ "jobs" \notin DOMAIN AuditTables /\ "jobs" \notin DOMAIN ModelTables
       /\ "jobs" \notin DOMAIN FindingTables /\ "jobs" \notin DOMAIN CourtTables
       /\ "jobs" \notin DOMAIN ReviewTables /\ "jobs" \notin DOMAIN WhatIfTables
       /\ "jobs" \notin DOMAIN GovernanceTables
  BY <1>11, GroupsDisjoint
<1>14. Covers(First, FirstJobTables)
  BY <1>10, <1>11 DEF Covers, First, FirstJobTables
<1> QED BY <1>8, <1>9, <1>12, <1>13, <1>14

\* Every table of revision 0001 belongs to one of the groups.
LEMMA FirstIs ==
    \A t \in DOMAIN First :
        \/ t \in DOMAIN IdentityTables \/ t \in DOMAIN DatasetTables \/ t \in DOMAIN AuditTables
        \/ t \in DOMAIN ModelTables \/ t \in DOMAIN FindingTables \/ t \in DOMAIN CourtTables
        \/ t \in DOMAIN ReviewTables \/ t \in DOMAIN WhatIfTables
        \/ t \in DOMAIN GovernanceTables \/ t \in DOMAIN FirstJobTables
<1>1. DOMAIN FirstJobTables = DOMAIN JobTables
  BY DEF FirstJobTables, JobTables
<1> QED BY <1>1, DeclaredTables DEF First, Tables

\* What a table refers to is created before it, or is the table itself.
Backward(t, row) ==
    /\ t \in DOMAIN Rank
    /\ \A r \in row.must \cup row.may \cup row.unset :
            r[2] \in DOMAIN Rank /\ Rank[r[2]] <= Rank[t]

LEMMA FirstBackward == \A t \in DOMAIN First : Backward(t, First[t])
<1> USE DEF Backward, Rank, Table
<1>1. \A t \in DOMAIN IdentityTables : Backward(t, IdentityTables[t])
  BY DEF IdentityTables
<1>2. \A t \in DOMAIN DatasetTables : Backward(t, DatasetTables[t])
  BY DEF DatasetTables
<1>3. \A t \in DOMAIN AuditTables : Backward(t, AuditTables[t])
  BY DEF AuditTables
<1>4. \A t \in DOMAIN ModelTables : Backward(t, ModelTables[t])
  BY DEF ModelTables
<1>5. \A t \in DOMAIN FindingTables : Backward(t, FindingTables[t])
  BY DEF FindingTables
<1>6. \A t \in DOMAIN CourtTables : Backward(t, CourtTables[t])
  BY DEF CourtTables
<1>7. \A t \in DOMAIN ReviewTables : Backward(t, ReviewTables[t])
  BY DEF ReviewTables
<1>8. \A t \in DOMAIN WhatIfTables : Backward(t, WhatIfTables[t])
  BY DEF WhatIfTables
<1>9. \A t \in DOMAIN GovernanceTables : Backward(t, GovernanceTables[t])
  BY DEF GovernanceTables
<1>10. \A t \in DOMAIN FirstJobTables : Backward(t, FirstJobTables[t])
  BY DEF FirstJobTables, JobTables, FirstJobs
<1> HIDE DEF Backward, Rank, Table
<1> QED BY FirstIs, FirstCovers, <1>1, <1>2, <1>3, <1>4, <1>5, <1>6, <1>7, <1>8, <1>9, <1>10
        DEF Covers

LEMMA RankIs ==
    /\ \A t \in DOMAIN Rank : Rank[t] \in 1..63
    /\ \A t, u \in DOMAIN Rank : Rank[t] = Rank[u] => t = u
BY DEF Rank

\* The migration creates a table as revision 0001 has it, in its turn.
Creation(t, row) == [op |-> "create", table |-> t, def |-> row]
Creates == {Creation(t, First[t]) : t \in DOMAIN First}
Made(o, n) == o \in Creates /\ Rank[o.table] = n

\* A part of the script creates the tables of the ranks from a + 1 to b.
Segment(s, a, b) ==
    s \in Seq(Creates) /\ Len(s) = b - a /\ \A i \in 1..(b - a) : Made(s[i], a + i)

LEMMA SegmentsJoin ==
    ASSUME NEW a \in Nat, NEW b \in Nat, NEW c \in Nat, a <= b, b <= c,
           NEW s, NEW u, Segment(s, a, b), Segment(u, b, c)
    PROVE  Segment(s \o u, a, c)
<1>1. /\ s \o u \in Seq(Creates) /\ Len(s \o u) = c - a
      /\ \A i \in 1..(c - a) : (s \o u)[i] = IF i <= b - a THEN s[i] ELSE u[i - (b - a)]
  <2>1. s \in Seq(Creates) /\ u \in Seq(Creates) /\ Len(s) = b - a /\ Len(u) = c - b
    BY DEF Segment
  <2>2. /\ s \o u \in Seq(Creates) /\ Len(s \o u) = Len(s) + Len(u)
        /\ \A i \in 1..(Len(s) + Len(u)) :
              (s \o u)[i] = IF i <= Len(s) THEN s[i] ELSE u[i - Len(s)]
    BY <2>1, ConcatProperties
  <2>3. Len(s) + Len(u) = c - a
    BY <2>1
  <2> QED BY <2>1, <2>2, <2>3
<1>2. ASSUME NEW i \in 1..(c - a) PROVE Made((s \o u)[i], a + i)
  <2>1. CASE i <= b - a
    BY <2>1, <1>1 DEF Segment
  <2>2. CASE ~(i <= b - a)
    <3>1. i - (b - a) \in 1..(c - b) /\ b + (i - (b - a)) = a + i
      BY <2>2
    <3> QED BY <2>2, <3>1, <1>1 DEF Segment
  <2> QED BY <2>1, <2>2
<1> QED BY <1>1, <1>2 DEF Segment

LEMMA Segment1 == Segment(Create1, 0, 6)
<1>1. /\ Create1[1] = Creation("algorithm_versions", DatasetTables.algorithm_versions)
      /\ Create1[2] = Creation("organizations", IdentityTables.organizations)
      /\ Create1[3] = Creation("system_model_versions", DatasetTables.system_model_versions)
      /\ Create1[4] = Creation("users", IdentityTables.users)
      /\ Create1[5] = Creation("api_tokens", IdentityTables.api_tokens)
      /\ Create1[6] = Creation("auth_sessions", IdentityTables.auth_sessions)
  BY DEF Create1, Create, Creation, Table, DatasetTables, IdentityTables
<1>2. /\ {"algorithm_versions", "system_model_versions"} \subseteq DOMAIN DatasetTables
      /\ {"organizations", "users", "api_tokens", "auth_sessions"} \subseteq DOMAIN IdentityTables
  BY DEF DatasetTables, IdentityTables
<1>3. \A i \in 1..6 : Rank[Create1[i].table] = 0 + i
  BY DEF Create1, Create, Rank
<1>4. Len(Create1) = 6 /\ Create1 = [i \in 1..6 |-> Create1[i]]
  BY DEF Create1
<1>5. \A i \in 1..6 : Create1[i] \in Creates
  BY <1>1, <1>2, FirstCovers DEF Creates, Covers, Creation
<1> QED BY <1>3, <1>4, <1>5 DEF Segment, Made

LEMMA Segment2 == Segment(Create2, 6, 10)
<1>1. /\ Create2[1] = Creation("jobs", FirstJobTables.jobs)
      /\ Create2[2] = Creation("organization_members", IdentityTables.organization_members)
      /\ Create2[3] = Creation("projects", IdentityTables.projects)
      /\ Create2[4] = Creation("security_audit_log", GovernanceTables.security_audit_log)
  BY DEF Create2, Create, Creation, Table, FirstJobTables, GovernanceTables, IdentityTables,
         FirstJobs, JobTables, JobTypesV1, Role, RunStatus
<1>2. /\ {"jobs"} \subseteq DOMAIN FirstJobTables
      /\ {"security_audit_log"} \subseteq DOMAIN GovernanceTables
      /\ {"organization_members", "projects"} \subseteq DOMAIN IdentityTables
  BY DEF FirstJobTables, GovernanceTables, IdentityTables
<1>3. \A i \in 1..4 : Rank[Create2[i].table] = 6 + i
  BY DEF Create2, Create, Rank
<1>4. Len(Create2) = 4 /\ Create2 = [i \in 1..4 |-> Create2[i]]
  BY DEF Create2
<1>5. \A i \in 1..4 : Create2[i] \in Creates
  BY <1>1, <1>2, FirstCovers DEF Creates, Covers, Creation
<1> QED BY <1>3, <1>4, <1>5 DEF Segment, Made

LEMMA Segment3 == Segment(Create3, 10, 15)
<1>1. /\ Create3[1] = Creation("audit_configs", IdentityTables.audit_configs)
      /\ Create3[2] = Creation("data_contracts", IdentityTables.data_contracts)
      /\ Create3[3] = Creation("datasets", DatasetTables.datasets)
      /\ Create3[4] = Creation("job_events", FirstJobTables.job_events)
      /\ Create3[5] = Creation("dataset_versions", DatasetTables.dataset_versions)
  BY DEF Create3, Create, Creation, Table, DatasetTables, FirstJobTables, IdentityTables,
         FirstJobs, JobTables, JobTypesV1, RunStatus, VersionStatus
<1>2. /\ {"datasets", "dataset_versions"} \subseteq DOMAIN DatasetTables
      /\ {"job_events"} \subseteq DOMAIN FirstJobTables
      /\ {"audit_configs", "data_contracts"} \subseteq DOMAIN IdentityTables
  BY DEF DatasetTables, FirstJobTables, IdentityTables
<1>3. \A i \in 1..5 : Rank[Create3[i].table] = 10 + i
  BY DEF Create3, Create, Rank
<1>4. Len(Create3) = 5 /\ Create3 = [i \in 1..5 |-> Create3[i]]
  BY DEF Create3
<1>5. \A i \in 1..5 : Create3[i] \in Creates
  BY <1>1, <1>2, FirstCovers DEF Creates, Covers, Creation
<1> QED BY <1>3, <1>4, <1>5 DEF Segment, Made

LEMMA Segment4 == Segment(Create4, 15, 18)
<1>1. /\ Create4[1] = Creation("audit_runs", AuditTables.audit_runs)
      /\ Create4[2] = Creation("classes", DatasetTables.classes)
      /\ Create4[3] = Creation("contamination_checks", GovernanceTables.contamination_checks)
  BY DEF Create4, Create, Creation, Table, AuditTables, DatasetTables, GovernanceTables,
         AuditProfile, RunStatus
<1>2. /\ {"audit_runs"} \subseteq DOMAIN AuditTables
      /\ {"classes"} \subseteq DOMAIN DatasetTables
      /\ {"contamination_checks"} \subseteq DOMAIN GovernanceTables
  BY DEF AuditTables, DatasetTables, GovernanceTables
<1>3. \A i \in 1..3 : Rank[Create4[i].table] = 15 + i
  BY DEF Create4, Create, Rank
<1>4. Len(Create4) = 3 /\ Create4 = [i \in 1..3 |-> Create4[i]]
  BY DEF Create4
<1>5. \A i \in 1..3 : Create4[i] \in Creates
  BY <1>1, <1>2, FirstCovers DEF Creates, Covers, Creation
<1> QED BY <1>3, <1>4, <1>5 DEF Segment, Made

LEMMA Segment5 == Segment(Create5, 18, 22)
<1>1. /\ Create5[1] = Creation("dataset_files", DatasetTables.dataset_files)
      /\ Create5[2] = Creation("dataset_version_diffs", GovernanceTables.dataset_version_diffs)
      /\ Create5[3] = Creation("evidence_ledger", GovernanceTables.evidence_ledger)
      /\ Create5[4] = Creation("splits", DatasetTables.splits)
  BY DEF Create5, Create, Creation, Table, DatasetTables, GovernanceTables, FileStatus, Split
<1>2. /\ {"dataset_files", "splits"} \subseteq DOMAIN DatasetTables
      /\ {"dataset_version_diffs", "evidence_ledger"} \subseteq DOMAIN GovernanceTables
  BY DEF DatasetTables, GovernanceTables
<1>3. \A i \in 1..4 : Rank[Create5[i].table] = 18 + i
  BY DEF Create5, Create, Rank
<1>4. Len(Create5) = 4 /\ Create5 = [i \in 1..4 |-> Create5[i]]
  BY DEF Create5
<1>5. \A i \in 1..4 : Create5[i] \in Creates
  BY <1>1, <1>2, FirstCovers DEF Creates, Covers, Creation
<1> QED BY <1>3, <1>4, <1>5 DEF Segment, Made

LEMMA Segment6 == Segment(Create6, 22, 26)
<1>1. /\ Create6[1] = Creation("audit_pipeline_steps", AuditTables.audit_pipeline_steps)
      /\ Create6[2] = Creation("audit_reports", GovernanceTables.audit_reports)
      /\ Create6[3] = Creation("contract_evaluations", GovernanceTables.contract_evaluations)
      /\ Create6[4] = Creation("coverage_clusters", FindingTables.coverage_clusters)
  BY DEF Create6, Create, Creation, Table, AuditTables, FindingTables, GovernanceTables,
         RunStatus, StepStatus
<1>2. /\ {"audit_pipeline_steps"} \subseteq DOMAIN AuditTables
      /\ {"coverage_clusters"} \subseteq DOMAIN FindingTables
      /\ {"audit_reports", "contract_evaluations"} \subseteq DOMAIN GovernanceTables
  BY DEF AuditTables, FindingTables, GovernanceTables
<1>3. \A i \in 1..4 : Rank[Create6[i].table] = 22 + i
  BY DEF Create6, Create, Rank
<1>4. Len(Create6) = 4 /\ Create6 = [i \in 1..4 |-> Create6[i]]
  BY DEF Create6
<1>5. \A i \in 1..4 : Create6[i] \in Creates
  BY <1>1, <1>2, FirstCovers DEF Creates, Covers, Creation
<1> QED BY <1>3, <1>4, <1>5 DEF Segment, Made

LEMMA Segment7 == Segment(Create7, 26, 30)
<1>1. /\ Create7[1] = Creation("coverage_gaps", FindingTables.coverage_gaps)
      /\ Create7[2] = Creation("dataset_debt_snapshots", GovernanceTables.dataset_debt_snapshots)
      /\ Create7[3] = Creation("dataset_dna_profiles", GovernanceTables.dataset_dna_profiles)
      /\ Create7[4] = Creation("embeddings_metadata", AuditTables.embeddings_metadata)
  BY DEF Create7, Create, Creation, Table, AuditTables, FindingTables, GovernanceTables, DebtLevel
<1>2. /\ {"embeddings_metadata"} \subseteq DOMAIN AuditTables
      /\ {"coverage_gaps"} \subseteq DOMAIN FindingTables
      /\ {"dataset_debt_snapshots", "dataset_dna_profiles"} \subseteq DOMAIN GovernanceTables
  BY DEF AuditTables, FindingTables, GovernanceTables
<1>3. \A i \in 1..4 : Rank[Create7[i].table] = 26 + i
  BY DEF Create7, Create, Rank
<1>4. Len(Create7) = 4 /\ Create7 = [i \in 1..4 |-> Create7[i]]
  BY DEF Create7
<1>5. \A i \in 1..4 : Create7[i] \in Creates
  BY <1>1, <1>2, FirstCovers DEF Creates, Covers, Creation
<1> QED BY <1>3, <1>4, <1>5 DEF Segment, Made

LEMMA Segment8 == Segment(Create8, 30, 33)
<1>1. /\ Create8[1] = Creation("exports", GovernanceTables.exports)
      /\ Create8[2] = Creation("preflight_results", GovernanceTables.preflight_results)
      /\ Create8[3] = Creation("review_sessions", ReviewTables.review_sessions)
  BY DEF Create8, Create, Creation, Table, GovernanceTables, ReviewTables, PreflightStatus,
         RunStatus
<1>2. /\ {"exports", "preflight_results"} \subseteq DOMAIN GovernanceTables
      /\ {"review_sessions"} \subseteq DOMAIN ReviewTables
  BY DEF GovernanceTables, ReviewTables
<1>3. \A i \in 1..3 : Rank[Create8[i].table] = 30 + i
  BY DEF Create8, Create, Rank
<1>4. Len(Create8) = 3 /\ Create8 = [i \in 1..3 |-> Create8[i]]
  BY DEF Create8
<1>5. \A i \in 1..3 : Create8[i] \in Creates
  BY <1>1, <1>2, FirstCovers DEF Creates, Covers, Creation
<1> QED BY <1>3, <1>4, <1>5 DEF Segment, Made

LEMMA Segment9 == Segment(Create9, 33, 36)
<1>1. /\ Create9[1] = Creation("samples", DatasetTables.samples)
      /\ Create9[2] = Creation("shortcut_findings", ModelTables.shortcut_findings)
      /\ Create9[3] = Creation("split_integrity_metrics", AuditTables.split_integrity_metrics)
  BY DEF Create9, Create, Creation, Table, AuditTables, DatasetTables, ModelTables, Split
<1>2. /\ {"split_integrity_metrics"} \subseteq DOMAIN AuditTables
      /\ {"samples"} \subseteq DOMAIN DatasetTables
      /\ {"shortcut_findings"} \subseteq DOMAIN ModelTables
  BY DEF AuditTables, DatasetTables, ModelTables
<1>3. \A i \in 1..3 : Rank[Create9[i].table] = 33 + i
  BY DEF Create9, Create, Rank
<1>4. Len(Create9) = 3 /\ Create9 = [i \in 1..3 |-> Create9[i]]
  BY DEF Create9
<1>5. \A i \in 1..3 : Create9[i] \in Creates
  BY <1>1, <1>2, FirstCovers DEF Creates, Covers, Creation
<1> QED BY <1>3, <1>4, <1>5 DEF Segment, Made

LEMMA Segment10 == Segment(Create10, 36, 40)
<1>1. /\ Create10[1] = Creation("collection_tasks", FindingTables.collection_tasks)
      /\ Create10[2] = Creation("duplicate_families", AuditTables.duplicate_families)
      /\ Create10[3] = Creation("failure_events", FindingTables.failure_events)
      /\ Create10[4] = Creation("influence_findings", FindingTables.influence_findings)
  BY DEF Create10, Create, Creation, Table, AuditTables, FindingTables, CollectionStatus
<1>2. /\ {"duplicate_families"} \subseteq DOMAIN AuditTables
      /\ {"collection_tasks", "failure_events", "influence_findings"} \subseteq DOMAIN FindingTables
  BY DEF AuditTables, FindingTables
<1>3. \A i \in 1..4 : Rank[Create10[i].table] = 36 + i
  BY DEF Create10, Create, Rank
<1>4. Len(Create10) = 4 /\ Create10 = [i \in 1..4 |-> Create10[i]]
  BY DEF Create10
<1>5. \A i \in 1..4 : Create10[i] \in Creates
  BY <1>1, <1>2, FirstCovers DEF Creates, Covers, Creation
<1> QED BY <1>3, <1>4, <1>5 DEF Segment, Made

LEMMA Segment11 == Segment(Create11, 40, 44)
<1>1. /\ Create11[1] = Creation("label_findings", ModelTables.label_findings)
      /\ Create11[2] = Creation("privacy_findings", FindingTables.privacy_findings)
      /\ Create11[3] = Creation("quality_findings", AuditTables.quality_findings)
      /\ Create11[4] = Creation("rare_wrong_findings", ModelTables.rare_wrong_findings)
  BY DEF Create11, Create, Creation, Table, AuditTables, FindingTables, ModelTables, Hypothesis,
         LabelAction, Severity
<1>2. /\ {"quality_findings"} \subseteq DOMAIN AuditTables
      /\ {"privacy_findings"} \subseteq DOMAIN FindingTables
      /\ {"label_findings", "rare_wrong_findings"} \subseteq DOMAIN ModelTables
  BY DEF AuditTables, FindingTables, ModelTables
<1>3. \A i \in 1..4 : Rank[Create11[i].table] = 40 + i
  BY DEF Create11, Create, Rank
<1>4. Len(Create11) = 4 /\ Create11 = [i \in 1..4 |-> Create11[i]]
  BY DEF Create11
<1>5. \A i \in 1..4 : Create11[i] \in Creates
  BY <1>1, <1>2, FirstCovers DEF Creates, Covers, Creation
<1> QED BY <1>3, <1>4, <1>5 DEF Segment, Made

LEMMA Segment12 == Segment(Create12, 44, 47)
<1>1. /\ Create12[1] = Creation("review_budget_runs", ReviewTables.review_budget_runs)
      /\ Create12[2] = Creation("sample_quality_metrics", AuditTables.sample_quality_metrics)
      /\ Create12[3] = Creation("training_dynamics", ModelTables.training_dynamics)
  BY DEF Create12, Create, Creation, Table, AuditTables, ModelTables, ReviewTables,
         DynamicsCategory
<1>2. /\ {"sample_quality_metrics"} \subseteq DOMAIN AuditTables
      /\ {"training_dynamics"} \subseteq DOMAIN ModelTables
      /\ {"review_budget_runs"} \subseteq DOMAIN ReviewTables
  BY DEF AuditTables, ModelTables, ReviewTables
<1>3. \A i \in 1..3 : Rank[Create12[i].table] = 44 + i
  BY DEF Create12, Create, Rank
<1>4. Len(Create12) = 3 /\ Create12 = [i \in 1..3 |-> Create12[i]]
  BY DEF Create12
<1>5. \A i \in 1..3 : Create12[i] \in Creates
  BY <1>1, <1>2, FirstCovers DEF Creates, Covers, Creation
<1> QED BY <1>3, <1>4, <1>5 DEF Segment, Made

LEMMA Segment13 == Segment(Create13, 47, 49)
<1>1. /\ Create13[1] = Creation("court_cases", CourtTables.court_cases)
      /\ Create13[2] = Creation("duplicate_family_members", AuditTables.duplicate_family_members)
  BY DEF Create13, Create, Creation, Table, AuditTables, CourtTables, CaseStatus, Uncertainty,
         Verdict
<1>2. /\ {"duplicate_family_members"} \subseteq DOMAIN AuditTables
      /\ {"court_cases"} \subseteq DOMAIN CourtTables
  BY DEF AuditTables, CourtTables
<1>3. \A i \in 1..2 : Rank[Create13[i].table] = 47 + i
  BY DEF Create13, Create, Rank
<1>4. Len(Create13) = 2 /\ Create13 = [i \in 1..2 |-> Create13[i]]
  BY DEF Create13
<1>5. \A i \in 1..2 : Create13[i] \in Creates
  BY <1>1, <1>2, FirstCovers DEF Creates, Covers, Creation
<1> QED BY <1>3, <1>4, <1>5 DEF Segment, Made

LEMMA Segment14 == Segment(Create14, 49, 52)
<1>1. /\ Create14[1] = Creation("failure_data_links", FindingTables.failure_data_links)
      /\ Create14[2] = Creation("leakage_findings", AuditTables.leakage_findings)
      /\ Create14[3] = Creation("similarity_edges", AuditTables.similarity_edges)
  BY DEF Create14, Create, Creation, Table, AuditTables, FindingTables, LeakageKind, LinkType,
         Relation, Risk
<1>2. /\ {"leakage_findings", "similarity_edges"} \subseteq DOMAIN AuditTables
      /\ {"failure_data_links"} \subseteq DOMAIN FindingTables
  BY DEF AuditTables, FindingTables
<1>3. \A i \in 1..3 : Rank[Create14[i].table] = 49 + i
  BY DEF Create14, Create, Rank
<1>4. Len(Create14) = 3 /\ Create14 = [i \in 1..3 |-> Create14[i]]
  BY DEF Create14
<1>5. \A i \in 1..3 : Create14[i] \in Creates
  BY <1>1, <1>2, FirstCovers DEF Creates, Covers, Creation
<1> QED BY <1>3, <1>4, <1>5 DEF Segment, Made

LEMMA Segment15 == Segment(Create15, 52, 55)
<1>1. /\ Create15[1] = Creation("what_if_runs", WhatIfTables.what_if_runs)
      /\ Create15[2] = Creation("baseline_model_runs", ModelTables.baseline_model_runs)
      /\ Create15[3] = Creation("case_evidence", CourtTables.case_evidence)
  BY DEF Create15, Create, Creation, Table, CourtTables, ModelTables, WhatIfTables, EvidenceKind,
         RunStatus, Stance, Witness
<1>2. /\ {"case_evidence"} \subseteq DOMAIN CourtTables
      /\ {"baseline_model_runs"} \subseteq DOMAIN ModelTables
      /\ {"what_if_runs"} \subseteq DOMAIN WhatIfTables
  BY DEF CourtTables, ModelTables, WhatIfTables
<1>3. \A i \in 1..3 : Rank[Create15[i].table] = 52 + i
  BY DEF Create15, Create, Rank
<1>4. Len(Create15) = 3 /\ Create15 = [i \in 1..3 |-> Create15[i]]
  BY DEF Create15
<1>5. \A i \in 1..3 : Create15[i] \in Creates
  BY <1>1, <1>2, FirstCovers DEF Creates, Covers, Creation
<1> QED BY <1>3, <1>4, <1>5 DEF Segment, Made

LEMMA Segment16 == Segment(Create16, 55, 59)
<1>1. /\ Create16[1] = Creation("case_explanations", CourtTables.case_explanations)
      /\ Create16[2] = Creation("case_verdicts", CourtTables.case_verdicts)
      /\ Create16[3] = Creation("human_decisions", ReviewTables.human_decisions)
      /\ Create16[4] = Creation("review_queue_items", ReviewTables.review_queue_items)
  BY DEF Create16, Create, Creation, Table, CourtTables, ReviewTables, DecisionAction,
         ExplanationSource, Verdict
<1>2. /\ {"case_explanations", "case_verdicts"} \subseteq DOMAIN CourtTables
      /\ {"human_decisions", "review_queue_items"} \subseteq DOMAIN ReviewTables
  BY DEF CourtTables, ReviewTables
<1>3. \A i \in 1..4 : Rank[Create16[i].table] = 55 + i
  BY DEF Create16, Create, Rank
<1>4. Len(Create16) = 4 /\ Create16 = [i \in 1..4 |-> Create16[i]]
  BY DEF Create16
<1>5. \A i \in 1..4 : Create16[i] \in Creates
  BY <1>1, <1>2, FirstCovers DEF Creates, Covers, Creation
<1> QED BY <1>3, <1>4, <1>5 DEF Segment, Made

LEMMA Segment17 == Segment(Create17, 59, 63)
<1>1. /\ Create17[1] = Creation("reviewer_notes", ReviewTables.reviewer_notes)
      /\ Create17[2] = Creation("what_if_actions", WhatIfTables.what_if_actions)
      /\ Create17[3] = Creation("what_if_results", WhatIfTables.what_if_results)
      /\ Create17[4] = Creation("model_predictions", ModelTables.model_predictions)
  BY DEF Create17, Create, Creation, Table, ModelTables, ReviewTables, WhatIfTables
<1>2. /\ {"model_predictions"} \subseteq DOMAIN ModelTables
      /\ {"reviewer_notes"} \subseteq DOMAIN ReviewTables
      /\ {"what_if_actions", "what_if_results"} \subseteq DOMAIN WhatIfTables
  BY DEF ModelTables, ReviewTables, WhatIfTables
<1>3. \A i \in 1..4 : Rank[Create17[i].table] = 59 + i
  BY DEF Create17, Create, Rank
<1>4. Len(Create17) = 4 /\ Create17 = [i \in 1..4 |-> Create17[i]]
  BY DEF Create17
<1>5. \A i \in 1..4 : Create17[i] \in Creates
  BY <1>1, <1>2, FirstCovers DEF Creates, Covers, Creation
<1> QED BY <1>3, <1>4, <1>5 DEF Segment, Made

\* The script of revision 0001 creates all its tables, in the order of their ranks.
LEMMA FirstScript ==
    /\ Upgrade0001 \in Seq(Creates) /\ Len(Upgrade0001) = 63
    /\ \A i \in 1..63 : Made(Upgrade0001[i], i)
<1> DEFINE s2 == Create1 \o Create2
           s3 == s2 \o Create3
           s4 == s3 \o Create4
           s5 == s4 \o Create5
           s6 == s5 \o Create6
           s7 == s6 \o Create7
           s8 == s7 \o Create8
           s9 == s8 \o Create9
           s10 == s9 \o Create10
           s11 == s10 \o Create11
           s12 == s11 \o Create12
           s13 == s12 \o Create13
           s14 == s13 \o Create14
           s15 == s14 \o Create15
           s16 == s15 \o Create16
           s17 == s16 \o Create17
<1>2. Segment(s2, 0, 10)
  BY Segment1, Segment2, SegmentsJoin
<1> HIDE DEF s2
<1>3. Segment(s3, 0, 15)
  BY <1>2, Segment3, SegmentsJoin
<1> HIDE DEF s3
<1>4. Segment(s4, 0, 18)
  BY <1>3, Segment4, SegmentsJoin
<1> HIDE DEF s4
<1>5. Segment(s5, 0, 22)
  BY <1>4, Segment5, SegmentsJoin
<1> HIDE DEF s5
<1>6. Segment(s6, 0, 26)
  BY <1>5, Segment6, SegmentsJoin
<1> HIDE DEF s6
<1>7. Segment(s7, 0, 30)
  BY <1>6, Segment7, SegmentsJoin
<1> HIDE DEF s7
<1>8. Segment(s8, 0, 33)
  BY <1>7, Segment8, SegmentsJoin
<1> HIDE DEF s8
<1>9. Segment(s9, 0, 36)
  BY <1>8, Segment9, SegmentsJoin
<1> HIDE DEF s9
<1>10. Segment(s10, 0, 40)
  BY <1>9, Segment10, SegmentsJoin
<1> HIDE DEF s10
<1>11. Segment(s11, 0, 44)
  BY <1>10, Segment11, SegmentsJoin
<1> HIDE DEF s11
<1>12. Segment(s12, 0, 47)
  BY <1>11, Segment12, SegmentsJoin
<1> HIDE DEF s12
<1>13. Segment(s13, 0, 49)
  BY <1>12, Segment13, SegmentsJoin
<1> HIDE DEF s13
<1>14. Segment(s14, 0, 52)
  BY <1>13, Segment14, SegmentsJoin
<1> HIDE DEF s14
<1>15. Segment(s15, 0, 55)
  BY <1>14, Segment15, SegmentsJoin
<1> HIDE DEF s15
<1>16. Segment(s16, 0, 59)
  BY <1>15, Segment16, SegmentsJoin
<1> HIDE DEF s16
<1>17. Segment(s17, 0, 63)
  BY <1>16, Segment17, SegmentsJoin
<1> HIDE DEF s17
<1>18. s17 = Upgrade0001
  BY DEF Upgrade0001, s2, s3, s4, s5, s6, s7, s8, s9, s10, s11, s12, s13, s14, s15, s16, s17
<1> QED BY <1>17, <1>18 DEF Segment

\* Whatever has a rank is a table of revision 0001.
LEMMA RanksAreTables == \A t \in DOMAIN Rank : t \in DOMAIN First
<1> TAKE t \in DOMAIN Rank
<1>1. Made(Upgrade0001[Rank[t]], Rank[t])
  <2>1. Rank[t] \in 1..63
    BY RankIs
  <2> QED BY <2>1, FirstScript, Zenon
<1>2. PICK u \in DOMAIN First : Rank[u] = Rank[t]
  BY <1>1 DEF Made, Creates, Creation
<1>3. u \in DOMAIN Rank
  BY FirstBackward DEF Backward
<1> QED BY <1>2, <1>3, RankIs

-----------------------------------------------------------------------------
(* What a script does to a database.                                       *)

Database(ts, cs) == [tables |-> ts, columns |-> cs]

\* Possible, but for the rows a CHECK meets; TablesAfter and ColumnsAfter, for any database.
Fits(o, d) ==
    CASE o.op = "create" ->
            /\ o.table \notin DOMAIN d.tables
            /\ Targets(o.def.must \cup o.def.may \cup o.def.unset)
                  \subseteq DOMAIN d.tables \cup {o.table}
      [] o.op = "drop" ->
            /\ o.table \in DOMAIN d.tables
            /\ \A t \in DOMAIN d.tables \ {o.table} :
                  o.table \notin Targets(References(d.tables, t))
      [] o.op = "add_column" ->
            o.table \in DOMAIN d.tables /\ <<o.table, o.column>> \notin d.columns
      [] o.op = "drop_column" -> <<o.table, o.column>> \in d.columns
      [] OTHER -> TRUE

Checked(ts, values) ==
    [ts EXCEPT !["jobs"].checks =
        {c \in @ : c[1] # "job_type"} \cup {<<"job_type", values>>}]

After(o, d) ==
    Database(CASE o.op = "create" -> Merged(d.tables, [t \in {o.table} |-> o.def])
               [] o.op = "drop" -> [t \in DOMAIN d.tables \ {o.table} |-> d.tables[t]]
               [] o.op = "check" -> Checked(d.tables, o.values)
               [] OTHER -> d.tables,
             CASE o.op = "add_column" -> d.columns \cup {<<o.table, o.column>>}
               [] o.op = "drop_column" -> d.columns \ {<<o.table, o.column>>}
               [] OTHER -> d.columns)

LEMMA WorkIs ==
    ASSUME NEW o
    PROVE  /\ TablesAfter(o) = After(o, work).tables
           /\ ColumnsAfter(o) = After(o, work).columns
           /\ Fits(o, work) /\ o.op # "check" => Possible(o)
           /\ Possible(o) /\ o.op = "check" =>
                "purge_prefix" \in o.values \/ purge_rows \subseteq work.deleted
<1>1. TablesAfter(o) = After(o, work).tables
  BY DEF TablesAfter, After, Checked, Database
<1>2. ColumnsAfter(o) = After(o, work).columns
  BY DEF ColumnsAfter, After, Database
<1>3. Fits(o, work) /\ o.op # "check" => Possible(o)
  BY DEF Fits, Possible
<1>4. Possible(o) /\ o.op = "check" =>
                "purge_prefix" \in o.values \/ purge_rows \subseteq work.deleted
  BY DEF Possible
<1> QED BY <1>1, <1>2, <1>3, <1>4

\* The databases a script leads through, one for each number of operations done.
Route(f, s, d, e) ==
    /\ f[0] = d /\ f[Len(s)] = e
    /\ \A i \in 1..Len(s) : Fits(s[i], f[i - 1]) /\ f[i] = After(s[i], f[i - 1])

Leads(s, d, e) == \E f : Route(f, s, d, e)

LEMMA RoutesJoin ==
    ASSUME NEW S, NEW s \in Seq(S), NEW u \in Seq(S), NEW d, NEW e, NEW g,
           Leads(s, d, e), Leads(u, e, g)
    PROVE  Leads(s \o u, d, g)
<1>1. PICK f : Route(f, s, d, e)
  BY DEF Leads
<1>2. PICK h : Route(h, u, e, g)
  BY DEF Leads
<1> DEFINE n == Len(s)  m == Len(u)
           r == [i \in 0..(n + m) |-> IF i <= n THEN f[i] ELSE h[i - n]]
<1>3. /\ n \in Nat /\ m \in Nat /\ Len(s \o u) = n + m
      /\ \A i \in 1..(n + m) : (s \o u)[i] = IF i <= n THEN s[i] ELSE u[i - n]
  BY ConcatProperties
<1>4. ASSUME NEW i \in 1..(n + m)
      PROVE  Fits((s \o u)[i], r[i - 1]) /\ r[i] = After((s \o u)[i], r[i - 1])
  <2>1. CASE i <= n
    <3>1. r[i - 1] = f[i - 1] /\ r[i] = f[i] /\ (s \o u)[i] = s[i] /\ i \in 1..n
      BY <2>1, <1>3
    <3> QED BY <3>1, <1>1 DEF Route
  <2>2. CASE i > n
    <3>1. /\ i - n \in 1..m /\ (s \o u)[i] = u[i - n] /\ r[i] = h[i - n]
          /\ r[i - 1] = IF i - 1 <= n THEN f[i - 1] ELSE h[(i - n) - 1]
      BY <2>2, <1>3
    <3>2. r[i - 1] = h[(i - n) - 1]
      <4>1. CASE i = n + 1
        <5>1. r[i - 1] = f[n] /\ (i - n) - 1 = 0
          BY <4>1, <1>3, <3>1
        <5> QED BY <5>1, <1>1, <1>2 DEF Route
      <4>2. CASE i # n + 1
        <5>1. ~(i - 1 <= n)
          BY <4>2, <2>2, <1>3
        <5> HIDE DEF r, n, m
        <5> QED BY <5>1, <3>1
      <4> QED BY <4>1, <4>2
    <3> QED BY <3>1, <3>2, <1>2 DEF Route
  <2> QED BY <2>1, <2>2, <1>3
<1>5. r[0] = d
  BY <1>1, <1>3 DEF Route
<1>6. r[n + m] = g
  <2>1. CASE m = 0
    <3>1. r[n + m] = f[n] BY <2>1, <1>3
    <3> QED BY <3>1, <2>1, <1>1, <1>2 DEF Route
  <2>2. CASE m # 0
    <3>1. r[n + m] = h[m] BY <2>2, <1>3
    <3> QED BY <3>1, <1>2 DEF Route
  <2> QED BY <2>1, <2>2
<1> HIDE DEF r
<1>7. Route(r, s \o u, d, g)
  BY <1>3, <1>4, <1>5, <1>6 DEF Route
<1> QED BY <1>7 DEF Leads

\* The tables of revision 0001 up to a rank.
UpTo(n) == {t \in DOMAIN First : Rank[t] <= n}
Grown(n) == Database([t \in UpTo(n) |-> First[t]], {})

LEMMA GrownBounds == Grown(0) = Database(<<>>, {}) /\ Grown(63) = Database(First, {})
<1>1. UpTo(0) = {} /\ UpTo(63) = DOMAIN First
  <2>1. \A t \in DOMAIN First : Rank[t] \in 1..63
    BY FirstBackward, RankIs DEF Backward
  <2> QED BY <2>1 DEF UpTo
<1>2. [t \in {} |-> First[t]] = <<>>
  OBVIOUS
<1>3. [t \in DOMAIN First |-> First[t]] = First
  BY DEF First
<1> QED BY <1>1, <1>2, <1>3 DEF Grown

\* The next table can be created, and is the newest one then; the newest one can be dropped.
LEMMA GrownStep ==
    ASSUME NEW n \in 1..63, NEW t \in DOMAIN First, Rank[t] = n
    PROVE  /\ UpTo(n) = UpTo(n - 1) \cup {t} /\ t \notin UpTo(n - 1)
           /\ Targets(First[t].must \cup First[t].may \cup First[t].unset) \subseteq UpTo(n)
           /\ \A x \in UpTo(n) \ {t} :
                 t \notin Targets(First[x].must \cup First[x].may \cup First[x].unset)
<1>1. /\ \A x \in DOMAIN First : x \in DOMAIN Rank /\ Rank[x] \in 1..63
      /\ \A x \in DOMAIN First : Rank[x] = n => x = t
  BY FirstBackward, RankIs DEF Backward
<1>2. UpTo(n) = UpTo(n - 1) \cup {t} /\ t \notin UpTo(n - 1)
  BY <1>1 DEF UpTo
<1>3. \A x \in DOMAIN First :
        \A y \in Targets(First[x].must \cup First[x].may \cup First[x].unset) :
         y \in DOMAIN First /\ Rank[y] <= Rank[x]
  BY FirstBackward, RanksAreTables DEF Backward, Targets
<1>4. Targets(First[t].must \cup First[t].may \cup First[t].unset) \subseteq UpTo(n)
  BY <1>3 DEF UpTo
<1>5. \A x \in UpTo(n) \ {t} : Rank[x] < n
  BY <1>1 DEF UpTo
<1>6. \A x \in UpTo(n) \ {t} :
         t \notin Targets(First[x].must \cup First[x].may \cup First[x].unset)
  BY <1>1, <1>3, <1>5 DEF UpTo
<1> QED BY <1>2, <1>4, <1>6

LEMMA FirstUpgradeLeads == Leads(Upgrade0001, Database(<<>>, {}), Database(First, {}))
<1> DEFINE f == [i \in 0..63 |-> Grown(i)]
<1>1. ASSUME NEW i \in 1..63
      PROVE  /\ Fits(Upgrade0001[i], Grown(i - 1))
             /\ Grown(i) = After(Upgrade0001[i], Grown(i - 1))
  <2> DEFINE o == Upgrade0001[i]
  <2>1. o.op = "create" /\ o.table \in DOMAIN First /\ o.def = First[o.table] /\ Rank[o.table] = i
    <3>1. o \in Creates /\ Rank[o.table] = i
      BY FirstScript DEF Made
    <3>2. PICK t \in DOMAIN First : o = [op |-> "create", table |-> t, def |-> First[t]]
      BY <3>1 DEF Creates, Creation
    <3> HIDE DEF o
    <3> QED BY <3>1, <3>2
  <2> HIDE DEF o
  <2>2. /\ UpTo(i) = UpTo(i - 1) \cup {o.table} /\ o.table \notin UpTo(i - 1)
        /\ Targets(o.def.must \cup o.def.may \cup o.def.unset) \subseteq UpTo(i)
    <3>1. \A t \in DOMAIN First : Rank[t] = i =>
              /\ UpTo(i) = UpTo(i - 1) \cup {t} /\ t \notin UpTo(i - 1)
              /\ Targets(First[t].must \cup First[t].may \cup First[t].unset) \subseteq UpTo(i)
      BY GrownStep
    <3> QED BY <2>1, <3>1
  <2>3. Fits(o, Grown(i - 1))
    BY <2>1, <2>2 DEF Fits, Grown, Database
  <2>4. Merged([t \in UpTo(i - 1) |-> First[t]], [t \in {o.table} |-> o.def])
          = [t \in UpTo(i) |-> First[t]]
    BY <2>1, <2>2 DEF Merged
  <2>5. Grown(i) = After(o, Grown(i - 1))
    BY <2>1, <2>4 DEF After, Grown, Database
  <2> QED BY <2>3, <2>5 DEF o
<1>2. \A i \in 1..63 : i - 1 \in 0..63 /\ i \in 0..63
  OBVIOUS
<1>3. Route(f, Upgrade0001, Database(<<>>, {}), Database(First, {}))
  BY <1>1, <1>2, GrownBounds, FirstScript DEF Route
<1> QED BY <1>3 DEF Leads

\* The downgrade drops the tables in the opposite order.
LEMMA DropsAre ==
    /\ Downgrade0001 \in Seq({DropTable(t) : t \in DOMAIN First}) /\ Len(Downgrade0001) = 63
    /\ \A i \in 1..63 : \E t \in DOMAIN First :
            Downgrade0001[i] = DropTable(t) /\ Rank[t] = 64 - i
<1>1. \A i \in 1..29 : Drop1[i] \in DOMAIN Rank /\ Rank[Drop1[i]] = 64 - i
  BY DEF Drop1, Rank
<1>2. \A i \in 1..34 : Drop2[i] \in DOMAIN Rank /\ Rank[Drop2[i]] = 35 - i
  BY DEF Drop2, Rank
<1>3. Drop1 \in Seq(DOMAIN Rank) /\ Len(Drop1) = 29 /\ Drop2 \in Seq(DOMAIN Rank) /\ Len(Drop2) = 34
  <2>1. Len(Drop1) = 29 /\ Drop1 = [i \in 1..29 |-> Drop1[i]]
    BY DEF Drop1
  <2>2. Len(Drop2) = 34 /\ Drop2 = [i \in 1..34 |-> Drop2[i]]
    BY DEF Drop2
  <2> QED BY <1>1, <1>2, <2>1, <2>2
<1> DEFINE all == Drop1 \o Drop2
<1>4. \A i \in 1..63 : all[i] = IF i <= 29 THEN Drop1[i] ELSE Drop2[i - 29]
  <2>1. \A i \in 1..(Len(Drop1) + Len(Drop2)) :
            all[i] = IF i <= Len(Drop1) THEN Drop1[i] ELSE Drop2[i - Len(Drop1)]
    <3>1. \A S : \A s, u \in Seq(S) : \A i \in 1..(Len(s) + Len(u)) :
              (s \o u)[i] = IF i <= Len(s) THEN s[i] ELSE u[i - Len(s)]
      BY ConcatProperties, Zenon
    <3> QED BY <3>1, <1>3, Zenon
  <2> HIDE DEF all
  <2>2. Len(Drop1) + Len(Drop2) = 63
    BY <1>3
  <2>3. Len(Drop1) = 29
    BY <1>3
  <2> QED BY <2>1, <2>2, <2>3
<1> HIDE DEF all
<1>5. ASSUME NEW i \in 1..63 PROVE all[i] \in DOMAIN First /\ Rank[all[i]] = 64 - i
  <2>1. CASE i <= 29
    BY <2>1, <1>1, <1>4, RanksAreTables
  <2>2. CASE i > 29
    <3>1. i - 29 \in 1..34 /\ 35 - (i - 29) = 64 - i
      BY <2>2
    <3> QED BY <2>2, <3>1, <1>2, <1>4, RanksAreTables
  <2> QED BY <2>1, <2>2
<1>6. Downgrade0001 = [i \in 1..63 |-> DropTable(all[i])]
  BY <1>3 DEF Downgrade0001, all
<1>7. \A i \in 1..63 : Downgrade0001[i] = DropTable(all[i])
  BY <1>6
<1>8. Downgrade0001 \in Seq({DropTable(t) : t \in DOMAIN First}) /\ Len(Downgrade0001) = 63
  <2> DEFINE D == {DropTable(t) : t \in DOMAIN First}
  <2>1. \A i \in 1..63 : DropTable(all[i]) \in D
    BY <1>5
  <2> HIDE DEF D
  <2>2. Downgrade0001 \in [1..63 -> D]
    BY <1>6, <2>1
  <2>3. Downgrade0001 \in Seq(D)
    <3>1. \E n \in Nat : Downgrade0001 \in [1..n -> D]
      BY <2>2
    <3> QED BY <3>1, SeqDef, Zenon
  <2>4. Len(Downgrade0001) = 63
    BY <2>2, <2>3, LenProperties
  <2> QED BY <2>3, <2>4, Zenon DEF D
<1>9. \A i \in 1..63 : \E t \in DOMAIN First :
            Downgrade0001[i] = DropTable(t) /\ Rank[t] = 64 - i
  BY <1>5, <1>7
<1> QED BY <1>8, <1>9, Zenon

LEMMA FirstDowngradeLeads == Leads(Downgrade0001, Database(First, {}), Database(<<>>, {}))
<1> DEFINE f == [i \in 0..63 |-> Grown(63 - i)]
<1>1. ASSUME NEW i \in 1..63
      PROVE  /\ Fits(Downgrade0001[i], Grown(64 - i))
             /\ Grown(63 - i) = After(Downgrade0001[i], Grown(64 - i))
  <2>1. PICK t \in DOMAIN First : Downgrade0001[i] = DropTable(t) /\ Rank[t] = 64 - i
    BY DropsAre
  <2> DEFINE o == Downgrade0001[i]
  <2>2. o.op = "drop" /\ o.table = t
    BY <2>1 DEF DropTable
  <2>3. 64 - i \in 1..63 /\ (64 - i) - 1 = 63 - i
    OBVIOUS
  <2> HIDE DEF o
  <2>4. /\ UpTo(64 - i) = UpTo(63 - i) \cup {t} /\ t \notin UpTo(63 - i)
        /\ \A x \in UpTo(64 - i) \ {t} :
              t \notin Targets(First[x].must \cup First[x].may \cup First[x].unset)
    <3>1. \A n \in 1..63 : Rank[t] = n =>
              /\ UpTo(n) = UpTo(n - 1) \cup {t} /\ t \notin UpTo(n - 1)
              /\ \A x \in UpTo(n) \ {t} :
                    t \notin Targets(First[x].must \cup First[x].may \cup First[x].unset)
      BY GrownStep, Zenon
    <3> QED BY <2>1, <2>3, <3>1, Zenon
  <2>5. Fits(o, Grown(64 - i))
    BY <2>2, <2>4 DEF Fits, Grown, Database, References, Cascading
  <2>6. [x \in UpTo(64 - i) \ {t} |-> [y \in UpTo(64 - i) |-> First[y]][x]]
          = [x \in UpTo(63 - i) |-> First[x]]
    BY <2>4
  <2>7. Grown(63 - i) = After(o, Grown(64 - i))
    BY <2>2, <2>6 DEF After, Grown, Database
  <2> QED BY <2>5, <2>7 DEF o
<1>2. \A i \in 1..63 : f[i - 1] = Grown(64 - i) /\ f[i] = Grown(63 - i)
  <2>1. \A i \in 1..63 : i \in 0..63 /\ i - 1 \in 0..63 /\ 63 - (i - 1) = 64 - i
    OBVIOUS
  <2> QED BY <2>1
<1>3. f[0] = Grown(63) /\ f[63] = Grown(0)
  OBVIOUS
<1> HIDE DEF f
<1>4. Route(f, Downgrade0001, Database(First, {}), Database(<<>>, {}))
  <2>1. Len(Downgrade0001) = 63
    BY DropsAre
  <2>2. f[0] = Database(First, {}) /\ f[63] = Database(<<>>, {})
    BY <1>3, GrownBounds
  <2>3. \A i \in 1..63 : /\ Fits(Downgrade0001[i], f[i - 1])
                         /\ f[i] = After(Downgrade0001[i], f[i - 1])
    BY <1>1, <1>2, SMTT(30)
  <2> QED BY <2>1, <2>2, <2>3, Zenon DEF Route
<1> QED BY <1>4 DEF Leads

-----------------------------------------------------------------------------
(* Revision 0002.                                                          *)

AllColumns == {<<"jobs", c>> : c \in LateJobColumns}
                \cup {<<"dataset_versions", c>> : c \in LateVersionColumns}

\* The operation of the upgrade that adds a column, and the one of the downgrade that drops it.
Added == [timeout_seconds |-> 1, dispatched_at |-> 2, dispatch_attempts |-> 3, dispatch_slot |-> 4,
          dispatch_error |-> 5, runner_url |-> 6, upload_id |-> 8, upload_meta |-> 9]
Dropped == [upload_meta |-> 1, upload_id |-> 2, runner_url |-> 5, dispatch_error |-> 6,
            dispatch_slot |-> 7, dispatch_attempts |-> 8, dispatched_at |-> 9,
            timeout_seconds |-> 10]

AtHead == Database(Declared, AllColumns)

LEMMA TrunkTables ==
    /\ "jobs" \in DOMAIN First /\ "dataset_versions" \in DOMAIN First /\ First["jobs"] = FirstJobs
    /\ "jobs" \in DOMAIN Declared /\ "dataset_versions" \in DOMAIN Declared
    /\ Declared["jobs"] = JobTables.jobs
<1>1. "jobs" \in DOMAIN FirstJobTables /\ "dataset_versions" \in DOMAIN DatasetTables
  BY DEF FirstJobTables, DatasetTables
<1>2. "jobs" \in DOMAIN First /\ "dataset_versions" \in DOMAIN First
  BY <1>1, FirstCovers DEF Covers
<1>3. Declared["jobs"] = JobTables.jobs
  <2>1. "jobs" \in DOMAIN JobTables
    BY DEF JobTables
  <2> DEFINE a == Merged(IdentityTables, DatasetTables)  b == Merged(AuditTables, ModelTables)
             c == Merged(FindingTables, CourtTables)     d == Merged(ReviewTables, WhatIfTables)
             e == Merged(GovernanceTables, JobTables)
  <2>2. "jobs" \notin DOMAIN a /\ "jobs" \notin DOMAIN b /\ "jobs" \notin DOMAIN c
        /\ "jobs" \notin DOMAIN d /\ "jobs" \in DOMAIN e /\ e["jobs"] = JobTables["jobs"]
    BY <2>1, GroupsDisjoint DEF Merged
  <2>3. Declared = Merged(Merged(Merged(a, b), Merged(c, d)), e)
    BY DEF Declared
  <2> HIDE DEF a, b, c, d, e
  <2>4. "jobs" \notin DOMAIN Merged(Merged(a, b), Merged(c, d))
    BY <2>2 DEF Merged
  <2> QED BY <2>2, <2>3, <2>4 DEF Merged
<1> QED BY <1>2, <1>3 DEF First

\* Exchanging the CHECK of jobs.type leads from one schema to the other.
LEMMA CheckExchanged ==
    Checked(First, JobTypesV2) = Declared /\ Checked(Declared, JobTypesV1) = First
<1> DEFINE Jobs(types) == Table({}, {<<"org_id", "organizations">>}, {}, {{"idempotency_key"}},
                                {<<"job_type", types>>, <<"job_status", RunStatus>>})
           one == First["jobs"]  two == Declared["jobs"]
<1>1. one = Jobs(JobTypesV1) /\ two = Jobs(JobTypesV2)
  <2>1. JobType = JobTypesV2
    BY DEF JobType, JobTypesV1, JobTypesV2
  <2> QED BY <2>1, TrunkTables DEF FirstJobs, JobTables
<1>2. \A types, other : {c \in Jobs(types).checks : c[1] # "job_type"} \cup {<<"job_type", other>>}
                            = Jobs(other).checks
  BY DEF Table
<1>3. \A types, other : [Jobs(types) EXCEPT !.checks = Jobs(other).checks] = Jobs(other)
  <2>1. \A must, may, unset, keys, checks, new :
            [Table(must, may, unset, keys, checks) EXCEPT !.checks = new]
              = Table(must, may, unset, keys, new)
    BY DEF Table
  <2>2. \A other : Jobs(other).checks = {<<"job_type", other>>, <<"job_status", RunStatus>>}
    BY DEF Table
  <2> QED BY <2>1, <2>2
<1> HIDE DEF Jobs, one, two
<1>4. [one EXCEPT !.checks = {c \in @ : c[1] # "job_type"} \cup {<<"job_type", JobTypesV2>>}] = two
  BY <1>1, <1>2, <1>3
<1>5. [two EXCEPT !.checks = {c \in @ : c[1] # "job_type"} \cup {<<"job_type", JobTypesV1>>}] = one
  BY <1>1, <1>2, <1>3
<1>f. Declared = [t \in DOMAIN Declared |-> Declared[t]]
  <2>1. \A some, others : LET all == Merged(some, others) IN all = [t \in DOMAIN all |-> all[t]]
    BY DEF Merged
  <2> QED BY <2>1 DEF Declared
<1>t. /\ "jobs" \in DOMAIN Declared /\ one = FirstJobs
      /\ First = [t \in DOMAIN Declared |-> IF t = "jobs" THEN FirstJobs ELSE Declared[t]]
  BY TrunkTables DEF First, one
<1>6. [First EXCEPT !["jobs"] = two] = Declared
  BY <1>f, <1>t DEF two
<1>7. [Declared EXCEPT !["jobs"] = one] = First
  BY <1>f, <1>t
<1>8. /\ Checked(First, JobTypesV2) =
            [First EXCEPT !["jobs"] =
                [one EXCEPT !.checks = {c \in @ : c[1] # "job_type"} \cup {<<"job_type", JobTypesV2>>}]]
      /\ Checked(Declared, JobTypesV1) =
            [Declared EXCEPT !["jobs"] =
                [two EXCEPT !.checks = {c \in @ : c[1] # "job_type"} \cup {<<"job_type", JobTypesV1>>}]]
  BY DEF Checked, one, two
<1> QED BY <1>4, <1>5, <1>6, <1>7, <1>8

LEMMA SecondUpgradeLeads == Leads(Upgrade0002, Database(First, {}), AtHead)
<1> DEFINE Cols(n) == {p \in AllColumns : Added[p[2]] <= n}
           Stage(n) == Database(IF n < 7 THEN First ELSE Declared, Cols(n))
           f == [i \in 0..9 |-> Stage(i)]
<1>1. Cols(0) = {} /\ Cols(9) = AllColumns
  BY DEF AllColumns, LateJobColumns, LateVersionColumns, Added
<1>2. ASSUME NEW i \in {1, 2, 3, 4, 5, 6, 8, 9}
      PROVE  /\ Upgrade0002[i].op = "add_column"
             /\ Upgrade0002[i].table \in {"jobs", "dataset_versions"}
             /\ <<Upgrade0002[i].table, Upgrade0002[i].column>> \notin Cols(i - 1)
             /\ Cols(i) = Cols(i - 1) \cup {<<Upgrade0002[i].table, Upgrade0002[i].column>>}
  BY DEF Upgrade0002, AddColumn, AllColumns, LateJobColumns, LateVersionColumns, Added
<1>3. Upgrade0002[7] = [op |-> "check", table |-> "jobs", values |-> JobTypesV2] /\ Cols(7) = Cols(6)
  BY DEF Upgrade0002, JobTypeCheck, AllColumns, LateJobColumns, LateVersionColumns, Added
<1> HIDE DEF Cols
<1>4. ASSUME NEW i \in 1..9
      PROVE  Fits(Upgrade0002[i], Stage(i - 1)) /\ Stage(i) = After(Upgrade0002[i], Stage(i - 1))
  <2>1. CASE i = 7
    BY <2>1, <1>3, CheckExchanged DEF Fits, After, Database
  <2>2. CASE i # 7
    <3>1. i \in {1, 2, 3, 4, 5, 6, 8, 9} /\ (i - 1 < 7 <=> i < 7)
      BY <2>2
    <3>2. Fits(Upgrade0002[i], Stage(i - 1))
      BY <3>1, <1>2, TrunkTables DEF Fits, Database
    <3>3. Stage(i) = After(Upgrade0002[i], Stage(i - 1))
      BY <3>1, <1>2 DEF After, Database
    <3> QED BY <3>2, <3>3
  <2> QED BY <2>1, <2>2
<1>5. Len(Upgrade0002) = 9
  BY DEF Upgrade0002
<1>6. f[0] = Database(First, {}) /\ f[9] = AtHead
  BY <1>1 DEF AtHead
<1>7. \A i \in 1..9 : f[i - 1] = Stage(i - 1) /\ f[i] = Stage(i)
  OBVIOUS
<1> HIDE DEF f, Stage
<1>8. Route(f, Upgrade0002, Database(First, {}), AtHead)
  BY <1>4, <1>5, <1>6, <1>7 DEF Route
<1> QED BY <1>8 DEF Leads

LEMMA SecondDowngradeLeads == Leads(Downgrade0002, AtHead, Database(First, {}))
<1> DEFINE Cols(n) == {p \in AllColumns : Dropped[p[2]] > n}
           Stage(n) == Database(IF n < 4 THEN Declared ELSE First, Cols(n))
           f == [i \in 0..10 |-> Stage(i)]
<1>1. Cols(0) = AllColumns /\ Cols(10) = {}
  BY DEF AllColumns, LateJobColumns, LateVersionColumns, Dropped
<1>2. ASSUME NEW i \in {1, 2, 5, 6, 7, 8, 9, 10}
      PROVE  /\ Downgrade0002[i].op = "drop_column"
             /\ <<Downgrade0002[i].table, Downgrade0002[i].column>> \in Cols(i - 1)
             /\ Cols(i) = Cols(i - 1) \ {<<Downgrade0002[i].table, Downgrade0002[i].column>>}
  BY DEF Downgrade0002, DropColumn, AllColumns, LateJobColumns, LateVersionColumns, Dropped
<1>3. Downgrade0002[4] = [op |-> "check", table |-> "jobs", values |-> JobTypesV1]
      /\ Downgrade0002[3].op = "delete_purges" /\ Cols(3) = Cols(2) /\ Cols(4) = Cols(3)
  BY DEF Downgrade0002, JobTypeCheck, AllColumns, LateJobColumns, LateVersionColumns, Dropped
<1> HIDE DEF Cols
<1>4. ASSUME NEW i \in 1..10
      PROVE  /\ Fits(Downgrade0002[i], Stage(i - 1))
             /\ Stage(i) = After(Downgrade0002[i], Stage(i - 1))
  <2>1. CASE i = 4
    BY <2>1, <1>3, CheckExchanged DEF Fits, After, Database
  <2>2. CASE i = 3
    BY <2>2, <1>3 DEF Fits, After, Database
  <2>3. CASE i # 3 /\ i # 4
    <3>1. i \in {1, 2, 5, 6, 7, 8, 9, 10} /\ (i - 1 < 4 <=> i < 4)
      BY <2>3
    <3>2. Fits(Downgrade0002[i], Stage(i - 1))
      BY <3>1, <1>2 DEF Fits, Database
    <3>3. Stage(i) = After(Downgrade0002[i], Stage(i - 1))
      BY <3>1, <1>2 DEF After, Database
    <3> QED BY <3>2, <3>3
  <2> QED BY <2>1, <2>2, <2>3
<1>5. Len(Downgrade0002) = 10
  BY DEF Downgrade0002
<1>6. f[0] = AtHead /\ f[10] = Database(First, {})
  BY <1>1 DEF AtHead
<1>7. \A i \in 1..10 : f[i - 1] = Stage(i - 1) /\ f[i] = Stage(i)
  OBVIOUS
<1> HIDE DEF f, Stage
<1>8. Route(f, Downgrade0002, AtHead, Database(First, {}))
  BY <1>4, <1>5, <1>6, <1>7 DEF Route
<1> QED BY <1>8 DEF Leads

-----------------------------------------------------------------------------
(* The scripts alembic runs, and the database at each revision.            *)

Ideal(r) == CASE r = "none" -> Database(<<>>, {})
              [] r = "0001" -> Database(First, {})
              [] r = "0002" -> AtHead

Reached(current, target) == IF Script(current, target) = <<>> THEN current ELSE target

LEMMA SecondScript ==
    /\ Upgrade0002 \in Seq({Upgrade0002[i] : i \in 1..9}) /\ Len(Upgrade0002) = 9
    /\ Downgrade0002 \in Seq({Downgrade0002[i] : i \in 1..10}) /\ Len(Downgrade0002) = 10
<1>1. Upgrade0002 = [i \in 1..9 |-> Upgrade0002[i]] /\ Len(Upgrade0002) = 9
  BY DEF Upgrade0002
<1>2. Downgrade0002 = [i \in 1..10 |-> Downgrade0002[i]] /\ Len(Downgrade0002) = 10
  BY DEF Downgrade0002
<1> DEFINE U == {Upgrade0002[i] : i \in 1..9}  D == {Downgrade0002[i] : i \in 1..10}
<1>3. (\A i \in 1..9 : Upgrade0002[i] \in U) /\ (\A i \in 1..10 : Downgrade0002[i] \in D)
  OBVIOUS
<1> HIDE DEF U, D
<1>4. Upgrade0002 \in [1..9 -> U] /\ Downgrade0002 \in [1..10 -> D]
  BY <1>1, <1>2, <1>3
<1>5. Upgrade0002 \in Seq(U)
  <2>1. \E n \in Nat : Upgrade0002 \in [1..n -> U]
    BY <1>4
  <2> QED BY <2>1, SeqDef, Zenon
<1>6. Downgrade0002 \in Seq(D)
  <2>1. \E n \in Nat : Downgrade0002 \in [1..n -> D]
    BY <1>4
  <2> QED BY <2>1, SeqDef, Zenon
<1> QED BY <1>1, <1>2, <1>5, <1>6 DEF U, D

\* Two scripts as sequences over one set, so that they can be joined.
LEMMA Joinable ==
    ASSUME NEW S, NEW T, NEW s \in Seq(S), NEW u \in Seq(T)
    PROVE  /\ s \in Seq(S \cup T) /\ u \in Seq(S \cup T)
           /\ Len(s \o u) = Len(s) + Len(u) /\ Len(s) \in Nat /\ Len(u) \in Nat
           /\ \A i \in 1..(Len(s) + Len(u)) :
                 (s \o u)[i] = IF i <= Len(s) THEN s[i] ELSE u[i - Len(s)]
<1>1. s \in Seq(S \cup T) /\ u \in Seq(S \cup T)
  BY SeqMonotonic
<1> DEFINE W == S \cup T
<1>2. s \in Seq(W) /\ u \in Seq(W)
  BY <1>1
<1> HIDE DEF W
<1>3. /\ Len(s \o u) = Len(s) + Len(u) /\ Len(s) \in Nat /\ Len(u) \in Nat
      /\ \A i \in 1..(Len(s) + Len(u)) :
            (s \o u)[i] = IF i <= Len(s) THEN s[i] ELSE u[i - Len(s)]
  BY <1>2, ConcatProperties, LenProperties
<1> QED BY <1>1, <1>3

\* What the CHECK operations of a script are: all are about jobs.
ChecksOnJobs(s) == \A i \in 1..Len(s) : s[i].op = "check" => s[i].table = "jobs"

LEMMA ScriptIs ==
    ASSUME NEW current \in Revision, NEW target \in Revision
    PROVE  LET s == Script(current, target) IN
           /\ Len(s) \in Nat /\ (s = <<>> <=> Len(s) = 0)
           /\ Leads(s, Ideal(current), Ideal(Reached(current, target)))
           /\ ChecksOnJobs(s)
           /\ s # <<>> /\ target = "0001" => s = Downgrade0002
           /\ Reached(current, target) \in Revision
<1> DEFINE s == Script(current, target)
<1>0. /\ Leads(<<>>, Ideal(current), Ideal(current)) /\ ChecksOnJobs(<<>>) /\ Len(<<>>) = 0
  <2> DEFINE f == [i \in {0} |-> Ideal(current)]
  <2>1. Route(f, <<>>, Ideal(current), Ideal(current))
    BY DEF Route
  <2> HIDE DEF f
  <2> QED BY <2>1 DEF Leads, ChecksOnJobs
<1>1. ChecksOnJobs(Upgrade0001) /\ ChecksOnJobs(Downgrade0001)
  <2>1. \A i \in 1..63 : Upgrade0001[i].op = "create"
    <3>1. \A o \in Creates : o.op = "create"
      BY DEF Creates, Creation
    <3> QED BY <3>1, FirstScript DEF Made
  <2>2. \A i \in 1..63 : Downgrade0001[i].op = "drop"
    <3>1. \A t : DropTable(t).op = "drop"
      BY DEF DropTable
    <3>2. \A i \in 1..63 : \E t \in DOMAIN First :
              Downgrade0001[i] = DropTable(t) /\ Rank[t] = 64 - i
      BY DropsAre, Zenon
    <3> QED BY <3>1, <3>2
  <2>3. Len(Upgrade0001) = 63 /\ Len(Downgrade0001) = 63
    BY FirstScript, DropsAre, Zenon
  <2> QED BY <2>1, <2>2, <2>3 DEF ChecksOnJobs
<1>2. ChecksOnJobs(Upgrade0002) /\ ChecksOnJobs(Downgrade0002)
  BY SecondScript DEF ChecksOnJobs, Upgrade0002, Downgrade0002, AddColumn, DropColumn, JobTypeCheck
<1>3. ASSUME NEW S, NEW T, NEW a \in Seq(S), NEW b \in Seq(T), ChecksOnJobs(a), ChecksOnJobs(b)
      PROVE  ChecksOnJobs(a \o b)
  <2>1. /\ Len(a \o b) = Len(a) + Len(b) /\ Len(a) \in Nat /\ Len(b) \in Nat
        /\ \A i \in 1..(Len(a) + Len(b)) :
              (a \o b)[i] = IF i <= Len(a) THEN a[i] ELSE b[i - Len(a)]
    BY Joinable
  <2>2. \A i \in 1..(Len(a) + Len(b)) : i <= Len(a) => i \in 1..Len(a)
    BY <2>1
  <2>3. \A i \in 1..(Len(a) + Len(b)) : ~(i <= Len(a)) => i - Len(a) \in 1..Len(b)
    BY <2>1
  <2> QED BY <2>1, <2>2, <2>3, <1>3 DEF ChecksOnJobs
<1> DEFINE up == Upgrade0001 \o Upgrade0002  down == Downgrade0002 \o Downgrade0001
           E1 == {DropTable(t) : t \in DOMAIN First}
           U2 == {Upgrade0002[i] : i \in 1..9}  D2 == {Downgrade0002[i] : i \in 1..10}
<1>4. /\ Upgrade0001 \in Seq(Creates) /\ Downgrade0001 \in Seq(E1)
      /\ Upgrade0002 \in Seq(U2) /\ Downgrade0002 \in Seq(D2)
  BY FirstScript, SecondScript, DropsAre
<1> HIDE DEF E1, U2, D2
<1>5. Len(up) = 72 /\ Len(down) = 73
  <2>1. Len(up) = Len(Upgrade0001) + Len(Upgrade0002)
    BY <1>4, Joinable
  <2>2. Len(down) = Len(Downgrade0002) + Len(Downgrade0001)
    BY <1>4, Joinable
  <2> HIDE DEF up, down
  <2> QED BY <2>1, <2>2, FirstScript, SecondScript, DropsAre
<1>6. Leads(up, Database(<<>>, {}), AtHead) /\ Leads(down, AtHead, Database(<<>>, {}))
  <2>1. /\ Upgrade0001 \in Seq(Creates \cup U2) /\ Upgrade0002 \in Seq(Creates \cup U2)
        /\ Downgrade0002 \in Seq(D2 \cup E1) /\ Downgrade0001 \in Seq(D2 \cup E1)
    BY <1>4, Joinable
  <2>2. Leads(up, Database(<<>>, {}), AtHead)
    BY <2>1, FirstUpgradeLeads, SecondUpgradeLeads, RoutesJoin
  <2>3. Leads(down, AtHead, Database(<<>>, {}))
    BY <2>1, FirstDowngradeLeads, SecondDowngradeLeads, RoutesJoin
  <2> QED BY <2>2, <2>3
<1>7. ChecksOnJobs(up) /\ ChecksOnJobs(down)
  BY <1>1, <1>2, <1>3, <1>4
<1> HIDE DEF up, down
<1>8. /\ Len(Upgrade0002) = 9 /\ Len(Downgrade0002) = 10 /\ Len(Downgrade0001) = 63
  BY SecondScript, DropsAre
<1>9. CASE current = "none" /\ target = "0002"
  <2>1. s = up
    BY <1>9 DEF Script, up
  <2> QED BY <1>9, <2>1, <1>5, <1>6, <1>7, <1>0 DEF Ideal, Reached, Revision
<1>10. CASE current = "0001" /\ target = "0002"
  <2>1. s = Upgrade0002
    BY <1>10 DEF Script
  <2> QED BY <1>10, <2>1, <1>8, <1>2, <1>0, SecondUpgradeLeads DEF Ideal, Reached, Revision
<1>11. CASE current = "0002" /\ target = "0001"
  <2>1. s = Downgrade0002
    BY <1>11 DEF Script
  <2> QED BY <1>11, <2>1, <1>8, <1>2, <1>0, SecondDowngradeLeads DEF Ideal, Reached, Revision
<1>12. CASE current = "0002" /\ target = "none"
  <2>1. s = down
    BY <1>12 DEF Script, down
  <2> QED BY <1>12, <2>1, <1>5, <1>6, <1>7, <1>0 DEF Ideal, Reached, Revision
<1>13. CASE current = "0001" /\ target = "none"
  <2>1. s = Downgrade0001
    BY <1>13 DEF Script
  <2> QED BY <1>13, <2>1, <1>8, <1>1, <1>0, FirstDowngradeLeads DEF Ideal, Reached, Revision
<1>14. CASE /\ ~(current = "none" /\ target = "0002") /\ ~(current = "0001" /\ target = "0002")
            /\ ~(current = "0002" /\ target = "0001") /\ ~(current = "0002" /\ target = "none")
            /\ ~(current = "0001" /\ target = "none")
  <2>1. s = <<>>
    BY <1>14 DEF Script
  <2> QED BY <2>1, <1>0 DEF Reached, Revision
<1> QED BY <1>9, <1>10, <1>11, <1>12, <1>13, <1>14

-----------------------------------------------------------------------------
(* The invariant.                                                          *)

MigratorState == [phase : {"idle", "waiting", "working", "rejected"},
                  target : Revision, saw : Revision]

\* The committed database is the one of its revision; only at head are there purge jobs.
CommittedInv ==
    /\ revision \in Revision
    /\ Database(tables, columns) = Ideal(revision)
    /\ purge_rows # {} => revision = "0002"

\* The open transaction has the database to which the operations done so far lead, on the way
\* from the committed one to that of its target; a CHECK it has narrowed holds of every row
\* that it leaves.
WorkInv ==
    InProgress =>
        /\ work = [by |-> work.by, target |-> work.target, script |-> work.script,
                   step |-> work.step, tables |-> work.tables, columns |-> work.columns,
                   deleted |-> work.deleted]
        /\ work.by \in Migrators /\ work.target \in Revision
        /\ work.script = Script(revision, work.target)
        /\ work.step \in 1..(Len(work.script) + 1)
        /\ \E f : /\ Route(f, work.script, Ideal(revision), Ideal(Reached(revision, work.target)))
                  /\ f[work.step - 1] = Database(work.tables, work.columns)
        /\ \A i \in 1..(work.step - 1) :
              work.script[i].op = "check" /\ "purge_prefix" \notin work.script[i].values
                  => purge_rows \subseteq work.deleted

MigrationInv == mig \in [Migrators -> MigratorState] /\ CommittedInv /\ WorkInv

LEMMA MigrationInvInit == MigrationInit => MigrationInv
<1> SUFFICES ASSUME MigrationInit PROVE MigrationInv
  OBVIOUS
<1>1. mig \in [Migrators -> MigratorState]
  BY DEF MigrationInit, NoMigrator, MigratorState, Revision
<1>2. CommittedInv
  BY DEF MigrationInit, CommittedInv, Ideal, Revision
<1>3. WorkInv
  BY DEF MigrationInit, WorkInv, InProgress, NoWork
<1> QED BY <1>1, <1>2, <1>3 DEF MigrationInv

\* Purge jobs are admitted at head only.
LEMMA PurgesNeedHead ==
    ASSUME CommittedInv, "jobs" \in DOMAIN tables,
           \E c \in tables["jobs"].checks : c[1] = "job_type" /\ "purge_prefix" \in c[2]
    PROVE  revision = "0002"
<1>1. revision # "none"
  BY DEF CommittedInv, Ideal, Database
<1>2. revision # "0001"
  <2> SUFFICES ASSUME revision = "0001" PROVE FALSE
    OBVIOUS
  <2>1. tables["jobs"] = FirstJobs
    BY TrunkTables DEF CommittedInv, Ideal, Database
  <2>2. FirstJobs.checks = {<<"job_type", JobTypesV1>>, <<"job_status", RunStatus>>}
    BY DEF FirstJobs, Table
  <2>3. "purge_prefix" \notin JobTypesV1
    BY DEF JobTypesV1
  <2> QED BY <2>1, <2>2, <2>3
<1> QED BY <1>1, <1>2 DEF CommittedInv, Revision

LEMMA EnqueueStep ==
    ASSUME MigrationInv, NEW p \in Purges, EnqueuePurge(p)
    PROVE  MigrationInv'
<1>1. revision = "0002" /\ purge_rows' = purge_rows \cup {p} /\ ~JobsLocked
      /\ UNCHANGED <<revision, tables, columns, mig, work>>
  BY PurgesNeedHead DEF MigrationInv, EnqueuePurge
<1>2. CommittedInv'
  BY <1>1 DEF MigrationInv, CommittedInv
<1>3. WorkInv'
  <2> SUFFICES ASSUME InProgress PROVE WorkInv'
    BY <1>1 DEF WorkInv, InProgress
  <2>1. ChecksOnJobs(work.script) /\ Len(work.script) \in Nat
    BY ScriptIs DEF MigrationInv, CommittedInv, WorkInv
  <2>2. \A i \in 1..(work.step - 1) : i \in 1..Len(work.script)
    BY <2>1 DEF MigrationInv, WorkInv
  <2>3. \A i \in 1..(work.step - 1) : work.script[i].op # "check"
    BY <1>1, <2>1, <2>2 DEF JobsLocked, ChecksOnJobs
  <2> QED BY <1>1, <2>3 DEF MigrationInv, WorkInv
<1> QED BY <1>1, <1>2, <1>3 DEF MigrationInv

LEMMA ConnectStep ==
    ASSUME MigrationInv, NEW x \in Migrators, NEW target \in Revision, Connect(x, target)
    PROVE  MigrationInv'
<1>1. mig' \in [Migrators -> MigratorState]
  BY DEF Connect, MigrationInv, CommittedInv, MigratorState
<1>2. CommittedInv' /\ WorkInv'
  BY DEF Connect, MigrationInv, CommittedInv, WorkInv, InProgress
<1> QED BY <1>1, <1>2 DEF MigrationInv

LEMMA BeginStep ==
    ASSUME MigrationInv, NEW x \in Migrators, LockThenRead(x)
    PROVE  MigrationInv'
<1> DEFINE target == mig[x].target  s == Script(revision, target)
<1>1. /\ work' = [by |-> x, target |-> target, script |-> s, step |-> 1, tables |-> tables,
                  columns |-> columns, deleted |-> {}]
      /\ mig' = [mig EXCEPT ![x].phase = "working"]
      /\ UNCHANGED <<revision, tables, columns, purge_rows>>
  BY DEF LockThenRead, Begin
<1>2. target \in Revision /\ mig' \in [Migrators -> MigratorState]
  BY <1>1 DEF MigrationInv, MigratorState
<1>3. CommittedInv'
  BY <1>1 DEF MigrationInv, CommittedInv
<1>4. Len(s) \in Nat /\ Leads(s, Ideal(revision), Ideal(Reached(revision, target)))
  BY <1>2, ScriptIs DEF MigrationInv, CommittedInv
<1>5. PICK f : Route(f, s, Ideal(revision), Ideal(Reached(revision, target)))
  BY <1>4 DEF Leads
<1>6. f[0] = Database(tables, columns)
  BY <1>5 DEF Route, MigrationInv, CommittedInv
<1> HIDE DEF target, s
<1>7. /\ work'.by = x /\ work'.target = target /\ work'.script = s /\ work'.step = 1
      /\ work'.tables = tables /\ work'.columns = columns /\ work'.deleted = {}
  BY <1>1
<1>8. \E h : /\ Route(h, s, Ideal(revision), Ideal(Reached(revision, target)))
             /\ h[work'.step - 1] = Database(tables, columns)
  BY <1>5, <1>6, <1>7
<1>9. s = Script(revision, target)
  BY DEF s
<1>10. WorkInv'
  BY <1>1, <1>2, <1>4, <1>7, <1>8, <1>9 DEF WorkInv
<1> QED BY <1>2, <1>3, <1>10 DEF MigrationInv

LEMMA OperationStep ==
    ASSUME MigrationInv, NEW x \in Migrators, ApplyOperation(x)
    PROVE  MigrationInv'
<1> DEFINE o == work.script[work.step]  n == work.step
           goal == Ideal(Reached(revision, work.target))
<1>0. InProgress /\ x = work.by
  BY MigrationAssumption DEF ApplyOperation, InProgress
<1>1. /\ work.script = Script(revision, work.target) /\ work.target \in Revision
      /\ n \in 1..Len(work.script)
  <2>1. Len(work.script) \in Nat
    BY <1>0, ScriptIs DEF MigrationInv, CommittedInv, WorkInv
  <2> QED BY <1>0, <2>1 DEF MigrationInv, WorkInv, ApplyOperation
<1>2. PICK f : Route(f, work.script, Ideal(revision), goal)
               /\ f[n - 1] = Database(work.tables, work.columns)
  BY <1>0 DEF MigrationInv, WorkInv
<1>3. Fits(o, f[n - 1]) /\ f[n] = After(o, f[n - 1])
  BY <1>1, <1>2 DEF Route
<1>4. Fits(o, work) /\ f[n] = Database(TablesAfter(o), ColumnsAfter(o))
  <2>1. f[n - 1].tables = work.tables /\ f[n - 1].columns = work.columns
    BY <1>2 DEF Database
  <2> HIDE DEF o, n
  <2>2. Fits(o, work)
    BY <1>3, <2>1 DEF Fits
  <2>3. f[n] = Database(After(o, work).tables, After(o, work).columns)
    BY <1>3, <2>1 DEF After, Database
  <2> QED BY <2>2, <2>3, WorkIs
<1>5. CommittedInv'
  BY DEF ApplyOperation, MigrationInv, CommittedInv
<1>6. CASE Possible(o)
  <2>1. /\ work' = [work EXCEPT !.step = n + 1, !.tables = TablesAfter(o),
                                !.columns = ColumnsAfter(o),
                                !.deleted = IF o.op = "delete_purges" THEN purge_rows ELSE @]
        /\ UNCHANGED <<mig, revision, tables, columns, purge_rows>>
    BY <1>6 DEF ApplyOperation
  <2>2. work = [by |-> work.by, target |-> work.target, script |-> work.script,
                step |-> work.step, tables |-> work.tables, columns |-> work.columns,
                deleted |-> work.deleted]
    BY <1>0 DEF MigrationInv, WorkInv
  <2> DEFINE ts == TablesAfter(o)  cs == ColumnsAfter(o)
             del == IF o.op = "delete_purges" THEN purge_rows ELSE work.deleted
  <2> HIDE DEF ts, cs, del
  <2>3. work' = [by |-> work.by, target |-> work.target, script |-> work.script,
                 step |-> n + 1, tables |-> ts, columns |-> cs, deleted |-> del]
    BY <2>1, <2>2 DEF ts, cs, del
  <2>4. /\ work'.by = x /\ work'.target = work.target /\ work'.script = work.script
        /\ work'.step = n + 1 /\ work'.tables = ts /\ work'.columns = cs /\ work'.deleted = del
    BY <2>3, <1>0
  <2>5. f[n] = Database(ts, cs)
    BY <1>4 DEF ts, cs
  <2>6. ASSUME NEW i \in 1..n, work.script[i].op = "check",
               "purge_prefix" \notin work.script[i].values
        PROVE  purge_rows \subseteq del
    <3>1. CASE i = n
      <4>1. purge_rows \subseteq work.deleted
        BY <2>6, <3>1, <1>6, WorkIs
      <4> QED BY <4>1 DEF del
    <3>2. CASE i # n
      <4>1. i \in 1..(n - 1)
        BY <3>2, <1>1
      <4>2. purge_rows \subseteq work.deleted
        BY <4>1, <2>6, <1>0 DEF MigrationInv, WorkInv
      <4> QED BY <4>2 DEF del
    <3> QED BY <3>1, <3>2
  <2>7. n + 1 \in 1..(Len(work.script) + 1) /\ (n + 1) - 1 = n
    <3>1. Len(work.script) \in Nat
      BY <1>1, ScriptIs DEF MigrationInv, CommittedInv
    <3> QED BY <3>1, <1>1
  <2> HIDE DEF o, n
  <2>8. \E h : /\ Route(h, work.script, Ideal(revision), Ideal(Reached(revision, work.target)))
               /\ h[(n + 1) - 1] = Database(ts, cs)
    BY <1>2, <2>5, <2>7
  <2>9. WorkInv'
    BY <2>1, <2>3, <2>4, <2>6, <2>7, <2>8, <1>1 DEF WorkInv
  <2> QED BY <2>1, <2>9, <1>5 DEF MigrationInv
<1>7. CASE ~Possible(o)
  <2>1. o.op = "check"
    BY <1>4, <1>7, WorkIs
  <2>2. work' = NoWork /\ mig' = [mig EXCEPT ![x].phase = "rejected"]
    BY <1>7, <2>1 DEF ApplyOperation
  <2>3. mig' \in [Migrators -> MigratorState]
    BY <2>2 DEF MigrationInv, MigratorState
  <2>4. WorkInv'
    BY <2>2 DEF WorkInv, InProgress, NoWork
  <2> QED BY <1>5, <2>3, <2>4 DEF MigrationInv
<1> QED BY <1>6, <1>7

LEMMA CommitMigrationStep ==
    ASSUME MigrationInv, NEW x \in Migrators, CommitMigration(x)
    PROVE  MigrationInv'
<1> DEFINE s == work.script  target == work.target
<1>0. InProgress /\ x = work.by
  BY MigrationAssumption DEF CommitMigration, InProgress
<1>1. /\ s = Script(revision, target) /\ target \in Revision /\ revision \in Revision
  BY <1>0 DEF MigrationInv, WorkInv, CommittedInv
<1>2. /\ Len(s) \in Nat /\ Reached(revision, target) \in Revision
      /\ s # <<>> /\ target = "0001" => s = Downgrade0002
  BY <1>1, ScriptIs
<1>3. work.step - 1 = Len(s)
  BY <1>0, <1>2 DEF MigrationInv, WorkInv, CommitMigration
<1>4. Database(work.tables, work.columns) = Ideal(Reached(revision, target))
  <2>1. PICK f : Route(f, s, Ideal(revision), Ideal(Reached(revision, target)))
                 /\ f[work.step - 1] = Database(work.tables, work.columns)
    BY <1>0 DEF MigrationInv, WorkInv
  <2> QED BY <2>1, <1>3 DEF Route
<1>5. tables' = work.tables /\ columns' = work.columns /\ revision' = Reached(revision, target)
  BY <1>1 DEF CommitMigration, Reached
<1>6. purge_rows' # {} => revision' = "0002"
  <2> SUFFICES ASSUME purge_rows' # {}, revision' # "0002" PROVE FALSE
    OBVIOUS
  <2>1. CASE s = <<>>
    <3>1. revision' = revision
      BY <2>1, <1>1, <1>5 DEF Reached
    <3>2. purge_rows = {}
      BY <3>1 DEF MigrationInv, CommittedInv
    <3> QED BY <3>2 DEF CommitMigration
  <2>2. CASE s # <<>>
    <3>1. revision' = target
      BY <2>2, <1>1, <1>5 DEF Reached
    <3>2. CASE target = "none"
      <4>1. "jobs" \notin DOMAIN work.tables
        BY <1>4, <1>5, <3>1, <3>2 DEF Ideal, Database
      <4> QED BY <4>1 DEF CommitMigration
    <3>3. CASE target = "0001"
      <4>1. Len(s) = 10 /\ s[4].op = "check" /\ s[4].values = JobTypesV1
        <5>1. s = Downgrade0002 /\ Len(Downgrade0002) = 10
          BY <1>2, <2>2, <3>3, SecondScript, Zenon
        <5>2. Downgrade0002[4].op = "check" /\ Downgrade0002[4].values = JobTypesV1
          BY DEF Downgrade0002, JobTypeCheck
        <5> QED BY <5>1, <5>2, Zenon
      <4>2. "purge_prefix" \notin JobTypesV1 /\ 4 \in 1..(work.step - 1)
        BY <1>3, <4>1 DEF JobTypesV1
      <4>3. purge_rows \subseteq work.deleted
        BY <4>1, <4>2, <1>0 DEF MigrationInv, WorkInv
      <4> QED BY <4>3 DEF CommitMigration
    <3> QED BY <3>1, <3>2, <3>3, <1>1 DEF Revision
  <2> QED BY <2>1, <2>2
<1>7. CommittedInv'
  BY <1>2, <1>4, <1>5, <1>6 DEF CommittedInv
<1>8. WorkInv' /\ mig' \in [Migrators -> MigratorState]
  BY DEF CommitMigration, WorkInv, InProgress, NoWork, MigrationInv, MigratorState, NoMigrator,
         Revision
<1> QED BY <1>7, <1>8 DEF MigrationInv

LEMMA LoseStep ==
    ASSUME MigrationInv, NEW x \in Migrators, LoseConnection(x)
    PROVE  MigrationInv'
<1>1. mig' \in [Migrators -> MigratorState]
  BY DEF LoseConnection, MigrationInv, MigratorState, NoMigrator, Revision
<1>2. CommittedInv'
  BY DEF LoseConnection, MigrationInv, CommittedInv
<1>3. WorkInv'
  <2>1. CASE work.by = x
    BY <2>1 DEF LoseConnection, WorkInv, InProgress, NoWork
  <2>2. CASE work.by # x
    BY <2>2 DEF LoseConnection, MigrationInv, WorkInv, InProgress
  <2> QED BY <2>1, <2>2
<1> QED BY <1>1, <1>2, <1>3 DEF MigrationInv

LEMMA MigrationAlways == MigrationSpec => []MigrationInv
<1>1. MigrationInv /\ [MigrationNext]_migrationVars => MigrationInv'
  <2> SUFFICES ASSUME MigrationInv, [MigrationNext]_migrationVars PROVE MigrationInv'
    OBVIOUS
  <2>1. CASE UNCHANGED migrationVars
    BY <2>1 DEF migrationVars, MigrationInv, CommittedInv, WorkInv, InProgress
  <2>2. CASE MigrationNext
    BY <2>2, EnqueueStep, ConnectStep, BeginStep, OperationStep, CommitMigrationStep, LoseStep
       DEF MigrationNext
  <2> QED BY <2>1, <2>2
<1> QED BY <1>1, MigrationInvInit, PTL DEF MigrationSpec

\* Whatever migrators upgrade and downgrade side by side, stopped wherever they are, while any
\* number of purges is enqueued: at head the database is the one the models declare, at base it
\* is empty, no operation finds a table or column in the wrong state, and no CHECK rejects a
\* purge job that is there (migrations/env.py, versions/0001 and 0002, db/models.py).
THEOREM HeadMatchesModels == MigrationSpec => []HeadIsDeclared
<1>1. MigrationInv => HeadIsDeclared
  <2> SUFFICES ASSUME MigrationInv PROVE HeadIsDeclared
    OBVIOUS
  <2>1. \A x \in Migrators : mig[x].phase # "broken"
    BY DEF MigrationInv, MigratorState
  <2>2. revision = "0002" => tables = Declared /\ columns = AllColumns
    BY DEF MigrationInv, CommittedInv, Ideal, AtHead, Database
  <2>3. revision = "none" => tables = <<>> /\ columns = {}
    BY DEF MigrationInv, CommittedInv, Ideal, Database
  <2>4. purge_rows # {} =>
          \E c \in tables["jobs"].checks : c[1] = "job_type" /\ "purge_prefix" \in c[2]
    <3> SUFFICES ASSUME purge_rows # {}
                 PROVE  <<"job_type", JobType>> \in tables["jobs"].checks
                        /\ "purge_prefix" \in JobType
      BY Zenon
    <3>1. tables["jobs"] = JobTables.jobs
      BY <2>2, TrunkTables DEF MigrationInv, CommittedInv
    <3> QED BY <3>1 DEF JobTables, Table, JobType
  <2> QED BY <2>1, <2>2, <2>3, <2>4 DEF HeadIsDeclared, AllColumns
<1> QED BY <1>1, MigrationAlways, PTL
=============================================================================
